---------------------------- MODULE QuicService ----------------------------
(***************************************************************************)
(* The QUIC service and the endpoint under it: the life of a connection    *)
(* from dial or first datagram to the release of its memory, through the   *)
(* endpoint's event ring, the service's table of connections and its own   *)
(* event ring (quic_service.c, quic_backend_ngtcp2_{conn,endpoint,         *)
(* callbacks,util}.c).                                                     *)
(*                                                                         *)
(* libp2p_quic_service_drive is a sequence of steps, and the application   *)
(* calls in between drives.  ngtcp2 is external: what a datagram, a timer  *)
(* or a write makes of a connection is a nondeterministic outcome:         *)
(*   "ok"        it goes on;                                               *)
(*   "ends"      closing, draining, idle, dropped: the connection is over; *)
(*   "fails"     any other error: a CONNECTION_CLOSE is to be sent;        *)
(*   "endpoint"  no memory, bad argument: returned to the caller;          *)
(*   "late"      it goes on, but a callback has left an error behind.      *)
(* Operators of the endpoint work on a record st of the variables they     *)
(* change and return [st, ok]; ok = FALSE is an error for the caller.      *)
(***************************************************************************)
EXTENDS Integers, Sequences, FiniteSets, SequencesExt

CONSTANTS
    Conns,         \* addresses of connection objects, reused after a release
    None,          \* null pointer
    MaxConns,      \* max_connections, also the size of the service's table
    MaxOutgoing, MaxIncoming,
    RxBudget,      \* max_rx_datagrams_per_drive
    RingCap,       \* events the endpoint holds
    EventCap       \* events the service holds

ASSUME QuicServiceAssumption ==
    /\ None \notin Conns
    /\ {MaxConns, MaxOutgoing, MaxIncoming, RxBudget, RingCap, EventCap} \subseteq Nat \ {0}

VARIABLES
    conn,      \* connection objects
    live,      \* endpoint->connections
    cursor,    \* endpoint->next_tx_connection, from 0
    ring,      \* endpoint events
    tracked,   \* service->conns
    events,    \* service events
    pend,      \* the connection of the datagram not sent yet, or None
    txPending, \* service->tx_pending
    drive,     \* where libp2p_quic_service_drive is
    app        \* per address: what the application knows, whether the report of
               \* its end was refused by a full ring (lost), and whether its
               \* request to transmit was (unheard)

Registered(c) == conn[c].role # "none"

vars == <<conn, live, cursor, ring, tracked, events, pend, txPending, drive, app>>

(* role is "none" once the connection is not registered with the endpoint; *)
(* fresh says that its handshake may still complete.                       *)
NoObject == [st |-> "none", role |-> "none", fresh |-> FALSE, closeReq |-> FALSE]
Unknown == [known |-> FALSE, told |-> FALSE, lost |-> FALSE, unheard |-> FALSE]
Idle == [pc |-> "idle", idx |-> 0, start |-> 0, sent |-> FALSE, cut |-> FALSE]

EndpointInit == /\ conn = [c \in Conns |-> NoObject]
                /\ live = <<>> /\ cursor = 0 /\ ring = <<>>

Init == /\ EndpointInit
        /\ tracked = <<>> /\ events = <<>>
        /\ pend = None /\ txPending = FALSE
        /\ drive = Idle
        /\ app = [c \in Conns |-> Unknown]

----------------------------------------------------------------------------
(* The endpoint *)
Now == [conn |-> conn, live |-> live, cursor |-> cursor, ring |-> ring, app |-> app]
Become(st) == /\ conn' = st.conn /\ live' = st.live /\ cursor' = st.cursor
              /\ ring' = st.ring /\ app' = st.app

Done(st) == [st |-> st, ok |-> TRUE]
Failed(st) == [st |-> st, ok |-> FALSE]

(* quic_backend_event_push *)
EventPush(st, type, c) ==
    IF Len(st.ring) = RingCap
    THEN Failed([st EXCEPT !.app[c].lost = @ \/ type = "closed",
                           !.app[c].unheard = @ \/ (type = "txready" /\ st.conn[c].closeReq)])
    ELSE Done([st EXCEPT !.ring = Append(@, [type |-> type, conn |-> c])])

(* A push whose result the code ignores. *)
Announce(st, type, c) == EventPush(st, type, c).st

(* The last entry of a table takes the place of entry i. *)
SwapOut(s, i) == SubSeq([s EXCEPT ![i] = Last(s)], 1, Len(s) - 1)

(* quic_backend_conn_remove_live_at, quic_backend_conn_retire_from_endpoint *)
Retire(st, c) ==
    LET i == CHOOSE k \in 1..Len(st.live) : st.live[k] = c
        count == Len(st.live) - 1
    IN [st EXCEPT
          !.live = SwapOut(@, i),
          !.cursor = IF count = 0 THEN 0 ELSE IF @ > i - 1 THEN @ - 1
                     ELSE IF @ >= count THEN 0 ELSE @,
          !.conn[c].role = "none", !.conn[c].fresh = FALSE,
          !.app[c].unheard = FALSE]

(* Mutant: the live table keeps the closed connection. *)
MarkClosedStillLive(st, c) ==
    EventPush([st EXCEPT !.conn[c].st = "closed"], "closed", c)

(* quic_backend_conn_mark_closed: retired even if the ring has no room. *)
MarkClosed(st, c) ==
    LET o == EventPush([st EXCEPT !.conn[c].st = "closed"], "closed", c)
    IN [o EXCEPT !.st = Retire(o.st, c)]

(* Mutant: nobody is told that there is a CONNECTION_CLOSE to send. *)
RequestCloseUnannounced(st, c) ==
    Done([st EXCEPT !.conn[c].st = "closing", !.conn[c].closeReq = TRUE])

(* quic_backend_conn_close and the last branch of quic_backend_handle_conn_error *)
RequestClose(st, c) ==
    EventPush([st EXCEPT !.conn[c].st = "closing", !.conn[c].closeReq = TRUE], "txready", c)

(* quic_backend_handle_conn_error *)
HandleConnError(st, c, rv) ==
    CASE rv = "ok" -> Done(st)
      [] rv = "ends" -> MarkClosed(st, c)
      [] rv = "fails" -> RequestClose(st, c)
      [] rv = "endpoint" -> Failed(st)

(* outgoing_connection_count, incoming_connection_count *)
Count(st, role) == Cardinality({c \in Conns : st.conn[c].role = role})

(* quic_backend_conn_add_to_endpoint *)
MayAdd(st, role) ==
    /\ Len(st.live) < MaxConns
    /\ role = "client" => Count(st, role) < MaxOutgoing
    /\ role = "server" => Count(st, role) < MaxIncoming

(* Entered in the live table by quic_backend_conn_add_to_endpoint. *)
Added(st, c, role) ==
    [st EXCEPT !.conn[c] = [st |-> "handshaking", role |-> role, fresh |-> TRUE,
                            closeReq |-> FALSE],
               !.live = Append(@, c),
               !.app[c] = Unknown]

(* quic_backend_conn_client_new, quic_backend_conn_server_new: the first    *)
(* event of a connection is announced, not guaranteed.                      *)
ClientNew(st, c) == Announce(Added(st, c, "client"), "txready", c)
ServerNew(st, c) == Announce(Added(st, c, "server"), "incoming", c)

HandshakeCompleted(st, c) ==
    EventPush([st EXCEPT !.conn[c].st = "established", !.conn[c].fresh = FALSE], "established", c)

(* A stream opened, readable, reset or closed by the peer. *)
StreamCallback(st, c) == EventPush(st, "stream", c)

(* The callbacks of ngtcp2 while it reads a datagram: each pushes an event  *)
(* and fails when it cannot, and none follows one that failed.              *)
Callback(st, c, evs) ==
    LET o == IF "established" \in evs THEN HandshakeCompleted(st, c) ELSE Done(st)
    IN IF o.ok /\ "stream" \in evs THEN StreamCallback(o.st, c) ELSE o

(* What ngtcp2 makes of a datagram. *)
Results == {"ok", "late", "ends", "fails", "endpoint"}

(* quic_backend_endpoint_recv_datagram for connection c *)
RecvDatagram(st, c, evs, rv) ==
    LET o == Callback(st, c, evs)
        failed == IF o.ok THEN rv ELSE "fails"
    IN IF failed = "ok" THEN Done(Announce(o.st, "txready", c))
       ELSE IF failed = "late" THEN Failed(Announce(o.st, "txready", c))
       ELSE HandleConnError(o.st, c, failed)

(* The callbacks one datagram can cause: stream events once the handshake   *)
(* has completed, which happens once, also after a close was requested.     *)
Callbacks(st, c) ==
    IF st.conn[c].fresh THEN {{}, {"established"}, {"established", "stream"}}
    ELSE {{}, {"stream"}}

(* One round of quic_backend_endpoint_poll whose timer has expired. *)
Expire(st, c, rv) ==
    LET o == HandleConnError(st, c, rv)
    IN IF o.ok THEN Done(Announce(o.st, "txready", c)) ELSE o

----------------------------------------------------------------------------
(* The service *)
TrackedAt(t, c) == {i \in 1..Len(t) : t[i].conn = c}
Entry(c) == [conn |-> c, incoming |-> FALSE, established |-> FALSE, accepted |-> FALSE]

(* quic_service_track_conn, quic_service_mark_conn_established: the table   *)
(* with c in it, marked; unchanged when there is no room.                   *)
Tracked(t, c, mark) ==
    LET t1 == IF TrackedAt(t, c) = {} /\ Len(t) < MaxConns THEN Append(t, Entry(c)) ELSE t
    IN [i \in DOMAIN t1 |->
          IF t1[i].conn # c THEN t1[i]
          ELSE [t1[i] EXCEPT !.incoming = @ \/ mark = "incoming",
                             !.established = @ \/ mark = "established"]]

(* Mutant: only a connection that was established is forgotten. *)
ForgottenEstablished(t, c) ==
    LET at == {i \in TrackedAt(t, c) : t[i].established}
    IN IF at = {} THEN t ELSE SwapOut(t, CHOOSE i \in at : TRUE)

(* quic_service_forget_conn *)
Forgotten(t, c) ==
    LET at == TrackedAt(t, c)
    IN IF at = {} THEN t ELSE SwapOut(t, CHOOSE i \in at : TRUE)

(* quic_service_event_push *)
ServicePush(d, e) ==
    IF Len(d.events) < EventCap THEN [d EXCEPT !.events = Append(@, e)] ELSE [d EXCEPT !.ok = FALSE]

(* One event of quic_service_drain_endpoint_events and                      *)
(* quic_service_translate_event: it leaves the endpoint's ring before the   *)
(* service knows that it has room for it.  An error ends the drain.         *)
Translate(d, e) ==
    LET c == e.conn
        enters == e.type \in {"incoming", "established"}
        t == IF enters THEN Tracked(d.tracked, c, e.type)
             ELSE IF e.type = "closed" THEN Forgotten(d.tracked, c) ELSE d.tracked
        taken == [d EXCEPT !.ring = Tail(@), !.tracked = t]
        pushed == ServicePush(taken, e)
    IN IF ~d.ok THEN d
       ELSE IF e.type = "txready" THEN [taken EXCEPT !.tx = TRUE]
       ELSE IF enters /\ TrackedAt(t, c) = {} THEN [taken EXCEPT !.ok = FALSE]
       ELSE [pushed EXCEPT !.app[c].lost = @ \/ (e.type = "closed" /\ ~pushed.ok)]

(* quic_service_drain_endpoint_events, called with tx_pending = tx *)
Drain(tx) == FoldLeft(Translate, [ring |-> ring, tracked |-> tracked, events |-> events,
                                  app |-> app, tx |-> tx, ok |-> TRUE], ring)

Drained(d) == /\ ring' = d.ring /\ tracked' = d.tracked /\ events' = d.events
              /\ app' = d.app /\ txPending' = d.tx

Phase(pc) == [Idle EXCEPT !.pc = pc]

(* The next datagram: one that is left over goes first, else the endpoint   *)
(* is asked for one, starting at the cursor.                                *)
NextTx(sent) ==
    [Idle EXCEPT !.pc = IF pend' # None THEN "send" ELSE "write", !.sent = sent,
                 !.start = IF cursor < Len(live) THEN cursor ELSE 0]

(* libp2p_quic_service_drive drains, receives, polls, drains, transmits if  *)
(* there is a reason to, and drains; an error of a phase ends the drive.    *)
DriveStart ==
    /\ drive = Idle
    /\ LET d == Drain(txPending)
       IN Drained(d) /\ drive' = IF d.ok THEN Phase("rx") ELSE Idle
    /\ UNCHANGED <<conn, live, cursor, pend>>

(* An outcome of the endpoint: an error ends the drive. *)
Outcome(o, next) ==
    /\ Become(o.st)
    /\ drive' = IF o.ok THEN next ELSE Idle
    /\ UNCHANGED <<tracked, events, pend, txPending>>

(* quic_backend_find_conn_by_packet: connections a datagram can belong to *)
Known(t) == Range(t)

(* quic_service_drive_rx: a datagram of a live connection. *)
RxKnown(c) ==
    /\ drive.pc = "rx" /\ drive.idx < RxBudget /\ c \in Known(live)
    /\ \E evs \in Callbacks(Now, c), rv \in Results :
         Outcome(RecvDatagram(Now, c, evs, rv), [drive EXCEPT !.idx = @ + 1])

(* A first datagram; a connection that is over a limit, or cannot be        *)
(* allocated, fails the whole drive.                                        *)
RxNew(c) ==
    /\ drive.pc = "rx" /\ drive.idx < RxBudget /\ conn[c] = NoObject
    /\ LET next == [drive EXCEPT !.idx = @ + 1]
       IN \/ Outcome(Failed(Now), next)
          \/ /\ MayAdd(Now, "server")
             /\ \E evs \in {{}, {"established"}}, rv \in Results :
                  Outcome(RecvDatagram(ServerNew(Now, c), c, evs, rv), next)

(* No more datagrams, or the budget of this drive is spent. *)
RxDone == /\ drive.pc = "rx" /\ drive' = Phase("poll")
          /\ UNCHANGED <<conn, live, cursor, ring, tracked, events, pend, txPending, app>>

(* quic_backend_endpoint_poll visits the live table by index while it may   *)
(* shrink: the connection swapped into a hole is not visited this time.     *)
Poll ==
    /\ drive.pc = "poll" /\ drive.idx < Len(live)
    /\ LET c == live[drive.idx + 1]
           next == [drive EXCEPT !.idx = @ + 1]
       IN \/ Outcome(Done(Now), next)
          \/ \E rv \in Results \ {"late"} : Outcome(Expire(Now, c, rv), next)

(* The second drain; the transmit phase is skipped when nothing asks for it. *)
PollDone ==
    /\ drive.pc = "poll" /\ drive.idx >= Len(live)
    /\ UNCHANGED <<conn, live, cursor, pend>>
    /\ LET d == Drain(txPending)
       IN /\ Drained(d)
          /\ drive' = IF d.ok /\ (d.tx \/ pend # None) THEN NextTx(FALSE) ELSE Idle

(* A datagram of connection c is in hand. *)
Prepared(c) == /\ pend' = c
               /\ drive' = [Phase("send") EXCEPT !.sent = drive.sent]
               /\ UNCHANGED <<tracked, events, txPending>>

(* quic_backend_write_conn_datagram: a CONNECTION_CLOSE ends the connection *)
(* as soon as it is written, whatever the ring.  ngtcp2 may refuse for now  *)
(* or fail, and then the drive fails.                                       *)
WriteClose(c, again) ==
    /\ conn[c].closeReq
    /\ \/ Become(MarkClosed(Now, c).st) /\ Prepared(c)
       \/ Outcome(Done(Now), [again EXCEPT !.cut = TRUE])
       \/ Outcome(Failed(Now), again)

(* The other branch: a datagram, nothing to send, or an error. *)
WriteData(c, at, again) ==
    /\ ~conn[c].closeReq
    /\ \/ Become([Now EXCEPT !.cursor = (at + 1) % Len(live)]) /\ Prepared(c)
       \/ Outcome(Done(Now), again)
       \/ \E rv \in {"ends", "fails", "endpoint"} :
            Outcome(HandleConnError(Now, c, rv), [again EXCEPT !.cut = @ \/ rv = "ends"])

(* quic_backend_endpoint_next_datagram: round robin from the cursor. *)
Write ==
    /\ drive.pc = "write" /\ drive.idx < Len(live)
    /\ LET at == (drive.start + drive.idx) % Len(live)
           again == [drive EXCEPT !.idx = @ + 1]
       IN WriteClose(live[at + 1], again) \/ WriteData(live[at + 1], at, again)

(* A pass that was cut short may have passed over a requested close. *)
PassedOver(a) ==
    [c \in Conns |->
       [a[c] EXCEPT !.unheard = @ \/ (drive.cut /\ Registered(c) /\ conn[c].closeReq)]]

(* The end of the transmit phase, and the third drain. *)
TxDone(wants) ==
    /\ LET d == Drain(wants) IN Drained([d EXCEPT !.app = PassedOver(d.app)])
    /\ drive' = Idle
    /\ UNCHANGED <<conn, live, cursor>>

(* Nobody has a datagram.  A pass is cut short when a connection ended in   *)
(* it, for the table has shrunk under the loop and others were passed over, *)
(* and when ngtcp2 would not write a close.                                 *)
WriteDone == /\ drive.pc = "write" /\ drive.idx >= Len(live)
             /\ TxDone(drive.sent)
             /\ UNCHANGED pend

(* libp2p_quic_udp_socket_send_datagram accepts, blocks or fails; after one *)
(* that is accepted the budget may be spent.                                *)
Send ==
    /\ drive.pc = "send"
    /\ \/ /\ pend' = None /\ txPending' = TRUE
          /\ drive' = NextTx(TRUE)
          /\ UNCHANGED <<conn, live, cursor, ring, tracked, events, app>>
       \/ pend' = None /\ TxDone(TRUE)
       \/ UNCHANGED pend /\ TxDone(TRUE)
       \/ /\ pend' = None /\ drive' = Idle
          /\ UNCHANGED <<conn, live, cursor, ring, tracked, events, app, txPending>>

----------------------------------------------------------------------------
(* The application, between drives *)
Calls(c) == drive = Idle /\ conn[c] # NoObject /\ app[c].known /\ ~app[c].told

(* libp2p_quic_service_dial; when the table is full the dial is refused,    *)
(* but the connection is on its way.                                        *)
Dial(c) ==
    /\ drive = Idle /\ conn[c] = NoObject /\ MayAdd(Now, "client")
    /\ LET st == ClientNew(Now, c)
           t == Tracked(tracked, c, "outgoing")
           ok == TrackedAt(t, c) # {}
       IN /\ Become([st EXCEPT !.app[c].known = ok])
          /\ tracked' = t
          /\ txPending' = (txPending \/ ok)
    /\ UNCHANGED <<events, pend, drive>>

(* Mutant: a connection that has ended is closed once more. *)
MayCloseTwice(c) == TRUE

(* quic_backend_validate_conn: what has ended is not closed any more.       *)
MayClose(c) == conn[c].st # "closed"

(* libp2p_quic_service_conn_close, refused without effect once the          *)
(* connection has ended, which the application may not know yet.            *)
ConnClose(c) ==
    /\ Calls(c) /\ MayClose(c)
    /\ LET o == RequestClose(Now, c)
       IN Become(o.st) /\ txPending' = (txPending \/ o.ok)
    /\ UNCHANGED <<tracked, events, pend, drive>>

(* quic_backend_endpoint_close: no event for any of them *)
EndpointClose(st) ==
    [st EXCEPT !.conn = [c \in Conns |-> IF c \in Range(st.live)
                                         THEN [@[c] EXCEPT !.st = "closing", !.closeReq = TRUE]
                                         ELSE @[c]]]

(* libp2p_quic_service_close *)
ServiceClose ==
    /\ drive = Idle
    /\ Become(EndpointClose(Now))
    /\ txPending' = TRUE
    /\ UNCHANGED <<tracked, events, pend, drive>>

(* libp2p_quic_service_stream_write, _finish, _reset, _stop_sending *)
StreamCall(c) ==
    /\ Calls(c)
    /\ LET o == EventPush(Now, "txready", c)
       IN Become(o.st) /\ txPending' = (txPending \/ o.ok)
    /\ UNCHANGED <<tracked, events, pend, drive>>

(* quic_backend_conn_open_bidi_stream *)
MayOpenStream(c) == conn[c].st = "established"

(* libp2p_quic_service_open_stream *)
OpenStream(c) ==
    /\ Calls(c) /\ MayOpenStream(c)
    /\ txPending' = TRUE
    /\ UNCHANGED <<conn, live, cursor, ring, tracked, events, pend, drive, app>>

(* The application learns of event e. *)
Told(e) == app' = [app EXCEPT ![e.conn].known = TRUE, ![e.conn].told = @ \/ e.type = "closed"]

(* libp2p_quic_service_next_event *)
NextEvent ==
    /\ drive = Idle /\ events # <<>>
    /\ Told(Head(events))
    /\ events' = Tail(events)
    /\ UNCHANGED <<conn, live, cursor, ring, tracked, pend, txPending, drive>>

(* host_quic_event_type: the host has no event for an incoming connection. *)
HostSees(e) == e.type # "incoming"

(* host_quic_next_event: events the host does not see are dropped. *)
HostNextEvent ==
    /\ drive = Idle /\ events # <<>> /\ ~HostSees(Head(events))
    /\ LET seen == {i \in 1..Len(events) : HostSees(events[i])}
       IN IF seen = {} THEN events' = <<>> /\ UNCHANGED app
          ELSE LET i == CHOOSE k \in seen : \A j \in seen : k <= j
               IN events' = SubSeq(events, i + 1, Len(events)) /\ Told(events[i])
    /\ UNCHANGED <<conn, live, cursor, ring, tracked, pend, txPending, drive>>

(* libp2p_quic_service_accept_conn *)
AcceptConn ==
    /\ drive = Idle
    /\ LET ready == {i \in 1..Len(tracked) : /\ tracked[i].incoming /\ tracked[i].established
                                              /\ ~tracked[i].accepted}
       IN /\ ready # {}
          /\ LET i == CHOOSE k \in ready : \A j \in ready : k <= j
             IN /\ tracked' = [tracked EXCEPT ![i].accepted = TRUE]
                /\ app' = [app EXCEPT ![tracked[i].conn].known = TRUE]
    /\ UNCHANGED <<conn, live, cursor, ring, events, pend, txPending, drive>>

RefsIn(q, c) == \E i \in 1..Len(q) : q[i].conn = c

(* quic_service_has_event_ref *)
ServiceRefs(c) == RefsIn(events, c)

(* Mutant: the endpoint's own ring is not looked at. *)
EndpointRefsNone(c) == FALSE

(* quic_backend_endpoint_has_event_ref *)
EndpointRefs(c) == RefsIn(ring, c)

(* quic_backend_endpoint_release_retired_conn *)
EndpointReleasable(c) == conn[c].st = "closed" /\ ~Registered(c) /\ ~EndpointRefs(c)

(* libp2p_quic_service_conn_release *)
Releasable(c) ==
    /\ pend # c /\ TrackedAt(tracked, c) = {} /\ ~ServiceRefs(c)
    /\ EndpointReleasable(c)

Release(c) ==
    /\ drive = Idle /\ conn[c] # NoObject /\ app[c].told
    /\ Releasable(c)
    /\ conn' = [conn EXCEPT ![c] = NoObject]
    /\ app' = [app EXCEPT ![c] = Unknown]
    /\ UNCHANGED <<live, cursor, ring, tracked, events, pend, txPending, drive>>

Next == \/ DriveStart \/ RxDone \/ Poll \/ PollDone \/ Write \/ WriteDone \/ Send
        \/ \E c \in Conns : \/ RxKnown(c) \/ RxNew(c) \/ Dial(c) \/ ConnClose(c)
                            \/ StreamCall(c) \/ OpenStream(c) \/ Release(c)
        \/ ServiceClose \/ NextEvent \/ HostNextEvent \/ AcceptConn

Spec == Init /\ [][Next]_vars

----------------------------------------------------------------------------
Roles == {"none", "client", "server"}
EventTypes == {"incoming", "established", "stream", "closed", "txready"}
Event == [type : EventTypes, conn : Conns]

(* The rings and the tables stay within what was allocated for them.        *)
TypeOK ==
    /\ conn \in [Conns -> [st : {"none", "handshaking", "established", "closing", "closed"},
                           role : Roles, fresh : BOOLEAN, closeReq : BOOLEAN]]
    /\ live \in Seq(Conns) /\ Len(live) <= MaxConns
    /\ cursor \in Nat
    /\ ring \in Seq(Event) /\ Len(ring) <= RingCap
    /\ tracked \in Seq([conn : Conns, incoming : BOOLEAN, established : BOOLEAN,
                        accepted : BOOLEAN]) /\ Len(tracked) <= MaxConns
    /\ events \in Seq(Event) /\ Len(events) <= EventCap
    /\ pend \in Conns \cup {None}
    /\ txPending \in BOOLEAN
    /\ drive \in [pc : {"idle", "rx", "poll", "write", "send"}, idx : Nat, start : Nat,
                  sent : BOOLEAN, cut : BOOLEAN]
    /\ app \in [Conns -> [known : BOOLEAN, told : BOOLEAN, lost : BOOLEAN, unheard : BOOLEAN]]

(* Nothing points to freed memory: every connection named by the live       *)
(* table, either ring, the service's table or the datagram in hand is       *)
(* allocated, no table names one twice, and the live table is exactly the   *)
(* registered connections (quic_backend_endpoint_release_retired_conn,      *)
(* libp2p_quic_service_conn_release).                                       *)
NoDangling ==
    /\ \A q \in {ring, tracked, events} : \A i \in 1..Len(q) : conn[q[i].conn] # NoObject
    /\ pend # None => conn[pend] # NoObject
    /\ Range(live) = {c \in Conns : Registered(c)}
    /\ \A i, j \in 1..Len(live) : live[i] = live[j] => i = j
    /\ \A i, j \in 1..Len(tracked) : tracked[i].conn = tracked[j].conn => i = j
    /\ cursor <= Len(live)

EndsIn(q, c) == Cardinality({i \in 1..Len(q) : q[i] = [type |-> "closed", conn |-> c]})

(* The end of a connection is reported once, and only after it: a live      *)
(* connection has no CONN_CLOSED under way, a retired one has exactly one,  *)
(* in the endpoint's ring, in the service's or delivered, unless one of the *)
(* two rings was full at that moment.                                       *)
EndReportedOnce ==
    \A c \in Conns : conn[c] # NoObject =>
        LET ends == EndsIn(ring, c) + EndsIn(events, c) + (IF app[c].told THEN 1 ELSE 0)
        IN ends = IF Registered(c) \/ app[c].lost THEN 0 ELSE 1

(* CONN_CLOSED is the last the application hears of a connection: nothing   *)
(* but a request to transmit follows it in a ring, and after its delivery   *)
(* no event, table entry or accept names the connection any more.  What has *)
(* ended stays so, whatever is asked of it before the application is told:  *)
(* it can be released as soon as no request to transmit names it            *)
(* (quic_backend_conn_close, quic_backend_endpoint_release_retired_conn).   *)
ClosedLast ==
    /\ \A q \in {ring, events} : \A i, j \in 1..Len(q) :
         i < j /\ q[i].conn = q[j].conn /\ q[i].type = "closed" => q[j].type = "txready"
    /\ \A c \in Conns : app[c].told \/ EndsIn(events, c) > 0 =>
         /\ \A i \in 1..Len(ring) : ring[i].conn = c => ring[i].type = "txready"
         /\ TrackedAt(tracked, c) = {}
    /\ \A c \in Conns : conn[c] # NoObject /\ ~Registered(c) => conn[c].st = "closed"
    /\ \A c \in Conns : app[c].told => ~RefsIn(events, c)
    /\ \A c \in Conns : app[c].told /\ pend # c /\ ~EndpointRefs(c) => Releasable(c)

(* A requested close is not forgotten between drives: as long as it has not *)
(* been written the service wants to transmit or will learn so from its     *)
(* next drain, unless the endpoint's ring had no room for the request, or   *)
(* the transmit pass that should have written it was cut short or refused   *)
(* by ngtcp2.                                                               *)
CloseNotForgotten ==
    drive = Idle => \A c \in Conns : Registered(c) /\ conn[c].closeReq /\ ~app[c].unheard =>
        \/ txPending \/ pend # None
        \/ \E i \in 1..Len(ring) : ring[i].type = "txready"
=============================================================================
