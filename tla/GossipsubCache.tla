--------------------------- MODULE GossipsubCache ---------------------------
(***************************************************************************)
(* Duplicate detection, the message cache and application validation of    *)
(* the gossipsub router (gossipsub_state.c, gossipsub_rx.c, gossipsub_api.c *)
(* and the heartbeat of gossipsub_host.c).                                  *)
(*                                                                          *)
(* All tables have a fixed size.  A received message enters the seen table  *)
(* and the cache; a message of a topic that requires validation also takes  *)
(* a validation slot, whose address is the token the application gets with  *)
(* the MESSAGE event and reports with.  A validation slot names the CACHE   *)
(* SLOT of its message, not the message.                                    *)
(*                                                                          *)
(* Time is counted in units between calls of libp2p_gossipsub_drive:        *)
(* "left" is expires_us - last_drive_us, and untilHeartbeat is              *)
(* next_heartbeat_us - last_drive_us.                                       *)
(***************************************************************************)
EXTENDS Integers, Sequences, FiniteSets

CONSTANTS
    Msgs,               \* message ids
    NoMsg,
    RequireApp,         \* messages of a topic in mode VALIDATION_REQUIRE_APP
    Unwanted,           \* messages of a topic not subscribed locally
    Size(_),            \* data length of a message
    SeenEntries, McacheSlots, McacheBytes, PendingValidations, EventCapacity,
    SeenTtl,            \* mesh.seen_ttl_us
    ValidationTtl,      \* mesh.iwant_followup_us
    McacheLen,          \* mesh.mcache_len
    HeartbeatInterval,  \* mesh.heartbeat_interval_us
    MaxElapsed          \* bound: longest time between two drives

ASSUME CacheAssumption ==
    /\ NoMsg \notin Msgs
    /\ RequireApp \subseteq Msgs /\ Unwanted \subseteq Msgs
    /\ \A m \in Msgs : Size(m) \in Nat
    /\ {SeenEntries, McacheSlots, McacheBytes, PendingValidations, EventCapacity,
        HeartbeatInterval, MaxElapsed} \subseteq Nat \ {0}
    /\ {SeenTtl, ValidationTtl, McacheLen} \subseteq Nat

SeenSlots == 0 .. SeenEntries - 1
CacheSlots == 0 .. McacheSlots - 1
Cells == 0 .. McacheBytes - 1
Tokens == 0 .. PendingValidations - 1
NoToken == -1

VARIABLES
    seen,            \* slot -> [msg, left], msg = NoMsg in an unused one
    mcache,          \* slot -> [used, msg, window, off]
    cells,           \* mcache_data: the message whose data is in each cell
    dataUsed,        \* mcache_data_used
    mcacheNext,      \* mcache_next, modulo both of the divisors it is used with
    validations,     \* token -> [pending, slot, left]
    events,          \* the event ring, as a sequence
    held,            \* tokens the application has taken and not yet reported
    untilHeartbeat,
    out,             \* the message the last step queued for other peers, or NoMsg
    age,             \* history: time since a message was last taken as new
    evicted          \* history: a live seen entry was replaced in a full table

cacheVars == <<mcache, cells, dataUsed, mcacheNext>>
vars == <<seen, cacheVars, validations, events, held, untilHeartbeat, out, age, evicted>>

Expired == -1

\* The age from which a message may be taken as new again; more is not told apart.
Never == IF SeenTtl > HeartbeatInterval THEN SeenTtl - HeartbeatInterval + 1 ELSE 1

\* mcache_next is only used modulo SeenEntries and modulo McacheSlots.
Cycle ==
    CHOOSE n \in 1 .. SeenEntries * McacheSlots :
        /\ n % SeenEntries = 0 /\ n % McacheSlots = 0
        /\ \A k \in 1 .. n - 1 : k % SeenEntries # 0 \/ k % McacheSlots # 0
-----------------------------------------------------------------------------
(***************************************************************************)
(* The seen table.                                                         *)
(***************************************************************************)

NoSeen == [msg |-> NoMsg, left |-> Expired]

\* gossipsub_seen_contains at last_drive_us.
SeenContains(m) == \E i \in SeenSlots : seen[i].msg = m /\ seen[i].left >= 0

\* Mutant: the comparison with the current time is turned around.
SeenFreeSwapped(i, ahead) == seen[i].msg = NoMsg \/ seen[i].left >= ahead

\* gossipsub_seen_add when the current time is "ahead" units after
\* last_drive_us and mcache_next is "next": the first unused or expired slot,
\* else the one mcache_next falls on.
SeenFree(i, ahead) == seen[i].msg = NoMsg \/ seen[i].left < ahead

SeenTarget(ahead, next) ==
    IF \E i \in SeenSlots : SeenFree(i, ahead)
    THEN CHOOSE i \in SeenSlots :
            SeenFree(i, ahead) /\ \A j \in SeenSlots : SeenFree(j, ahead) => i <= j
    ELSE next % SeenEntries

SeenAdd(m, ahead, next) ==
    /\ seen' = [seen EXCEPT ![SeenTarget(ahead, next)] =
                    [msg |-> m, left |-> SeenTtl + ahead]]
    /\ evicted' = (evicted \/ ~SeenFree(SeenTarget(ahead, next), ahead))
    /\ age' = [age EXCEPT ![m] = 0]

-----------------------------------------------------------------------------
(***************************************************************************)
(* The message cache: a ring of entries over an arena that is only ever    *)
(* filled from the front, and emptied as a whole.                          *)
(***************************************************************************)

NoEntry == [used |-> FALSE, msg |-> NoMsg, window |-> 0, off |-> 0]

MustFlush(m) == Size(m) > McacheBytes - dataUsed
NextSlot == mcacheNext % McacheSlots
NextOffset(m) == IF MustFlush(m) THEN 0 ELSE dataUsed

\* Mutant: the arena starts again at the front and the entries stay.
McacheStoreKeepsEntries(m) ==
    LET off == NextOffset(m)
    IN  /\ mcache' = [mcache EXCEPT ![NextSlot] =
                        [used |-> TRUE, msg |-> m, window |-> 0, off |-> off]]
        /\ cells' = [c \in Cells |-> IF c \in off .. off + Size(m) - 1 THEN m ELSE cells[c]]
        /\ dataUsed' = off + Size(m)
        /\ mcacheNext' = (mcacheNext + 1) % Cycle

\* gossipsub_mcache_store of a message that fits (Size(m) <= McacheBytes).
McacheStore(m) ==
    LET off == NextOffset(m)
        base == IF MustFlush(m) THEN [i \in CacheSlots |-> NoEntry] ELSE mcache
    IN  /\ mcache' = [base EXCEPT ![NextSlot] =
                        [used |-> TRUE, msg |-> m, window |-> 0, off |-> off]]
        /\ cells' = [c \in Cells |-> IF c \in off .. off + Size(m) - 1 THEN m ELSE cells[c]]
        /\ dataUsed' = off + Size(m)
        /\ mcacheNext' = (mcacheNext + 1) % Cycle

\* gossipsub_mcache_find
Cached(m) == \E i \in CacheSlots : mcache[i].used /\ mcache[i].msg = m

-----------------------------------------------------------------------------
(***************************************************************************)
(* Events and validation slots.                                            *)
(***************************************************************************)

\* An event the application only looks at (DROPPED, IDONTWANT, ...).
PlainEvent == [msg |-> NoMsg, token |-> NoToken]
MessageEvent(m, t) == [msg |-> m, token |-> t]
RingFull == Len(events) = EventCapacity

\* gossipsub_push_event_or_drop of an event without a token.
Push(e) == events' = IF RingFull THEN events ELSE Append(events, e)

FreeToken == [pending |-> FALSE, slot |-> 0, left |-> Expired]
FreeTokens == {t \in Tokens : ~validations[t].pending}

\* Mutant: a MESSAGE event that finds the ring full keeps its validation slot.
PushForValidationLeaking(m) ==
    IF FreeTokens = {}
    THEN UNCHANGED <<events, validations>>
    ELSE LET t == CHOOSE t \in FreeTokens : \A u \in FreeTokens : t <= u
         IN  /\ validations' = [validations EXCEPT ![t] =
                   [pending |-> TRUE, slot |-> NextSlot, left |-> ValidationTtl]]
             /\ Push(MessageEvent(m, t))

\* gossipsub_alloc_validation and the push of the MESSAGE event: without a free
\* slot there is no event, and a full ring gives the slot back.
PushForValidation(m) ==
    IF FreeTokens = {} \/ RingFull
    THEN UNCHANGED <<events, validations>>
    ELSE LET t == CHOOSE t \in FreeTokens : \A u \in FreeTokens : t <= u
         IN  /\ validations' = [validations EXCEPT ![t] =
                   [pending |-> TRUE, slot |-> NextSlot, left |-> ValidationTtl]]
             /\ Push(MessageEvent(m, t))

-----------------------------------------------------------------------------
(***************************************************************************)
(* Actions.                                                                *)
(***************************************************************************)

\* gossipsub_process_message of a message seen before.
ReceiveDuplicate(m) ==
    /\ SeenContains(m)
    /\ Push(PlainEvent)
    /\ out' = NoMsg
    /\ UNCHANGED <<seen, cacheVars, validations, held, untilHeartbeat, age, evicted>>

\* ... of a new message of a topic that is not subscribed.
ReceiveUnwanted(m) ==
    /\ ~SeenContains(m) /\ m \in Unwanted
    /\ SeenAdd(m, 0, mcacheNext)
    /\ Push(PlainEvent)
    /\ out' = NoMsg
    /\ UNCHANGED <<cacheVars, validations, held, untilHeartbeat>>

\* ... of a new message whose data exceeds mcache_bytes: ERR_LIMIT, tolerated.
ReceiveTooLarge(m) ==
    /\ ~SeenContains(m) /\ m \notin Unwanted /\ Size(m) > McacheBytes
    /\ SeenAdd(m, 0, mcacheNext)
    /\ out' = NoMsg
    /\ UNCHANGED <<cacheVars, validations, events, held, untilHeartbeat>>

\* ... of a new message of a topic in mode VALIDATION_REQUIRE_APP.
ReceiveForValidation(m) ==
    /\ ~SeenContains(m) /\ m \notin Unwanted /\ Size(m) <= McacheBytes
    /\ m \in RequireApp
    /\ SeenAdd(m, 0, mcacheNext)
    /\ McacheStore(m)
    /\ PushForValidation(m)
    /\ out' = NoMsg
    /\ UNCHANGED <<held, untilHeartbeat>>

\* ... and in mode VALIDATION_ACCEPT_ALL: gossipsub_forward_entry follows.
ReceiveAndForward(m) ==
    /\ ~SeenContains(m) /\ m \notin Unwanted /\ Size(m) <= McacheBytes
    /\ m \notin RequireApp
    /\ SeenAdd(m, 0, mcacheNext)
    /\ McacheStore(m)
    /\ Push(MessageEvent(m, NoToken))
    /\ out' = m
    /\ UNCHANGED <<validations, held, untilHeartbeat>>

\* libp2p_gossipsub_publish.  It takes next_heartbeat_us for the current time,
\* does not look for the message in the seen table, and enters it there after
\* the store into the message cache has advanced mcache_next.
Publish(m) ==
    /\ Size(m) <= McacheBytes
    /\ McacheStore(m)
    /\ SeenAdd(m, untilHeartbeat, mcacheNext')
    /\ out' = m
    /\ UNCHANGED <<validations, events, held, untilHeartbeat>>

\* libp2p_gossipsub_next_event
NextEvent ==
    /\ events # <<>>
    /\ events' = Tail(events)
    /\ held' = IF Head(events).token = NoToken THEN held ELSE held \cup {Head(events)}
    /\ out' = NoMsg
    /\ UNCHANGED <<seen, cacheVars, validations, untilHeartbeat, age, evicted>>

\* libp2p_gossipsub_report_validation with a token that is not pending any
\* more: ERR_INVALID_ARG.
ReportLate(h) ==
    /\ h \in held
    /\ ~validations[h.token].pending
    /\ held' = held \ {h}
    /\ out' = NoMsg
    /\ UNCHANGED <<seen, cacheVars, validations, events, untilHeartbeat, age, evicted>>

\* ... with a pending one: an accepted message is forwarded if the cache slot
\* is in use (ERR_STATE otherwise), and the token is released in any case.
Report(h, accept) ==
    LET entry == mcache[validations[h.token].slot]
    IN  /\ h \in held
        /\ validations[h.token].pending
        /\ validations' = [validations EXCEPT ![h.token] = FreeToken]
        /\ held' = held \ {h}
        /\ out' = IF accept /\ entry.used THEN entry.msg ELSE NoMsg
        /\ UNCHANGED <<seen, cacheVars, events, untilHeartbeat, age, evicted>>

\* An IWANT of a peer: gossipsub_process_rpc looks the message up in the cache.
ServeIwant(m) ==
    /\ Cached(m)
    /\ out' = m
    /\ UNCHANGED <<seen, cacheVars, validations, events, held, untilHeartbeat, age, evicted>>

Less(left, elapsed) == IF left > elapsed THEN left - elapsed
                       ELSE IF left = elapsed THEN 0 ELSE Expired
More(a, elapsed) == IF a + elapsed < Never THEN a + elapsed ELSE Never

\* libp2p_gossipsub_drive before the heartbeat is due.
DriveBetween(elapsed) ==
    /\ elapsed < untilHeartbeat
    /\ seen' = [i \in SeenSlots |-> [seen[i] EXCEPT !.left = Less(@, elapsed)]]
    /\ validations' = [t \in Tokens |-> [validations[t] EXCEPT !.left = Less(@, elapsed)]]
    /\ age' = [m \in Msgs |-> More(age[m], elapsed)]
    /\ untilHeartbeat' = untilHeartbeat - elapsed
    /\ out' = NoMsg
    /\ UNCHANGED <<cacheVars, events, held, evicted>>

\* The parts of gossipsub_heartbeat that age the cache, the seen table and the
\* validation slots.
AgedEntry(e) ==
    IF ~e.used THEN e
    ELSE IF e.window >= McacheLen THEN [e EXCEPT !.used = FALSE]
    ELSE [e EXCEPT !.window = @ + 1]

AgedSeen(e, elapsed) ==
    IF Less(e.left, elapsed) < 0 THEN NoSeen ELSE [e EXCEPT !.left = Less(@, elapsed)]

\* Mutant: the heartbeat leaves the validation slots alone.
AgedTokenForever(v, elapsed) == [v EXCEPT !.left = Less(@, elapsed)]

AgedToken(v, elapsed) ==
    IF Less(v.left, elapsed) < 0 THEN FreeToken ELSE [v EXCEPT !.left = Less(@, elapsed)]

\* libp2p_gossipsub_drive when the heartbeat is due.
DriveHeartbeat(elapsed) ==
    /\ elapsed >= untilHeartbeat
    /\ mcache' = [i \in CacheSlots |-> AgedEntry(mcache[i])]
    /\ seen' = [i \in SeenSlots |-> AgedSeen(seen[i], elapsed)]
    /\ validations' = [t \in Tokens |-> AgedToken(validations[t], elapsed)]
    /\ age' = [m \in Msgs |-> More(age[m], elapsed)]
    /\ untilHeartbeat' = HeartbeatInterval
    /\ out' = NoMsg
    /\ UNCHANGED <<cells, dataUsed, mcacheNext, events, held, evicted>>

-----------------------------------------------------------------------------
\* After libp2p_gossipsub_start.
Init ==
    /\ seen = [i \in SeenSlots |-> NoSeen]
    /\ mcache = [i \in CacheSlots |-> NoEntry]
    /\ cells = [c \in Cells |-> NoMsg]
    /\ dataUsed = 0 /\ mcacheNext = 0
    /\ validations = [t \in Tokens |-> FreeToken]
    /\ events = <<>> /\ held = {}
    /\ untilHeartbeat = HeartbeatInterval
    /\ out = NoMsg
    /\ age = [m \in Msgs |-> Never]
    /\ evicted = FALSE

Receive(m) ==
    \/ ReceiveDuplicate(m)
    \/ ReceiveUnwanted(m)
    \/ ReceiveTooLarge(m)
    \/ ReceiveForValidation(m)
    \/ ReceiveAndForward(m)

Drive(elapsed) == DriveBetween(elapsed) \/ DriveHeartbeat(elapsed)

Next ==
    \/ \E m \in Msgs : Receive(m) \/ Publish(m) \/ ServeIwant(m)
    \/ NextEvent
    \/ \E h \in held : ReportLate(h) \/ \E accept \in BOOLEAN : Report(h, accept)
    \/ \E elapsed \in 1 .. MaxElapsed : Drive(elapsed)

Spec == Init /\ [][Next]_vars

\* The caller keeps driving the router and time passes; the application may
\* never take an event or report a token.
FairSpec == Spec /\ WF_vars(\E elapsed \in 1 .. MaxElapsed : Drive(elapsed))
-----------------------------------------------------------------------------
(***************************************************************************)
(* Properties.                                                             *)
(***************************************************************************)

\* Every variable has its type; the cache never fills past mcache_bytes and the
\* event ring never past event_capacity.
TypeOK ==
    /\ seen \in [SeenSlots -> [msg : Msgs \cup {NoMsg},
                               left : Expired .. SeenTtl + HeartbeatInterval]]
    /\ mcache \in [CacheSlots -> [used : BOOLEAN, msg : Msgs \cup {NoMsg},
                                  window : 0 .. McacheLen, off : 0 .. McacheBytes]]
    /\ cells \in [Cells -> Msgs \cup {NoMsg}]
    /\ dataUsed \in 0 .. McacheBytes
    /\ mcacheNext \in 0 .. Cycle - 1
    /\ validations \in [Tokens -> [pending : BOOLEAN, slot : CacheSlots,
                                   left : Expired .. ValidationTtl]]
    /\ events \in Seq([msg : Msgs \cup {NoMsg}, token : Tokens \cup {NoToken}])
    /\ Len(events) <= EventCapacity
    /\ held \subseteq [msg : Msgs, token : Tokens]
    /\ untilHeartbeat \in 1 .. HeartbeatInterval
    /\ out \in Msgs \cup {NoMsg}
    /\ age \in [Msgs -> 0 .. Never]
    /\ evicted \in BOOLEAN

\* What the cache serves is what was stored: the data of every entry in use lies in
\* the filled part of the arena and no later message has overwritten it, although
\* the slots are reused in a ring and the arena is not (gossipsub_mcache_store).
CacheIntact ==
    \A i \in CacheSlots : mcache[i].used =>
        /\ mcache[i].off + Size(mcache[i].msg) <= dataUsed
        /\ \A c \in mcache[i].off .. mcache[i].off + Size(mcache[i].msg) - 1 :
              cells[c] = mcache[i].msg

\* No validation slot is lost: a pending one can still be reported, by a MESSAGE
\* event in the ring or by a token the application holds, whatever happened to the
\* ring when the message arrived (gossipsub_push_event_or_drop).
ValidationsReachable ==
    \A t \in Tokens : validations[t].pending =>
        \/ \E i \in 1 .. Len(events) : events[i].token = t
        \/ \E h \in held : h.token = t

\* A message is not taken as new again within seen_ttl_us of the last time, up to
\* the heartbeat interval by which libp2p_gossipsub_publish runs ahead of the clock
\* when it looks for an expired entry; unless a full table had to give up an entry.
DuplicateWindow ==
    [][\A m \in Msgs :
          ~evicted /\ age'[m] = 0 /\ seen' # seen /\ Receive(m) =>
              age[m] > SeenTtl - HeartbeatInterval]_vars

\* A validation slot does not stay pending for ever when the application never
\* reports: the heartbeat reclaims it.
ValidationReclaimed ==
    \A t \in Tokens : validations[t].pending ~> ~validations[t].pending

=============================================================================
