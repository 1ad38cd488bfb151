----------------------------- MODULE HostProofs -----------------------------
(***************************************************************************)
(* Proofs about Host, for every number of connections, streams, opens and  *)
(* dials and every event capacity that host_config_validate accepts.       *)
(***************************************************************************)
EXTENDS Host, FiniteSetTheorems, SequenceTheorems, TLAPS

-----------------------------------------------------------------------------
(***************************************************************************)
(* The inductive invariant.  Its parts are stated of tables rather than of *)
(* variables, because a step often changes a table twice: a count goes     *)
(* down, and then the connection may be recycled.                          *)
(***************************************************************************)

\* The slots that refer to connection c.
StreamRefs(ss, c) == {s \in Streams : ss[s].state # "FREE" /\ ss[s].conn = c}
OpenRefs(os, c) == {o \in Opens : os[o].state # "FREE" /\ os[o].conn = c}

\* The counts of a connection are the numbers of slots that refer to it.
Counted(cs, ss, os) ==
    \A c \in Conns : /\ cs[c].streamCount = Cardinality(StreamRefs(ss, c))
                     /\ cs[c].openCount = Cardinality(OpenRefs(os, c))

\* What refers to a connection refers to an active one; once it is closed, no open
\* waits on it and its streams are open and about to be told.
Referring(cs, ss, os) ==
    /\ \A s \in Streams : ss[s].state # "FREE" =>
         /\ ss[s].conn \in Conns /\ cs[ss[s].conn].active
         /\ cs[ss[s].conn].closed => ss[s].state = "OPEN" /\ "CLOSED" \in ss[s].pending
    /\ \A o \in Opens : os[o].state # "FREE" =>
         /\ os[o].conn \in Conns /\ cs[os[o].conn].active
         /\ cs[os[o].conn].closed => os[o].state # "WAIT_TRANSPORT"

\* A stream and the open it answers name each other: while it negotiates, and
\* afterwards until STREAM_OPENED is delivered.
Linked(ss, os, evs) ==
    /\ \A s \in Streams : ss[s].state = "NEGOTIATING" => (ss[s].outbound <=> ss[s].open # None)
    /\ \A s \in Streams : ss[s].state = "NEGOTIATING" /\ ss[s].open # None =>
         os[ss[s].open].state = "NEGOTIATING" /\ os[ss[s].open].conn = ss[s].conn
    /\ \A s \in Streams : ss[s].state = "OPEN" /\ ss[s].open # None =>
         \E i \in 1 .. Len(evs) : evs[i].open = ss[s].open /\ evs[i].stream = s
    /\ \A o \in Opens : os[o].state = "NEGOTIATING" =>
         \E s \in Streams : ss[s].state = "NEGOTIATING" /\ ss[s].open = o
    /\ \A s, r \in Streams :
         /\ ss[s].state = "NEGOTIATING" /\ ss[r].state = "NEGOTIATING"
         /\ ss[s].open = ss[r].open /\ ss[s].open # None
         => s = r

\* The queue has one event for each open that was answered, and no other for an open.
OpensQueued(os, evs) ==
    /\ \A i \in 1 .. Len(evs) : evs[i].open # None =>
         /\ evs[i].type \in {"STREAM_OPENED", "STREAM_OPEN_FAILED"}
         /\ os[evs[i].open].state = "EVENTED" /\ evs[i].conn = os[evs[i].open].conn
    /\ \A i \in 1 .. Len(evs) :
         evs[i].type \in {"STREAM_OPENED", "STREAM_OPEN_FAILED"} => evs[i].open # None
    /\ \A o \in Opens : os[o].state = "EVENTED" => \E i \in 1 .. Len(evs) : evs[i].open = o
    /\ \A i, j \in 1 .. Len(evs) : evs[i].open = evs[j].open /\ evs[i].open # None => i = j

\* The same for the dials.
DialsQueued(ds, evs) ==
    /\ \A i \in 1 .. Len(evs) : evs[i].dial # None => ds[evs[i].dial] = "EVENTED"
    /\ \A d \in Dials : ds[d] = "EVENTED" => \E i \in 1 .. Len(evs) : evs[i].dial = d
    /\ \A i, j \in 1 .. Len(evs) : evs[i].dial = evs[j].dial /\ evs[i].dial # None => i = j

\* The events of a connection: it is established before it is closed, closed once,
\* and held by closeEvent until the application has heard of that.
ConnsQueued(cs, evs, hl) ==
    /\ \A i \in 1 .. Len(evs) :
         /\ evs[i].conn # None =>
              evs[i].type \in {"CONN_ESTABLISHED", "CONN_CLOSED", "STREAM_OPENED", "STREAM_OPEN_FAILED"}
         /\ evs[i].type = "CONN_CLOSED" =>
              /\ evs[i].conn \in Conns
              /\ cs[evs[i].conn].active /\ cs[evs[i].conn].closed /\ cs[evs[i].conn].closeEvent
         /\ evs[i].type = "CONN_ESTABLISHED" =>
              /\ evs[i].conn \in Conns
              /\ cs[evs[i].conn].active
              /\ cs[evs[i].conn].closed => cs[evs[i].conn].closeEvent
    /\ \A i, j \in 1 .. Len(evs) :
         evs[i].type \in {"CONN_ESTABLISHED", "CONN_CLOSED"} /\ evs[j].type = "CONN_CLOSED"
         /\ evs[i].conn = evs[j].conn => i <= j
    /\ \A c \in hl : cs[c].active /\ (cs[c].closed => cs[c].closeEvent)

\* The opens that may still need an event.
Unanswered(os) == {o \in Opens : os[o].state \in {"WAIT_TRANSPORT", "NEGOTIATING"}}

\* In the handler of the end of a connection there is room for an event of every
\* open that is not answered, and for one more.
LoopInv ==
    /\ pc \in {"failOpens", "closeStreams"} =>
         /\ cur \in Conns /\ Usable(cur)
         /\ Len(events) + Cardinality(Unanswered(opens)) < EventCapacity
    /\ pc = "closeStreams" =>
         \A o \in Opens : ~(opens[o].state = "WAIT_TRANSPORT" /\ opens[o].conn = cur)

IInv ==
    /\ TypeOK /\ NoEventLost
    /\ Counted(conns, streams, opens) /\ Referring(conns, streams, opens)
    /\ Linked(streams, opens, events)
    /\ OpensQueued(opens, events) /\ DialsQueued(dials, events)
    /\ ConnsQueued(conns, events, held)
    /\ LoopInv

-----------------------------------------------------------------------------
(***************************************************************************)
(* Counting.                                                               *)
(***************************************************************************)

\* The constants, and the finite tables.
LEMMA Constants ==
    /\ MaxConns \in Nat \ {0} /\ MaxOpens \in Nat \ {0} /\ MaxDials \in Nat \ {0}
    /\ EventCapacity \in Nat \ {0} /\ EventCapacity > MaxOpens
    /\ MaxConns * MaxStreamsPerConn \in Nat
    /\ None \notin Conns /\ None \notin Opens /\ None \notin Dials /\ None \notin Streams
<1>1. MaxConns \in Nat \ {0} /\ MaxStreamsPerConn \in Nat \ {0} /\ MaxOpens \in Nat \ {0}
      /\ MaxDials \in Nat \ {0} /\ EventCapacity \in Nat \ {0} /\ EventCapacity > MaxOpens
  BY HostAssumption
<1>2. MaxConns * MaxStreamsPerConn \in Nat
  BY <1>1
<1> QED
  BY <1>1, <1>2 DEF None, Conns, Opens, Dials, Streams

LEMMA RefsFinite ==
    ASSUME NEW ss, NEW os, NEW c
    PROVE  /\ IsFiniteSet(StreamRefs(ss, c)) /\ Cardinality(StreamRefs(ss, c)) \in Nat
           /\ IsFiniteSet(OpenRefs(os, c)) /\ Cardinality(OpenRefs(os, c)) \in Nat
           /\ IsFiniteSet(Unanswered(os)) /\ Cardinality(Unanswered(os)) \in Nat
           /\ Cardinality(Unanswered(os)) <= MaxOpens
<1>1. IsFiniteSet(Streams)
  BY Constants, FS_Interval DEF Streams
<1>2. IsFiniteSet(Opens) /\ Cardinality(Opens) = MaxOpens
  <2>1. 1 \in Int /\ MaxOpens \in Int /\ ~(1 > MaxOpens) /\ MaxOpens - 1 + 1 = MaxOpens
    BY Constants
  <2> QED
    BY <2>1, FS_Interval DEF Opens
<1>3. /\ StreamRefs(ss, c) \in SUBSET Streams /\ OpenRefs(os, c) \in SUBSET Opens
      /\ Unanswered(os) \in SUBSET Opens
  BY DEF StreamRefs, OpenRefs, Unanswered
<1> QED
  BY <1>1, <1>2, <1>3, FS_Subset, FS_CardinalityType

\* A table that keeps which slots are used, and for what, keeps the counts.
LEMMA SameRefs ==
    ASSUME NEW ss, NEW tt, NEW os, NEW ps
    PROVE  /\ (\A s \in Streams : /\ tt[s].state = "FREE" <=> ss[s].state = "FREE"
                                  /\ tt[s].conn = ss[s].conn)
                => \A c \in Conns : StreamRefs(tt, c) = StreamRefs(ss, c)
           /\ (\A o \in Opens : /\ ps[o].state = "FREE" <=> os[o].state = "FREE"
                                /\ ps[o].conn = os[o].conn)
                => \A c \in Conns : OpenRefs(ps, c) = OpenRefs(os, c)
BY DEF StreamRefs, OpenRefs

\* What happens to a stream that stays where it is does not touch the counts.
LEMMA SameCounts ==
    ASSUME NEW cs, NEW ss, NEW tt, NEW os, Counted(cs, ss, os),
           \A s \in Streams : tt[s].state = ss[s].state /\ tt[s].conn = ss[s].conn
    PROVE  Counted(cs, tt, os)
<1>1. \A c \in Conns : StreamRefs(tt, c) = StreamRefs(ss, c)
  BY DEF StreamRefs
<1> QED
  BY <1>1 DEF Counted

\* Taking a slot for connection c adds one to its count and to no other.
LEMMA StreamTaken ==
    ASSUME NEW ss, NEW tt, NEW s \in Streams, NEW c \in Conns,
           ss[s].state = "FREE", tt[s].state # "FREE", tt[s].conn = c,
           \A r \in Streams \ {s} : tt[r] = ss[r]
    PROVE  /\ Cardinality(StreamRefs(tt, c)) = Cardinality(StreamRefs(ss, c)) + 1
           /\ \A d \in Conns \ {c} : StreamRefs(tt, d) = StreamRefs(ss, d)
<1>1. StreamRefs(tt, c) = StreamRefs(ss, c) \cup {s} /\ s \notin StreamRefs(ss, c)
  BY DEF StreamRefs
<1>2. Cardinality(StreamRefs(tt, c)) = Cardinality(StreamRefs(ss, c)) + 1
  BY <1>1, RefsFinite, FS_AddElement
<1>3. \A d \in Conns \ {c} : StreamRefs(tt, d) = StreamRefs(ss, d)
  BY DEF StreamRefs
<1> QED
  BY <1>2, <1>3

LEMMA OpenTaken ==
    ASSUME NEW os, NEW ps, NEW o \in Opens, NEW c \in Conns,
           os[o].state = "FREE", ps[o].state # "FREE", ps[o].conn = c,
           \A r \in Opens \ {o} : ps[r] = os[r]
    PROVE  /\ Cardinality(OpenRefs(ps, c)) = Cardinality(OpenRefs(os, c)) + 1
           /\ \A d \in Conns \ {c} : OpenRefs(ps, d) = OpenRefs(os, d)
<1>1. OpenRefs(ps, c) = OpenRefs(os, c) \cup {o} /\ o \notin OpenRefs(os, c)
  BY DEF OpenRefs
<1>2. Cardinality(OpenRefs(ps, c)) = Cardinality(OpenRefs(os, c)) + 1
  BY <1>1, RefsFinite, FS_AddElement
<1>3. \A d \in Conns \ {c} : OpenRefs(ps, d) = OpenRefs(os, d)
  BY DEF OpenRefs
<1> QED
  BY <1>2, <1>3

\* Giving it back takes one off a count that is not zero.
LEMMA StreamGivenBack ==
    ASSUME NEW ss, NEW tt, NEW s \in Streams, NEW c \in Conns,
           ss[s].state # "FREE", ss[s].conn = c, tt[s].state = "FREE",
           \A r \in Streams \ {s} : tt[r] = ss[r]
    PROVE  /\ Cardinality(StreamRefs(ss, c)) # 0
           /\ Cardinality(StreamRefs(tt, c)) = Cardinality(StreamRefs(ss, c)) - 1
           /\ \A d \in Conns \ {c} : StreamRefs(tt, d) = StreamRefs(ss, d)
<1>1. StreamRefs(tt, c) = StreamRefs(ss, c) \ {s} /\ s \in StreamRefs(ss, c)
  BY DEF StreamRefs
<1>2. Cardinality(StreamRefs(tt, c)) = Cardinality(StreamRefs(ss, c)) - 1
  <2>1. IsFiniteSet(StreamRefs(ss, c))
    BY RefsFinite
  <2> QED
    BY <1>1, <2>1, FS_RemoveElement
<1>3. Cardinality(StreamRefs(ss, c)) # 0
  BY <1>1, RefsFinite, FS_EmptySet
<1>4. \A d \in Conns \ {c} : StreamRefs(tt, d) = StreamRefs(ss, d)
  BY DEF StreamRefs
<1> QED
  BY <1>2, <1>3, <1>4

LEMMA OpenGivenBack ==
    ASSUME NEW os, NEW ps, NEW o \in Opens, NEW c \in Conns,
           os[o].state # "FREE", os[o].conn = c, ps[o].state = "FREE",
           \A r \in Opens \ {o} : ps[r] = os[r]
    PROVE  /\ Cardinality(OpenRefs(os, c)) # 0
           /\ Cardinality(OpenRefs(ps, c)) = Cardinality(OpenRefs(os, c)) - 1
           /\ \A d \in Conns \ {c} : OpenRefs(ps, d) = OpenRefs(os, d)
<1>1. OpenRefs(ps, c) = OpenRefs(os, c) \ {o} /\ o \in OpenRefs(os, c)
  BY DEF OpenRefs
<1>2. Cardinality(OpenRefs(ps, c)) = Cardinality(OpenRefs(os, c)) - 1
  <2>1. IsFiniteSet(OpenRefs(os, c))
    BY RefsFinite
  <2> QED
    BY <1>1, <2>1, FS_RemoveElement
<1>3. Cardinality(OpenRefs(os, c)) # 0
  BY <1>1, RefsFinite, FS_EmptySet
<1>4. \A d \in Conns \ {c} : OpenRefs(ps, d) = OpenRefs(os, d)
  BY DEF OpenRefs
<1> QED
  BY <1>2, <1>3, <1>4

-----------------------------------------------------------------------------
(***************************************************************************)
(* Connections: a change of counts and flags, and recycling.               *)
(***************************************************************************)

\* Two tables that differ in the counts and in who asked for a close.
SameFlags(cs, ds) ==
    \A c \in Conns : /\ ds[c].active = cs[c].active
                     /\ ds[c].closed = cs[c].closed
                     /\ ds[c].closeEvent = cs[c].closeEvent

LEMMA FlagsKeep ==
    ASSUME NEW cs, NEW ds, SameFlags(cs, ds), NEW ss, NEW os, NEW evs, NEW hl \in SUBSET Conns
    PROVE  /\ Referring(cs, ss, os) => Referring(ds, ss, os)
           /\ ConnsQueued(cs, evs, hl) => ConnsQueued(ds, evs, hl)
<1>1. Referring(cs, ss, os) => Referring(ds, ss, os)
  BY DEF SameFlags, Referring
<1>2. ConnsQueued(cs, evs, hl) => ConnsQueued(ds, evs, hl)
  BY DEF SameFlags, ConnsQueued
<1> QED
  BY <1>1, <1>2

\* What a table may become when connections are recycled.
Recycled(cs, ds) ==
    /\ ds \in [Conns -> Conn]
    /\ \A c \in Conns : ds[c] = cs[c] \/ (Recyclable(cs[c]) /\ ds[c] = FreeConn)

LEMMA TryRecycleIs ==
    ASSUME NEW cs \in [Conns -> Conn], NEW c \in Conns, NEW ds \in TryRecycle(cs, c)
    PROVE  Recycled(cs, ds)
<1>1. FreeConn \in Conn
  BY DEF FreeConn, Conn
<1>2. CASE ds = cs
  BY <1>2 DEF Recycled
<1>3. CASE ds = [cs EXCEPT ![c] = FreeConn] /\ Recyclable(cs[c])
  BY <1>1, <1>3 DEF Recycled
<1> QED
  BY <1>2, <1>3 DEF TryRecycle

\* Only a connection that nothing refers to is recycled.
LEMMA RecycleKeeps ==
    ASSUME NEW cs \in [Conns -> Conn], NEW ds, Recycled(cs, ds),
           NEW ss, NEW os, NEW evs, NEW hl \in SUBSET Conns,
           Counted(cs, ss, os), Referring(cs, ss, os), ConnsQueued(cs, evs, hl)
    PROVE  Counted(ds, ss, os) /\ Referring(ds, ss, os) /\ ConnsQueued(ds, evs, hl)
<1>1. ASSUME NEW c \in Conns, ds[c] # cs[c]
      PROVE  /\ StreamRefs(ss, c) = {} /\ OpenRefs(os, c) = {}
             /\ cs[c].closed /\ ~cs[c].closeEvent /\ ds[c] = FreeConn
             /\ ds[c].streamCount = 0 /\ ds[c].openCount = 0
  <2>1. Recyclable(cs[c]) /\ ds[c] = FreeConn
    BY <1>1 DEF Recycled
  <2>2. Cardinality(StreamRefs(ss, c)) = 0 /\ Cardinality(OpenRefs(os, c)) = 0
    BY <2>1 DEF Recyclable, Counted
  <2> QED
    BY <2>1, <2>2, RefsFinite, FS_EmptySet DEF Recyclable, FreeConn
<1>2. Counted(ds, ss, os)
  <2>1. ASSUME NEW c \in Conns
        PROVE  /\ ds[c].streamCount = Cardinality(StreamRefs(ss, c))
               /\ ds[c].openCount = Cardinality(OpenRefs(os, c))
    <3>1. CASE ds[c] = cs[c]
      BY <3>1 DEF Counted
    <3>2. CASE ds[c] # cs[c]
      BY <1>1, <3>2, FS_EmptySet
    <3> QED
      BY <3>1, <3>2
  <2> QED
    BY <2>1 DEF Counted
<1>3. Referring(ds, ss, os)
  <2>1. \A s \in Streams : ss[s].state # "FREE" => ds[ss[s].conn] = cs[ss[s].conn]
    BY <1>1 DEF Referring, StreamRefs
  <2>2. \A o \in Opens : os[o].state # "FREE" => ds[os[o].conn] = cs[os[o].conn]
    BY <1>1 DEF Referring, OpenRefs
  <2> QED
    BY <2>1, <2>2 DEF Referring
<1>4. ConnsQueued(ds, evs, hl)
  <2>1. \A c \in hl : ds[c] = cs[c]
    BY <1>1 DEF ConnsQueued
  <2>2. \A i \in 1 .. Len(evs) : evs[i].type \in {"CONN_ESTABLISHED", "CONN_CLOSED"} =>
            ds[evs[i].conn] = cs[evs[i].conn]
    BY <1>1 DEF ConnsQueued
  <2> QED
    BY <2>1, <2>2 DEF ConnsQueued
<1> QED
  BY <1>2, <1>3, <1>4

\* Recycling leaves a usable connection alone.
LEMMA RecycleUsable ==
    ASSUME NEW cs, NEW ds, Recycled(cs, ds), NEW c \in Conns, cs[c].active, ~cs[c].closed
    PROVE  ds[c].active /\ ~ds[c].closed
BY DEF Recycled, Recyclable

-----------------------------------------------------------------------------
(***************************************************************************)
(* The event queue.                                                        *)
(***************************************************************************)

\* What a push to a queue with room leaves.
Pushed(ev) ==
    /\ events' \in Seq(Event) /\ Len(events') = Len(events) + 1 /\ Len(events') <= EventCapacity
    /\ Len(events) \in Nat
    /\ \A i \in 1 .. Len(events) : events'[i] = events[i]
    /\ events'[Len(events) + 1] = ev
    /\ 1 .. Len(events') = (1 .. Len(events)) \cup {Len(events) + 1}
    /\ ~lost' /\ lost' \in BOOLEAN

LEMMA PushIsAppend ==
    ASSUME TypeOK, NoEventLost, Room, NEW ev \in Event, Push(events, ev)
    PROVE  Pushed(ev)
<1>1. events \in Seq(Event) /\ Len(events) \in Nat
  BY LenProperties DEF TypeOK
<1>2. events' = Append(events, ev) /\ ~lost'
  <2>1. Len(events) < EventCapacity /\ ~(Len(events) >= EventCapacity)
    BY <1>1, Constants DEF Room
  <2> QED
    BY <2>1 DEF Push, NoEventLost
<1>3. /\ events' \in Seq(Event) /\ Len(events') = Len(events) + 1
      /\ \A i \in 1 .. Len(events) : events'[i] = events[i]
      /\ events'[Len(events) + 1] = ev
  BY <1>1, <1>2, AppendProperties
<1>4. Len(events') <= EventCapacity
  BY <1>1, <1>3, Constants DEF Room
<1>5. 1 .. Len(events') = (1 .. Len(events)) \cup {Len(events) + 1}
  BY <1>1, <1>3
<1>6. lost' \in BOOLEAN
  BY DEF Push, TypeOK
<1> QED
  BY <1>1, <1>2, <1>3, <1>4, <1>5, <1>6 DEF Pushed

\* The types of the fields of an event.
LEMMA EventTypes ==
    ASSUME TypeOK
    PROVE  /\ Len(events) \in Nat /\ events \in [1 .. Len(events) -> Event]
           /\ \A i \in 1 .. Len(events) :
                /\ events[i].conn \in Conns \cup {None} /\ events[i].stream \in Streams \cup {None}
                /\ events[i].open \in Opens \cup {None} /\ events[i].dial \in Dials \cup {None}
<1>1. Len(events) \in Nat /\ events \in [1 .. Len(events) -> Event]
  <2>1. events \in Seq(Event)
    BY DEF TypeOK
  <2> QED
    BY <2>1, LenProperties
<1> QED
  BY <1>1 DEF Event

\* A queue that grows keeps what it says of streams and opens.
LEMMA LinkedGrows ==
    ASSUME NEW ev, Pushed(ev), NEW ss, NEW os, Linked(ss, os, events)
    PROVE  Linked(ss, os, events')
<1>1. \A i \in 1 .. Len(events) : i \in 1 .. Len(events') /\ events'[i] = events[i]
  BY DEF Pushed
<1> QED
  BY <1>1 DEF Linked

\* The event of a dial, or of no dial, is pushed.
LEMMA DialsPushed ==
    ASSUME TypeOK, DialsQueued(dials, events), NEW ev \in Event, Pushed(ev),
           ev.dial # None => dials[ev.dial] = "PENDING"
    PROVE  DialsQueued(DialEvented(ev.dial), events')
<1>1. ev.dial \in Dials \cup {None} /\ \A i \in 1 .. Len(events) : events[i].dial \in Dials \cup {None}
  BY EventTypes DEF Event
<1>2. \A e \in Dials : DialEvented(ev.dial)[e] = IF e = ev.dial THEN "EVENTED" ELSE dials[e]
  BY DEF DialEvented
<1>3. \A i \in 1 .. Len(events) : events[i].dial = ev.dial => ev.dial = None
  BY DEF DialsQueued
<1>4. \A i \in 1 .. Len(events') : events'[i].dial # None => DialEvented(ev.dial)[events'[i].dial] = "EVENTED"
  BY <1>1, <1>2 DEF DialsQueued, Pushed
<1>5. \A d \in Dials : DialEvented(ev.dial)[d] = "EVENTED" => \E i \in 1 .. Len(events') : events'[i].dial = d
  BY <1>1, <1>2 DEF DialsQueued, Pushed
<1>6. \A i, j \in 1 .. Len(events') : events'[i].dial = events'[j].dial /\ events'[i].dial # None => i = j
  BY <1>3 DEF DialsQueued, Pushed
<1> QED
  BY <1>4, <1>5, <1>6 DEF DialsQueued

\* The event of no open is pushed.
LEMMA OpensPushed ==
    ASSUME OpensQueued(opens, events), NEW ev, Pushed(ev), ev.open = None,
           ev.type \notin {"STREAM_OPENED", "STREAM_OPEN_FAILED"}
    PROVE  OpensQueued(opens, events')
<1>1. \A i \in 1 .. Len(events') : events'[i].open # None \/ events'[i].type \in {"STREAM_OPENED", "STREAM_OPEN_FAILED"}
        => i \in 1 .. Len(events) /\ events'[i] = events[i]
  BY DEF Pushed
<1>2. \A i \in 1 .. Len(events) : i \in 1 .. Len(events') /\ events'[i] = events[i]
  BY DEF Pushed
<1> QED
  BY <1>1, <1>2 DEF OpensQueued

\* The event that is pushed is not about the life of a connection.
LEMMA ConnsPushed ==
    ASSUME ConnsQueued(conns, events, held), NEW ev, Pushed(ev),
           ev.type \notin {"CONN_ESTABLISHED", "CONN_CLOSED"},
           ev.conn # None => ev.type \in {"STREAM_OPENED", "STREAM_OPEN_FAILED"}
    PROVE  ConnsQueued(conns, events', held)
<1>1. \A i \in 1 .. Len(events') : events'[i].type \in {"CONN_ESTABLISHED", "CONN_CLOSED"}
        => i \in 1 .. Len(events) /\ events'[i] = events[i]
  BY DEF Pushed
<1>2. \A i \in 1 .. Len(events') : events'[i].conn # None => events'[i].type \in
        {"CONN_ESTABLISHED", "CONN_CLOSED", "STREAM_OPENED", "STREAM_OPEN_FAILED"}
  BY DEF Pushed, ConnsQueued
<1> QED
  BY <1>1, <1>2 DEF ConnsQueued

\* Slots of opens that are not answered, before and after, are free to change.
LEMMA OpensChange ==
    ASSUME TypeOK, NEW ps, OpensQueued(opens, events),
           \A o \in Opens : ps[o] = opens[o] \/ (opens[o].state # "EVENTED" /\ ps[o].state # "EVENTED")
    PROVE  OpensQueued(ps, events)
<1>1. \A i \in 1 .. Len(events) : events[i].open \in Opens \cup {None}
  BY EventTypes
<1> QED
  BY <1>1 DEF OpensQueued

\* Slots that are given back, and opens that are answered, refer to nothing new.
LEMMA FewerRefer ==
    ASSUME NEW cs, NEW ss, NEW tt, NEW os, NEW ps, Referring(cs, ss, os),
           \A s \in Streams : tt[s] = ss[s] \/ tt[s].state = "FREE",
           \A o \in Opens : \/ ps[o] = os[o] \/ ps[o].state = "FREE"
                            \/ ps[o].state = "EVENTED" /\ ps[o].conn = os[o].conn /\ os[o].state # "FREE"
    PROVE  Referring(cs, tt, ps)
BY DEF Referring

-----------------------------------------------------------------------------
(***************************************************************************)
(* The operators the actions share.                                        *)
(***************************************************************************)

\* An open is answered.
LEMMA AnswerKeeps ==
    ASSUME TypeOK, NoEventLost, Room, OpensQueued(opens, events), DialsQueued(dials, events),
           ConnsQueued(conns, events, held),
           NEW o \in Opens, opens[o].state \in {"WAIT_TRANSPORT", "NEGOTIATING"},
           NEW type \in {"STREAM_OPENED", "STREAM_OPEN_FAILED"}, NEW s \in Streams \cup {None},
           Answer(o, type, s)
    PROVE  /\ Pushed(Ev(type, opens[o].conn, s, o, None))
           /\ opens' \in [Opens -> Open]
           /\ opens'[o] = [state |-> "EVENTED", conn |-> opens[o].conn]
           /\ \A p \in Opens \ {o} : opens'[p] = opens[p]
           /\ OpensQueued(opens', events') /\ DialsQueued(dials, events')
           /\ ConnsQueued(conns, events', held)
           /\ Cardinality(Unanswered(opens')) = Cardinality(Unanswered(opens)) - 1
           /\ \A cs, ss : Counted(cs, ss, opens) => Counted(cs, ss, opens')
<1> DEFINE ev == Ev(type, opens[o].conn, s, o, None)
<1>1. ev \in Event /\ ev.open = o /\ ev.type = type /\ ev.conn = opens[o].conn /\ ev.dial = None
  BY DEF TypeOK, Open, Ev, Event
<1> HIDE DEF ev
<1>2. Pushed(ev)
  BY <1>1, PushIsAppend DEF Answer, ev
<1>3. /\ opens' \in [Opens -> Open]
      /\ opens'[o] = [state |-> "EVENTED", conn |-> opens[o].conn]
      /\ \A p \in Opens \ {o} : opens'[p] = opens[p]
  BY DEF Answer, TypeOK, Open
<1>4. OpensQueued(opens', events')
  <2>1. \A i \in 1 .. Len(events) : events[i].open \in Opens \cup {None} /\ events[i].open # o
    <3>1. \A i \in 1 .. Len(events) : events[i].open \in Opens \cup {None}
      BY EventTypes
    <3> QED
      BY <3>1, Constants DEF OpensQueued
  <2>2. \A i \in 1 .. Len(events') : events'[i].open # None =>
          /\ events'[i].type \in {"STREAM_OPENED", "STREAM_OPEN_FAILED"}
          /\ opens'[events'[i].open].state = "EVENTED"
          /\ events'[i].conn = opens'[events'[i].open].conn
    BY <1>1, <1>2, <1>3, <2>1 DEF OpensQueued, Pushed
  <2>3. \A i \in 1 .. Len(events') :
          events'[i].type \in {"STREAM_OPENED", "STREAM_OPEN_FAILED"} => events'[i].open # None
    BY <1>1, <1>2, Constants DEF OpensQueued, Pushed
  <2>4. \A p \in Opens : opens'[p].state = "EVENTED" =>
          \E i \in 1 .. Len(events') : events'[i].open = p
    BY <1>1, <1>2, <1>3 DEF OpensQueued, Pushed
  <2>5. \A i, j \in 1 .. Len(events') :
          events'[i].open = events'[j].open /\ events'[i].open # None => i = j
    BY <1>1, <1>2, <2>1 DEF OpensQueued, Pushed
  <2> QED
    BY <2>2, <2>3, <2>4, <2>5 DEF OpensQueued
<1>5. DialsQueued(dials, events')
  <2>1. DialEvented(None) = dials
    BY Constants DEF DialEvented, TypeOK
  <2> QED
    BY <1>1, <1>2, <2>1, DialsPushed
<1>6. ConnsQueued(conns, events', held)
  BY <1>1, <1>2, ConnsPushed
<1>7. Cardinality(Unanswered(opens')) = Cardinality(Unanswered(opens)) - 1
  <2>1. Unanswered(opens') = Unanswered(opens) \ {o} /\ o \in Unanswered(opens)
    BY <1>3 DEF Unanswered
  <2>2. IsFiniteSet(Unanswered(opens))
    BY RefsFinite
  <2> QED
    BY <2>1, <2>2, FS_RemoveElement
<1>8. ASSUME NEW cs, NEW ss, Counted(cs, ss, opens)
      PROVE  Counted(cs, ss, opens')
  <2>1. \A c \in Conns : OpenRefs(opens', c) = OpenRefs(opens, c)
    BY <1>3 DEF OpenRefs
  <2> QED
    BY <1>8, <2>1 DEF Counted
<1> QED
  BY <1>2, <1>3, <1>4, <1>5, <1>6, <1>7, <1>8 DEF ev

\* A stream slot is taken.
LEMMA AllocKeeps ==
    ASSUME TypeOK, NEW c \in Conns, NEW o \in Opens \cup {None}, NEW cs \in [Conns -> Conn],
           cs[c].active, ~cs[c].closed, NEW ps,
           Counted(cs, streams, ps), Referring(cs, streams, ps), StreamAlloc(c, o, cs)
    PROVE  /\ streams' \in [Streams -> Stream] /\ conns' \in [Conns -> Conn]
           /\ Counted(conns', streams', ps) /\ Referring(conns', streams', ps)
           /\ SameFlags(cs, conns')
           /\ \E s \in Streams :
                /\ streams[s].state = "FREE"
                /\ streams'[s] = [state |-> "NEGOTIATING", conn |-> c, outbound |-> o # None,
                                  open |-> o, pending |-> {}]
                /\ \A r \in Streams \ {s} : streams'[r] = streams[r]
<1>1. PICK s \in Streams :
        /\ FirstFreeStream(s)
        /\ streams' = [streams EXCEPT ![s] =
                         [state |-> "NEGOTIATING", conn |-> c, outbound |-> o # None, open |-> o,
                          pending |-> {}]]
        /\ conns' = [cs EXCEPT ![c].streamCount = @ + 1]
  BY DEF StreamAlloc
<1>2. [state |-> "NEGOTIATING", conn |-> c, outbound |-> o # None, open |-> o, pending |-> {}] \in Stream
  BY DEF Stream
<1>3. /\ streams[s].state = "FREE"
      /\ streams'[s] = [state |-> "NEGOTIATING", conn |-> c, outbound |-> o # None,
                        open |-> o, pending |-> {}]
      /\ \A r \in Streams \ {s} : streams'[r] = streams[r]
      /\ streams' \in [Streams -> Stream]
  BY <1>1, <1>2 DEF FirstFreeStream, TypeOK
<1>4. /\ conns' \in [Conns -> Conn]
      /\ SameFlags(cs, conns')
      /\ conns'[c].streamCount = cs[c].streamCount + 1 /\ conns'[c].openCount = cs[c].openCount
      /\ \A d \in Conns \ {c} : conns'[d] = cs[d]
  BY <1>1 DEF Conn, SameFlags
<1>5. /\ Cardinality(StreamRefs(streams', c)) = Cardinality(StreamRefs(streams, c)) + 1
      /\ \A d \in Conns \ {c} : StreamRefs(streams', d) = StreamRefs(streams, d)
  BY <1>3, StreamTaken
<1>6. Counted(conns', streams', ps)
  BY <1>4, <1>5 DEF Counted
<1>7. Referring(cs, streams', ps)
  BY <1>3 DEF Referring
<1>8. Referring(conns', streams', ps)
  BY <1>4, <1>7, FlagsKeep
<1> QED
  BY <1>3, <1>4, <1>6, <1>8

\* The stream that was allocated for an open, or for none, keeps the links.
LEMMA AllocLinks ==
    ASSUME NEW c, NEW o \in Opens \cup {None}, NEW ps, Linked(streams, opens, events),
           NEW s \in Streams, streams[s].state = "FREE",
           streams'[s] = [state |-> "NEGOTIATING", conn |-> c, outbound |-> o # None,
                          open |-> o, pending |-> {}],
           \A r \in Streams \ {s} : streams'[r] = streams[r],
           o # None => opens[o].state # "NEGOTIATING"
                       /\ ps[o].state = "NEGOTIATING" /\ ps[o].conn = c,
           \A p \in Opens \ {o} : ps[p] = opens[p],
           \A r \in Streams : streams[r].open \in Opens \cup {None}
    PROVE  Linked(streams', ps, events)
<1>1. \A r \in Streams : streams'[r].state = "NEGOTIATING" => (streams'[r].outbound <=> streams'[r].open # None)
  <2>1. streams'[s].outbound = (o # None) /\ streams'[s].open = o
    OBVIOUS
  <2>2. streams'[s].outbound <=> streams'[s].open # None
    BY <2>1, Zenon
  <2>3. \A r \in Streams \ {s} :
          streams'[r].state = "NEGOTIATING" => (streams'[r].outbound <=> streams'[r].open # None)
    BY DEF Linked
  <2> QED
    BY <2>2, <2>3
<1>2. \A r \in Streams : streams'[r].state = "NEGOTIATING" /\ streams'[r].open # None =>
        ps[streams'[r].open].state = "NEGOTIATING" /\ ps[streams'[r].open].conn = streams'[r].conn
  BY DEF Linked
<1>3. \A r \in Streams : streams'[r].state = "OPEN" /\ streams'[r].open # None =>
        \E i \in 1 .. Len(events) : events[i].open = streams'[r].open /\ events[i].stream = r
  BY DEF Linked
<1>4. \A p \in Opens : ps[p].state = "NEGOTIATING" =>
        \E r \in Streams : streams'[r].state = "NEGOTIATING" /\ streams'[r].open = p
  BY DEF Linked
<1>5. \A q, r \in Streams :
         /\ streams'[q].state = "NEGOTIATING" /\ streams'[r].state = "NEGOTIATING"
         /\ streams'[q].open = streams'[r].open /\ streams'[q].open # None
         => q = r
  BY DEF Linked
<1> QED
  BY <1>1, <1>2, <1>3, <1>4, <1>5 DEF Linked

\* A count goes down, and the connection may be recycled.
LEMMA ReleaseKeeps ==
    ASSUME TypeOK, NEW s \in Streams, streams[s].state # "FREE", StreamRelease(s), NEW ps, NEW evs,
           Counted(conns, streams, ps), Referring(conns, streams, ps), ConnsQueued(conns, evs, held)
    PROVE  /\ streams' \in [Streams -> Stream] /\ conns' \in [Conns -> Conn]
           /\ streams'[s] = FreeStream /\ \A r \in Streams \ {s} : streams'[r] = streams[r]
           /\ Counted(conns', streams', ps) /\ Referring(conns', streams', ps)
           /\ ConnsQueued(conns', evs, held)
           /\ \A d \in Conns : conns[d].active /\ ~conns[d].closed
                                 => conns'[d].active /\ ~conns'[d].closed
<1> DEFINE c == streams[s].conn
           cs == [conns EXCEPT ![c].streamCount = Decremented(@)]
<1>1. c \in Conns /\ conns \in [Conns -> Conn] /\ held \in SUBSET Conns
  BY DEF Referring, TypeOK
<1>2. /\ streams' \in [Streams -> Stream]
      /\ streams'[s] = FreeStream /\ \A r \in Streams \ {s} : streams'[r] = streams[r]
  BY DEF StreamRelease, TypeOK, Stream, FreeStream
<1>3. conns[c].streamCount \in Nat /\ Decremented(conns[c].streamCount) \in Nat
  BY <1>1 DEF Conn, Decremented
<1>4. /\ cs \in [Conns -> Conn]
      /\ SameFlags(conns, cs)
      /\ cs[c].streamCount = Decremented(conns[c].streamCount) /\ cs[c].openCount = conns[c].openCount
      /\ \A d \in Conns \ {c} : cs[d] = conns[d]
  BY <1>1, <1>3 DEF Conn, SameFlags
<1>5. Recycled(cs, conns')
  BY <1>1, <1>4, TryRecycleIs DEF StreamRelease
<1> HIDE DEF cs
<1>6. Counted(cs, streams', ps)
  <2>1. /\ Cardinality(StreamRefs(streams, c)) # 0
        /\ Cardinality(StreamRefs(streams', c)) = Cardinality(StreamRefs(streams, c)) - 1
        /\ \A d \in Conns \ {c} : StreamRefs(streams', d) = StreamRefs(streams, d)
    BY <1>1, <1>2, StreamGivenBack DEF FreeStream
  <2> QED
    BY <1>1, <1>4, <2>1 DEF Counted, Decremented
<1>7. Referring(cs, streams', ps) /\ ConnsQueued(cs, evs, held)
  <2>1. Referring(conns, streams', ps)
    BY <1>2, FewerRefer DEF FreeStream
  <2> QED
    BY <1>1, <1>4, <2>1, FlagsKeep
<1>8. Counted(conns', streams', ps) /\ Referring(conns', streams', ps) /\ ConnsQueued(conns', evs, held)
  BY <1>1, <1>4, <1>5, <1>6, <1>7, RecycleKeeps
<1>9. conns' \in [Conns -> Conn]
  BY <1>5 DEF Recycled
<1>10. \A d \in Conns : conns[d].active /\ ~conns[d].closed => conns'[d].active /\ ~conns'[d].closed
  BY <1>4, <1>5, RecycleUsable DEF SameFlags
<1> QED
  BY <1>2, <1>8, <1>9, <1>10

\* What a negotiation that fails leaves: its open, if it has one, is answered, and its
\* stream is given back.
FailedOf(s) ==
    /\ streams' \in [Streams -> Stream] /\ conns' \in [Conns -> Conn] /\ opens' \in [Opens -> Open]
    /\ events' \in Seq(Event) /\ Len(events') <= EventCapacity
    /\ NoEventLost' /\ lost' \in BOOLEAN
    /\ Counted(conns', streams', opens') /\ Referring(conns', streams', opens')
    /\ Linked(streams', opens', events')
    /\ OpensQueued(opens', events') /\ DialsQueued(dials, events')
    /\ ConnsQueued(conns', events', held)
    /\ Len(events') + Cardinality(Unanswered(opens')) = Len(events) + Cardinality(Unanswered(opens))
    /\ \A o \in Opens : opens'[o].state = "WAIT_TRANSPORT" => opens'[o] = opens[o]
    /\ \A d \in Conns : conns[d].active /\ ~conns[d].closed => conns'[d].active /\ ~conns'[d].closed

LEMMA FailNegotiationKeeps ==
    ASSUME TypeOK, NoEventLost, Counted(conns, streams, opens), Referring(conns, streams, opens),
           Linked(streams, opens, events), OpensQueued(opens, events), DialsQueued(dials, events),
           ConnsQueued(conns, events, held), Room,
           NEW s \in Streams, streams[s].state = "NEGOTIATING", FailNegotiation(s)
    PROVE  FailedOf(s)
<1>1. StreamRelease(s)
  BY DEF FailNegotiation
<1>2. CASE streams[s].outbound
  <2>1. PICK o \in Opens : o = streams[s].open
    BY <1>2 DEF Linked, TypeOK, Stream
  <2>2. opens[o].state = "NEGOTIATING" /\ Answer(o, "STREAM_OPEN_FAILED", None)
    BY <1>2, <2>1, Constants DEF FailNegotiation, Linked
  <2> DEFINE ev == Ev("STREAM_OPEN_FAILED", opens[o].conn, None, o, None)
  <2>3. /\ Pushed(ev)
        /\ opens' \in [Opens -> Open]
        /\ opens'[o] = [state |-> "EVENTED", conn |-> opens[o].conn]
        /\ \A p \in Opens \ {o} : opens'[p] = opens[p]
        /\ OpensQueued(opens', events') /\ DialsQueued(dials, events')
        /\ ConnsQueued(conns, events', held)
        /\ Cardinality(Unanswered(opens')) = Cardinality(Unanswered(opens)) - 1
        /\ Counted(conns, streams, opens')
    BY <2>2, AnswerKeeps
  <2> HIDE DEF ev
  <2>4. Referring(conns, streams, opens')
    BY <2>2, <2>3, FewerRefer
  <2>5. /\ streams' \in [Streams -> Stream] /\ conns' \in [Conns -> Conn]
        /\ streams'[s] = FreeStream /\ \A r \in Streams \ {s} : streams'[r] = streams[r]
        /\ Counted(conns', streams', opens') /\ Referring(conns', streams', opens')
        /\ ConnsQueued(conns', events', held)
        /\ \A d \in Conns : conns[d].active /\ ~conns[d].closed
                              => conns'[d].active /\ ~conns'[d].closed
    BY <1>1, <2>3, <2>4, ReleaseKeeps
  <2>6. Linked(streams', opens', events')
    <3>1. \A r \in Streams : streams'[r].state # "FREE" => r # s /\ streams'[r] = streams[r]
      BY <2>5 DEF FreeStream
    <3>2. \A r \in Streams : streams'[r].state = "NEGOTIATING" => streams'[r].open # o
      BY <2>1, <3>1, Constants DEF Linked
    <3>3. \A p \in Opens : opens'[p].state = "NEGOTIATING" => p # o /\ opens'[p] = opens[p]
      BY <2>3
    <3>4. \A p \in Opens : opens'[p].state = "NEGOTIATING" =>
            \E r \in Streams : streams'[r].state = "NEGOTIATING" /\ streams'[r].open = p
      BY <2>1, <2>5, <3>3 DEF Linked
    <3>5. \A r \in Streams : streams'[r].state = "NEGOTIATING" /\ streams'[r].open # None =>
            opens'[streams'[r].open] = opens[streams[r].open]
      BY <2>3, <3>1, <3>2 DEF TypeOK, Stream
    <3>6. Linked(streams', opens', events)
      BY <3>1, <3>4, <3>5 DEF Linked
    <3> QED
      BY <2>3, <3>6, LinkedGrows
  <2>7. /\ events' \in Seq(Event) /\ Len(events') <= EventCapacity /\ ~lost' /\ lost' \in BOOLEAN
        /\ Len(events') = Len(events) + 1 /\ Len(events) \in Nat
    BY <2>3 DEF Pushed
  <2>8. Cardinality(Unanswered(opens)) \in Nat
    BY RefsFinite
  <2>9. Len(events') + Cardinality(Unanswered(opens')) = Len(events) + Cardinality(Unanswered(opens))
    BY <2>3, <2>7, <2>8
  <2>10. \A p \in Opens : opens'[p].state = "WAIT_TRANSPORT" => opens'[p] = opens[p]
    BY <2>3
  <2> QED
    BY <2>3, <2>5, <2>6, <2>7, <2>9, <2>10 DEF FailedOf, NoEventLost
<1>3. CASE ~streams[s].outbound
  <2>1. UNCHANGED <<opens, events, lost>> /\ streams[s].open = None
    BY <1>3 DEF FailNegotiation, Linked
  <2>2. /\ streams' \in [Streams -> Stream] /\ conns' \in [Conns -> Conn]
        /\ streams'[s] = FreeStream /\ \A r \in Streams \ {s} : streams'[r] = streams[r]
        /\ Counted(conns', streams', opens) /\ Referring(conns', streams', opens)
        /\ ConnsQueued(conns', events, held)
        /\ \A d \in Conns : conns[d].active /\ ~conns[d].closed
                              => conns'[d].active /\ ~conns'[d].closed
    BY <1>1, ReleaseKeeps
  <2>3. Linked(streams', opens, events)
    <3>1. \A r \in Streams : streams'[r].state # "FREE" => r # s /\ streams'[r] = streams[r]
      BY <2>2 DEF FreeStream
    <3>2. \A p \in Opens : opens[p].state = "NEGOTIATING" =>
            \E r \in Streams : streams'[r].state = "NEGOTIATING" /\ streams'[r].open = p
      BY <2>1, <2>2, Constants DEF Linked
    <3> QED
      BY <3>1, <3>2 DEF Linked
  <2> QED
    BY <2>1, <2>2, <2>3 DEF FailedOf, NoEventLost, TypeOK
<1> QED
  BY <1>2, <1>3

\* An open that waits for the transport has no stream, so its answer keeps the links.
LEMMA AnsweredLinks ==
    ASSUME TypeOK, Linked(streams, opens, events), NEW ev, Pushed(ev),
           NEW o \in Opens, opens[o].state = "WAIT_TRANSPORT", opens'[o].state = "EVENTED",
           \A p \in Opens \ {o} : opens'[p] = opens[p]
    PROVE  Linked(streams, opens', events')
<1>1. \A s \in Streams : streams[s].state = "NEGOTIATING" /\ streams[s].open # None =>
        opens'[streams[s].open] = opens[streams[s].open]
  BY DEF Linked, TypeOK, Stream
<1>2. \A p \in Opens : opens'[p].state = "NEGOTIATING" => opens'[p] = opens[p]
  OBVIOUS
<1>3. Linked(streams, opens', events)
  BY <1>1, <1>2 DEF Linked
<1> QED
  BY <1>3, LinkedGrows

-----------------------------------------------------------------------------
(***************************************************************************)
(* The invariant holds initially and every step keeps it.                  *)
(***************************************************************************)

LEMMA InitInvariant == Init => IInv
<1> SUFFICES ASSUME Init PROVE IInv
  OBVIOUS
<1>1. TypeOK
  <2>1. FreeConn \in Conn /\ FreeStream \in Stream /\ FreeOpen \in Open
    BY DEF FreeConn, Conn, FreeStream, Stream, FreeOpen, Open
  <2>2. events \in Seq(Event) /\ Len(events) = 0
    BY DEF Init
  <2> QED
    <3>1. /\ conns \in [Conns -> Conn] /\ streams \in [Streams -> Stream] /\ opens \in [Opens -> Open]
          /\ dials \in [Dials -> {"FREE", "PENDING", "EVENTED"}]
      BY <2>1 DEF Init
    <3>2. Len(events) <= EventCapacity
      BY <2>2, Constants
    <3> QED
      BY <2>2, <3>1, <3>2 DEF Init, TypeOK
<1>2. Counted(conns, streams, opens)
  <2>1. \A c \in Conns : StreamRefs(streams, c) = {} /\ OpenRefs(opens, c) = {}
    BY DEF Init, FreeStream, FreeOpen, StreamRefs, OpenRefs
  <2> QED
    BY <2>1, FS_EmptySet DEF Init, FreeConn, Counted
<1>3. Referring(conns, streams, opens) /\ Linked(streams, opens, events)
  BY DEF Init, FreeStream, FreeOpen, Referring, Linked
<1>4. OpensQueued(opens, events) /\ DialsQueued(dials, events) /\ ConnsQueued(conns, events, held)
  BY DEF Init, FreeOpen, OpensQueued, DialsQueued, ConnsQueued
<1> QED
  BY <1>1, <1>2, <1>3, <1>4 DEF Init, IInv, NoEventLost, LoopInv

\* A step that moves the thread and nothing that the tables and the queue hold.
LEMMA PhaseKeeps ==
    ASSUME IInv, TypeOK',
           UNCHANGED <<conns, streams, opens, dials, events, held, lost>>,
           pc' \notin {"failOpens", "closeStreams"}
    PROVE  IInv'
BY DEF IInv, NoEventLost, LoopInv

\* The calls of the application.
LEMMA AppCallInvariant ==
    ASSUME IInv, AppCall
    PROVE  IInv'
<1>0. /\ TypeOK /\ NoEventLost
      /\ Counted(conns, streams, opens) /\ Referring(conns, streams, opens)
      /\ Linked(streams, opens, events)
      /\ OpensQueued(opens, events) /\ DialsQueued(dials, events)
      /\ ConnsQueued(conns, events, held)
  BY DEF IInv
<1>h. held \in SUBSET Conns /\ conns \in [Conns -> Conn] /\ FreeOpen \in Open
  BY <1>0 DEF TypeOK, FreeOpen, Open
<1>1. ASSUME NEW d \in Dials, Dial(d)
      PROVE  IInv'
  <2>1. TypeOK'
    BY <1>0, <1>1 DEF Dial, TypeOK
  <2>2. DialsQueued(dials', events')
    <3>1. \A e \in Dials : dials'[e] = dials[e] \/ (dials[e] # "EVENTED" /\ dials'[e] # "EVENTED")
      BY <1>0, <1>1 DEF Dial, TypeOK, FirstFreeDial
    <3> QED
      BY <1>0, <1>1, <3>1, EventTypes DEF Dial, DialsQueued
  <2> QED
    BY <1>0, <1>1, <2>1, <2>2 DEF Dial, IInv, NoEventLost, LoopInv
<1>2. ASSUME NEW c \in Conns, NEW o \in Opens, OpenStreamWait(c, o)
      PROVE  IInv'
  <2>1. /\ opens' \in [Opens -> Open] /\ opens[o].state = "FREE"
        /\ opens'[o] = [state |-> "WAIT_TRANSPORT", conn |-> c]
        /\ \A p \in Opens \ {o} : opens'[p] = opens[p]
    BY <1>0, <1>2 DEF OpenStreamWait, FirstFreeOpen, TypeOK, Open
  <2>2. /\ conns' \in [Conns -> Conn] /\ SameFlags(conns, conns')
        /\ conns'[c].openCount = conns[c].openCount + 1
        /\ conns'[c].streamCount = conns[c].streamCount
        /\ \A d \in Conns \ {c} : conns'[d] = conns[d]
    <3>1. conns[c].openCount + 1 \in Nat
      BY <1>h DEF Conn
    <3>2. conns' = [conns EXCEPT ![c].openCount = @ + 1]
      BY <1>2 DEF OpenStreamWait
    <3> QED
      BY <1>h, <3>1, <3>2 DEF Conn, SameFlags
  <2>3. TypeOK'
    BY <1>0, <1>2, <2>1, <2>2 DEF OpenStreamWait, TypeOK
  <2>4. Counted(conns', streams, opens')
    <3>1. /\ Cardinality(OpenRefs(opens', c)) = Cardinality(OpenRefs(opens, c)) + 1
          /\ \A d \in Conns \ {c} : OpenRefs(opens', d) = OpenRefs(opens, d)
      <4>1. opens'[o].state # "FREE" /\ opens'[o].conn = c
        BY <2>1
      <4> QED
        BY <1>2, <2>1, <4>1, OpenTaken
    <3> QED
      BY <1>0, <2>2, <3>1, RefsFinite DEF Counted
  <2>5. Referring(conns', streams, opens')
    <3>1. Referring(conns, streams, opens')
      BY <1>0, <1>2, <2>1 DEF OpenStreamWait, Usable, Referring
    <3> QED
      BY <1>h, <2>2, <3>1, FlagsKeep
  <2>6. Linked(streams, opens', events)
    BY <1>0, <2>1 DEF Linked, TypeOK, Stream
  <2>7. OpensQueued(opens', events)
    BY <1>0, <2>1, OpensChange
  <2>8. ConnsQueued(conns', events, held)
    BY <1>0, <1>h, <2>2, FlagsKeep
  <2> QED
    BY <1>0, <1>2, <2>3, <2>4, <2>5, <2>6, <2>7, <2>8 DEF OpenStreamWait, IInv, NoEventLost, LoopInv
<1>3. ASSUME NEW c \in Conns, NEW o \in Opens, OpenStream(c, o)
      PROVE  IInv'
  <2> DEFINE cs == [conns EXCEPT ![c].openCount = @ + 1]
  <2>1. /\ opens' \in [Opens -> Open] /\ opens[o].state = "FREE"
        /\ opens'[o] = [state |-> "NEGOTIATING", conn |-> c]
        /\ \A p \in Opens \ {o} : opens'[p] = opens[p]
    BY <1>0, <1>3 DEF OpenStream, FirstFreeOpen, TypeOK, Open
  <2>2. /\ cs \in [Conns -> Conn] /\ SameFlags(conns, cs)
        /\ cs[c].openCount = conns[c].openCount + 1 /\ cs[c].streamCount = conns[c].streamCount
        /\ \A d \in Conns \ {c} : cs[d] = conns[d]
        /\ cs[c].active /\ ~cs[c].closed
    <3>1. conns[c].openCount + 1 \in Nat /\ conns[c].active /\ ~conns[c].closed
      BY <1>h, <1>3 DEF OpenStream, Usable, Conn
    <3> QED
      BY <1>h, <3>1 DEF Conn, SameFlags
  <2>3. StreamAlloc(c, o, cs)
    BY <1>3 DEF OpenStream
  <2> HIDE DEF cs
  <2>4. Counted(cs, streams, opens') /\ Referring(cs, streams, opens')
    <3>1. /\ Cardinality(OpenRefs(opens', c)) = Cardinality(OpenRefs(opens, c)) + 1
          /\ \A d \in Conns \ {c} : OpenRefs(opens', d) = OpenRefs(opens, d)
      <4>1. opens'[o].state # "FREE" /\ opens'[o].conn = c
        BY <2>1
      <4> QED
        BY <1>3, <2>1, <4>1, OpenTaken
    <3>2. Counted(cs, streams, opens')
      BY <1>0, <2>2, <3>1, RefsFinite DEF Counted
    <3>3. Referring(conns, streams, opens')
      BY <1>0, <1>3, <2>1 DEF OpenStream, Usable, Referring
    <3> QED
      BY <1>h, <2>2, <3>2, <3>3, FlagsKeep
  <2>5. /\ streams' \in [Streams -> Stream] /\ conns' \in [Conns -> Conn]
        /\ Counted(conns', streams', opens') /\ Referring(conns', streams', opens')
        /\ SameFlags(cs, conns')
    BY <1>0, <2>2, <2>3, <2>4, AllocKeeps
  <2>6. PICK s \in Streams :
          /\ streams[s].state = "FREE"
          /\ streams'[s] = [state |-> "NEGOTIATING", conn |-> c, outbound |-> o # None,
                            open |-> o, pending |-> {}]
          /\ \A r \in Streams \ {s} : streams'[r] = streams[r]
    BY <1>0, <2>2, <2>3, <2>4, AllocKeeps
  <2>7. Linked(streams', opens', events)
    <3>1. \A r \in Streams : streams[r].open \in Opens \cup {None}
      BY <1>0 DEF TypeOK, Stream
    <3> QED
      BY <1>0, <2>1, <2>6, <3>1, AllocLinks
  <2>8. OpensQueued(opens', events)
    BY <1>0, <2>1, OpensChange
  <2>9. ConnsQueued(conns', events, held)
    <3>1. ConnsQueued(cs, events, held)
      BY <1>0, <1>h, <2>2, FlagsKeep
    <3> QED
      BY <1>h, <2>5, <3>1, FlagsKeep
  <2>10. TypeOK'
    BY <1>0, <1>3, <2>1, <2>5 DEF OpenStream, TypeOK
  <2> QED
    BY <1>0, <1>3, <2>5, <2>7, <2>8, <2>9, <2>10 DEF OpenStream, IInv, NoEventLost, LoopInv
<1>4. ASSUME NEW o \in Opens, CancelWaiting(o)
      PROVE  IInv'
  <2> DEFINE c == opens[o].conn
             cs == [conns EXCEPT ![c].openCount = Decremented(@)]
  <2>1. /\ opens' \in [Opens -> Open] /\ opens[o].state = "WAIT_TRANSPORT" /\ c \in Conns
        /\ opens'[o] = FreeOpen
        /\ \A p \in Opens \ {o} : opens'[p] = opens[p]
    BY <1>0, <1>h, <1>4 DEF CancelWaiting, TypeOK, Referring
  <2>2. /\ cs \in [Conns -> Conn] /\ SameFlags(conns, cs)
        /\ cs[c].openCount = Decremented(conns[c].openCount)
        /\ cs[c].streamCount = conns[c].streamCount
        /\ \A d \in Conns \ {c} : cs[d] = conns[d]
    <3>1. Decremented(conns[c].openCount) \in Nat
      BY <1>h, <2>1 DEF Conn, Decremented
    <3> QED
      BY <1>h, <2>1, <3>1 DEF Conn, SameFlags
  <2>3. Recycled(cs, conns')
    BY <1>4, <2>1, <2>2, TryRecycleIs DEF CancelWaiting
  <2> HIDE DEF cs
  <2>4. Counted(cs, streams, opens')
    <3>1. /\ Cardinality(OpenRefs(opens, c)) # 0
          /\ Cardinality(OpenRefs(opens', c)) = Cardinality(OpenRefs(opens, c)) - 1
          /\ \A d \in Conns \ {c} : OpenRefs(opens', d) = OpenRefs(opens, d)
      BY <2>1, OpenGivenBack DEF FreeOpen
    <3> QED
      BY <1>0, <2>1, <2>2, <3>1 DEF Counted, Decremented
  <2>5. Referring(cs, streams, opens') /\ ConnsQueued(cs, events, held)
    <3>1. Referring(conns, streams, opens')
      BY <1>0, <2>1, FewerRefer DEF FreeOpen
    <3> QED
      BY <1>0, <1>h, <2>2, <3>1, FlagsKeep
  <2>6. /\ Counted(conns', streams, opens') /\ Referring(conns', streams, opens')
        /\ ConnsQueued(conns', events, held)
    BY <1>h, <2>2, <2>3, <2>4, <2>5, RecycleKeeps
  <2>7. Linked(streams, opens', events)
    BY <1>0, <2>1 DEF Linked, TypeOK, Stream, FreeOpen
  <2>8. OpensQueued(opens', events)
    BY <1>0, <2>1, OpensChange DEF FreeOpen
  <2>9. TypeOK'
    BY <1>0, <1>4, <2>1, <2>3 DEF CancelWaiting, TypeOK, Recycled
  <2> QED
    BY <1>0, <1>4, <2>6, <2>7, <2>8, <2>9 DEF CancelWaiting, IInv, NoEventLost, LoopInv
<1>5. ASSUME NEW o \in Opens, NEW s \in Streams, CancelNegotiating(o, s)
      PROVE  IInv'
  <2> DEFINE c == opens[o].conn
             cs == [conns EXCEPT ![c].openCount = Decremented(@), ![c].streamCount = Decremented(@)]
  <2>1. /\ opens' \in [Opens -> Open] /\ opens[o].state = "NEGOTIATING" /\ c \in Conns
        /\ opens'[o] = FreeOpen
        /\ \A p \in Opens \ {o} : opens'[p] = opens[p]
    BY <1>0, <1>h, <1>5 DEF CancelNegotiating, TypeOK, Referring
  <2>2. /\ streams' \in [Streams -> Stream] /\ streams'[s] = FreeStream
        /\ \A r \in Streams \ {s} : streams'[r] = streams[r]
    BY <1>0, <1>5 DEF CancelNegotiating, TypeOK, Stream, FreeStream
  <2>3. streams[s].state = "NEGOTIATING" /\ streams[s].open = o /\ streams[s].conn = c
    <3>1. streams[s].state \in {"NEGOTIATING", "OPEN"} /\ streams[s].open = o
      BY <1>0, <1>5 DEF CancelNegotiating, TypeOK, Stream
    <3>2. streams[s].state # "OPEN"
      BY <1>0, <2>1, <3>1, Constants DEF Linked, OpensQueued
    <3> QED
      BY <1>0, <3>1, <3>2, Constants DEF Linked
  <2>4. /\ cs \in [Conns -> Conn] /\ SameFlags(conns, cs)
        /\ cs[c].openCount = Decremented(conns[c].openCount)
        /\ cs[c].streamCount = Decremented(conns[c].streamCount)
        /\ \A d \in Conns \ {c} : cs[d] = conns[d]
    <3>1. Decremented(conns[c].openCount) \in Nat /\ Decremented(conns[c].streamCount) \in Nat
      BY <1>h, <2>1 DEF Conn, Decremented
    <3> QED
      BY <1>h, <2>1, <3>1 DEF Conn, SameFlags
  <2>5. Recycled(cs, conns')
    BY <1>5, <2>1, <2>4, TryRecycleIs DEF CancelNegotiating
  <2> HIDE DEF cs
  <2>6. Counted(cs, streams', opens')
    <3>1. /\ Cardinality(OpenRefs(opens, c)) # 0
          /\ Cardinality(OpenRefs(opens', c)) = Cardinality(OpenRefs(opens, c)) - 1
          /\ \A d \in Conns \ {c} : OpenRefs(opens', d) = OpenRefs(opens, d)
      BY <2>1, OpenGivenBack DEF FreeOpen
    <3>2. /\ Cardinality(StreamRefs(streams, c)) # 0
          /\ Cardinality(StreamRefs(streams', c)) = Cardinality(StreamRefs(streams, c)) - 1
          /\ \A d \in Conns \ {c} : StreamRefs(streams', d) = StreamRefs(streams, d)
      BY <2>1, <2>2, <2>3, StreamGivenBack DEF FreeStream
    <3> QED
      BY <1>0, <2>1, <2>4, <3>1, <3>2 DEF Counted, Decremented
  <2>7. Referring(cs, streams', opens') /\ ConnsQueued(cs, events, held)
    <3>1. Referring(conns, streams', opens')
      BY <1>0, <2>1, <2>2, FewerRefer DEF FreeOpen, FreeStream
    <3> QED
      BY <1>0, <1>h, <2>4, <3>1, FlagsKeep
  <2>8. /\ Counted(conns', streams', opens') /\ Referring(conns', streams', opens')
        /\ ConnsQueued(conns', events, held)
    BY <1>h, <2>4, <2>5, <2>6, <2>7, RecycleKeeps
  <2>9. Linked(streams', opens', events)
    <3>1. \A r \in Streams : streams'[r].state # "FREE" => r # s /\ streams'[r] = streams[r]
      BY <2>2 DEF FreeStream
    <3>2. \A r \in Streams : streams'[r].state = "NEGOTIATING" => streams'[r].open # o
      BY <1>0, <2>3, <3>1, Constants DEF Linked
    <3>3. \A p \in Opens : opens'[p].state = "NEGOTIATING" => p # o /\ opens'[p] = opens[p]
      BY <2>1 DEF FreeOpen
    <3>4. \A p \in Opens : opens'[p].state = "NEGOTIATING" =>
            \E r \in Streams : streams'[r].state = "NEGOTIATING" /\ streams'[r].open = p
      BY <1>0, <2>2, <2>3, <3>3 DEF Linked
    <3>5. \A r \in Streams : streams'[r].state = "NEGOTIATING" /\ streams'[r].open # None =>
            opens'[streams'[r].open] = opens[streams[r].open]
      BY <1>0, <2>1, <3>1, <3>2 DEF TypeOK, Stream
    <3> QED
      BY <1>0, <3>1, <3>4, <3>5 DEF Linked
  <2>10. OpensQueued(opens', events)
    BY <1>0, <2>1, OpensChange DEF FreeOpen
  <2>11. TypeOK'
    BY <1>0, <1>5, <2>1, <2>2, <2>5 DEF CancelNegotiating, TypeOK, Recycled
  <2> QED
    BY <1>0, <1>5, <2>8, <2>9, <2>10, <2>11 DEF CancelNegotiating, IInv, NoEventLost, LoopInv
<1>6. ASSUME conns' \in [Conns -> Conn], SameFlags(conns, conns'),
             \A c \in Conns : /\ conns'[c].streamCount = conns[c].streamCount
                              /\ conns'[c].openCount = conns[c].openCount,
             hostState' \in {"STARTED", "CLOSING", "CLOSED"}, pc = "app",
             UNCHANGED <<streams, opens, dials, events, pc, cur, held, lost, late>>
      PROVE  IInv'
  <2>1. TypeOK'
    BY <1>0, <1>6 DEF TypeOK
  <2>2. Counted(conns', streams, opens)
    BY <1>0, <1>6 DEF Counted
  <2>3. Referring(conns', streams, opens) /\ ConnsQueued(conns', events, held)
    BY <1>0, <1>h, <1>6, FlagsKeep
  <2> QED
    BY <1>0, <1>6, <2>1, <2>2, <2>3 DEF IInv, NoEventLost, LoopInv
<1>7. ASSUME NEW c \in Conns, ConnClose(c)
      PROVE  IInv'
  <2>1. /\ conns' \in [Conns -> Conn] /\ SameFlags(conns, conns')
        /\ \A d \in Conns : /\ conns'[d].streamCount = conns[d].streamCount
                            /\ conns'[d].openCount = conns[d].openCount
    BY <1>h, <1>7 DEF ConnClose, Conn, SameFlags
  <2> QED
    BY <1>0, <1>6, <1>7, <2>1 DEF ConnClose, TypeOK
<1>8. ASSUME NEW stop \in 1 .. MaxConns + 1, HostClose(stop)
      PROVE  IInv'
  <2>1. \A d \in Conns : conns'[d] = conns[d] \/ conns'[d] = [conns[d] EXCEPT !.requested = TRUE]
    BY <1>8 DEF HostClose
  <2>2. /\ conns' \in [Conns -> Conn] /\ SameFlags(conns, conns')
        /\ \A d \in Conns : /\ conns'[d].streamCount = conns[d].streamCount
                            /\ conns'[d].openCount = conns[d].openCount
    <3>1. conns' = [d \in Conns |-> conns'[d]]
      BY <1>8 DEF HostClose
    <3>2. \A d \in Conns : conns'[d] \in Conn
      BY <1>h, <2>1 DEF Conn
    <3> QED
      BY <1>h, <2>1, <3>1, <3>2 DEF Conn, SameFlags
  <2> QED
    BY <1>6, <1>8, <2>2 DEF HostClose
<1> QED
  BY <1>1, <1>2, <1>3, <1>4, <1>5, <1>7, <1>8 DEF AppCall

\* What taking the first event leaves of the queue.
LEMMA TailIs ==
    ASSUME TypeOK, events # <<>>, events' = Tail(events)
    PROVE  /\ Head(events) = events[1] /\ 1 \in 1 .. Len(events)
           /\ events' \in Seq(Event) /\ Len(events') <= EventCapacity
           /\ \A i \in 1 .. Len(events') : /\ i + 1 \in 1 .. Len(events) /\ i + 1 # 1
                                           /\ events'[i] = events[i + 1]
           /\ \A i \in 1 .. Len(events) : i # 1 => /\ i - 1 \in 1 .. Len(events')
                                                   /\ events'[i - 1] = events[i]
<1>1. events \in Seq(Event) /\ Len(events) \in Nat /\ Len(events) <= EventCapacity
      /\ Len(events) # 0
  BY EventTypes, EmptySeq DEF TypeOK
<1>2. /\ events' \in Seq(Event) /\ Len(events') = Len(events) - 1
      /\ \A i \in 1 .. Len(events') : events'[i] = events[i + 1]
  BY <1>1, HeadTailProperties
<1>3. Head(events) = events[1]
  BY <1>1
<1>4. \A i \in 1 .. Len(events) : i # 1 => i - 1 \in 1 .. Len(events') /\ (i - 1) + 1 = i
  BY <1>1, <1>2
<1>5. \A i \in 1 .. Len(events') : i + 1 \in 1 .. Len(events) /\ i + 1 # 1
  BY <1>1, <1>2
<1> QED
  BY <1>1, <1>2, <1>3, <1>4, <1>5, Constants

\* An event is delivered.
LEMMA NextEventInvariant ==
    ASSUME IInv, NextEvent
    PROVE  IInv'
<1> DEFINE ev == events[1]
           c == ev.conn
           cs == IF ev.open # None THEN [conns EXCEPT ![c].openCount = Decremented(@)]
                 ELSE IF ev.type = "CONN_CLOSED" THEN [conns EXCEPT ![c].closeEvent = FALSE]
                 ELSE conns
<1>0. /\ TypeOK /\ NoEventLost
      /\ Counted(conns, streams, opens) /\ Referring(conns, streams, opens)
      /\ Linked(streams, opens, events)
      /\ OpensQueued(opens, events) /\ DialsQueued(dials, events)
      /\ ConnsQueued(conns, events, held)
  BY DEF IInv
<1>h. held \in SUBSET Conns /\ conns \in [Conns -> Conn] /\ FreeOpen \in Open /\ FreeOpen.state = "FREE"
  BY <1>0 DEF TypeOK, FreeOpen, Open
<1>1. /\ ev = Head(events) /\ 1 \in 1 .. Len(events)
      /\ events' \in Seq(Event) /\ Len(events') <= EventCapacity
      /\ \A i \in 1 .. Len(events') : /\ i + 1 \in 1 .. Len(events) /\ i + 1 # 1
                                      /\ events'[i] = events[i + 1]
      /\ \A i \in 1 .. Len(events) : i # 1 => /\ i - 1 \in 1 .. Len(events')
                                              /\ events'[i - 1] = events[i]
  BY <1>0, TailIs DEF NextEvent
<1>2. /\ c \in Conns \cup {None} /\ ev.stream \in Streams \cup {None}
      /\ ev.open \in Opens \cup {None} /\ ev.dial \in Dials \cup {None}
  BY <1>0, <1>1, EventTypes
<1>3. /\ ev.open # None => /\ ev.type \in {"STREAM_OPENED", "STREAM_OPEN_FAILED"}
                           /\ opens[ev.open].state = "EVENTED" /\ c = opens[ev.open].conn /\ c \in Conns
      /\ ev.type \in {"STREAM_OPENED", "STREAM_OPEN_FAILED"} => ev.open # None
      /\ ev.type \in {"CONN_ESTABLISHED", "CONN_CLOSED"} => ev.open = None /\ c \in Conns
  <2>1. /\ ev.open # None => /\ ev.type \in {"STREAM_OPENED", "STREAM_OPEN_FAILED"}
                             /\ opens[ev.open].state = "EVENTED" /\ c = opens[ev.open].conn
        /\ ev.type \in {"STREAM_OPENED", "STREAM_OPEN_FAILED"} => ev.open # None
    BY <1>0, <1>1 DEF OpensQueued
  <2>2. ev.open # None => c \in Conns
    BY <1>0, <1>2, <2>1 DEF Referring
  <2>3. ev.type \in {"CONN_ESTABLISHED", "CONN_CLOSED"} => c \in Conns
    BY <1>0, <1>1 DEF ConnsQueued
  <2> QED
    BY <2>1, <2>2, <2>3
<1>4. /\ opens' \in [Opens -> Open]
      /\ \A o \in Opens : opens'[o] = IF o = ev.open THEN FreeOpen ELSE opens[o]
  BY <1>0, <1>1, <1>h DEF NextEvent, TypeOK
<1>5. /\ streams' \in [Streams -> Stream]
      /\ \A s \in Streams :
           streams'[s] = IF s = ev.stream /\ ev.open # None /\ streams[s].open = ev.open
                         THEN [streams[s] EXCEPT !.open = None] ELSE streams[s]
  <2>1. \A s \in Streams : [streams[s] EXCEPT !.open = None] \in Stream
    BY <1>0 DEF TypeOK, Stream
  <2>2. streams' = [s \in Streams |->
                      IF s = ev.stream /\ ev.open # None /\ streams[s].open = ev.open
                      THEN [streams[s] EXCEPT !.open = None] ELSE streams[s]]
    BY <1>1 DEF NextEvent
  <2>3. \A s \in Streams : streams[s] \in Stream
    BY <1>0 DEF TypeOK
  <2> QED
    BY <2>1, <2>2, <2>3
<1>6. /\ cs \in [Conns -> Conn] /\ (conns' = cs \/ (c \in Conns /\ conns' \in TryRecycle(cs, c)))
      /\ \A d \in Conns : /\ cs[d].active = conns[d].active /\ cs[d].closed = conns[d].closed
                          /\ cs[d].streamCount = conns[d].streamCount
                          /\ cs[d].openCount = IF ev.open # None /\ d = c
                                               THEN Decremented(conns[d].openCount)
                                               ELSE conns[d].openCount
                          /\ cs[d].closeEvent = IF ev.type = "CONN_CLOSED" /\ d = c THEN FALSE
                                                ELSE conns[d].closeEvent
  <2>1. conns' = cs \/ (c \in Conns /\ conns' \in TryRecycle(cs, c))
    BY <1>1, <1>3 DEF NextEvent
  <2>2. CASE ev.open # None
    <3>1. Decremented(conns[c].openCount) \in Nat
      BY <1>h, <1>3, <2>2 DEF Conn, Decremented
    <3> QED
      BY <1>h, <1>3, <2>1, <2>2, <3>1 DEF Conn
  <2>3. CASE ev.open = None /\ ev.type = "CONN_CLOSED"
    BY <1>h, <1>3, <2>1, <2>3 DEF Conn
  <2>4. CASE ev.open = None /\ ev.type # "CONN_CLOSED"
    BY <1>h, <2>1, <2>4
  <2> QED
    BY <2>2, <2>3, <2>4
<1>7. held' = (IF ev.type = "CONN_ESTABLISHED" THEN held \cup {c}
               ELSE IF ev.type = "CONN_CLOSED" THEN held \ {c} ELSE held)
      /\ held' \in SUBSET Conns
  BY <1>1, <1>3, <1>h DEF NextEvent
<1> HIDE DEF ev, c, cs
<1>8. conns' \in [Conns -> Conn] /\ Recycled(cs, conns')
  <2>1. CASE conns' = cs
    BY <1>6, <2>1 DEF Recycled
  <2>2. CASE c \in Conns /\ conns' \in TryRecycle(cs, c)
    BY <1>6, <2>2, TryRecycleIs DEF Recycled
  <2> QED
    BY <1>6, <2>1, <2>2
<1>9. Counted(cs, streams', opens')
  <2>1. \A d \in Conns : StreamRefs(streams', d) = StreamRefs(streams, d)
    <3>1. \A s \in Streams : streams'[s].state = streams[s].state /\ streams'[s].conn = streams[s].conn
      BY <1>0, <1>5 DEF TypeOK, Stream
    <3> QED
      BY <3>1 DEF StreamRefs
  <2>2. CASE ev.open = None
    <3>1. \A o \in Opens : opens'[o] = opens[o]
      BY <1>4, <2>2, Constants
    <3>2. \A d \in Conns : OpenRefs(opens', d) = OpenRefs(opens, d)
      BY <3>1 DEF OpenRefs
    <3> QED
      BY <1>0, <1>6, <2>1, <2>2, <3>2 DEF Counted
  <2>3. CASE ev.open # None
    <3>1. /\ Cardinality(OpenRefs(opens, c)) # 0
          /\ Cardinality(OpenRefs(opens', c)) = Cardinality(OpenRefs(opens, c)) - 1
          /\ \A d \in Conns \ {c} : OpenRefs(opens', d) = OpenRefs(opens, d)
      <4>1. PICK o \in Opens : o = ev.open
        BY <1>2, <2>3
      <4>2. /\ opens[o].state # "FREE" /\ opens[o].conn = c /\ c \in Conns /\ opens'[o].state = "FREE"
            /\ \A p \in Opens \ {o} : opens'[p] = opens[p]
        BY <1>3, <1>4, <1>h, <2>3, <4>1
      <4> QED
        BY <4>1, <4>2, OpenGivenBack
    <3>2. ASSUME NEW d \in Conns
          PROVE  /\ cs[d].streamCount = Cardinality(StreamRefs(streams', d))
                 /\ cs[d].openCount = Cardinality(OpenRefs(opens', d))
      <4>1. /\ conns[d].streamCount = Cardinality(StreamRefs(streams, d))
            /\ conns[d].openCount = Cardinality(OpenRefs(opens, d))
        BY <1>0 DEF Counted
      <4>2. cs[d].streamCount = Cardinality(StreamRefs(streams', d))
        BY <1>6, <2>1, <4>1
      <4>3. cs[d].openCount = IF d = c THEN Decremented(conns[d].openCount) ELSE conns[d].openCount
        BY <1>6, <2>3
      <4>4. CASE d = c
        <5>1. cs[c].openCount = Decremented(Cardinality(OpenRefs(opens, c)))
          BY <4>1, <4>3, <4>4
        <5>2. cs[c].openCount = Cardinality(OpenRefs(opens', c))
          BY <3>1, <5>1 DEF Decremented
        <5> QED
          BY <4>2, <4>4, <5>2
      <4>5. CASE d # c
        <5>1. OpenRefs(opens', d) = OpenRefs(opens, d)
          BY <3>1, <4>5
        <5>2. cs[d].openCount = conns[d].openCount
          BY <4>3, <4>5
        <5> QED
          BY <4>1, <4>2, <5>1, <5>2
      <4> QED
        BY <4>2, <4>4, <4>5
    <3> QED
      BY <3>2 DEF Counted
  <2> QED
    BY <2>2, <2>3
<1>10. Referring(cs, streams', opens')
  <2>1. Referring(conns, streams, opens')
    BY <1>0, <1>4, <1>h, FewerRefer
  <2>2. \A s \in Streams : /\ streams'[s].state = streams[s].state /\ streams'[s].conn = streams[s].conn
                           /\ streams'[s].pending = streams[s].pending
    BY <1>0, <1>5 DEF TypeOK, Stream
  <2>3. Referring(conns, streams', opens')
    BY <2>1, <2>2 DEF Referring
  <2>4. \A d \in Conns : (cs[d].active <=> conns[d].active) /\ (cs[d].closed <=> conns[d].closed)
    BY <1>6
  <2> QED
    BY <2>3, <2>4 DEF Referring
<1>11. ConnsQueued(cs, events', held')
  <2>1. \A i \in 1 .. Len(events') : events'[i].conn # None =>
          events'[i].type \in {"CONN_ESTABLISHED", "CONN_CLOSED", "STREAM_OPENED", "STREAM_OPEN_FAILED"}
    BY <1>0, <1>1 DEF ConnsQueued
  <2>2. ev.type = "CONN_CLOSED" => \A i \in 1 .. Len(events') :
          events'[i].type \in {"CONN_ESTABLISHED", "CONN_CLOSED"} => events'[i].conn # c
    BY <1>0, <1>1 DEF ConnsQueued, ev, c
  <2>3. \A i \in 1 .. Len(events') :
          /\ events'[i].type = "CONN_CLOSED" =>
               /\ events'[i].conn \in Conns
               /\ cs[events'[i].conn].active /\ cs[events'[i].conn].closed /\ cs[events'[i].conn].closeEvent
          /\ events'[i].type = "CONN_ESTABLISHED" =>
               /\ events'[i].conn \in Conns
               /\ cs[events'[i].conn].active
               /\ cs[events'[i].conn].closed => cs[events'[i].conn].closeEvent
    <3>1. ASSUME NEW i \in 1 .. Len(events'), events'[i].type \in {"CONN_ESTABLISHED", "CONN_CLOSED"}
          PROVE  /\ events'[i].conn \in Conns /\ conns[events'[i].conn].active
                 /\ conns[events'[i].conn].closed => conns[events'[i].conn].closeEvent
                 /\ events'[i].type = "CONN_CLOSED" => conns[events'[i].conn].closed
      <4>1. i + 1 \in 1 .. Len(events) /\ events'[i] = events[i + 1]
        BY <1>1
      <4> QED
        BY <1>0, <3>1, <4>1 DEF ConnsQueued
    <3>2. \A d \in Conns : /\ cs[d].active <=> conns[d].active
                           /\ cs[d].closed <=> conns[d].closed
                           /\ cs[d].closeEvent <=> conns[d].closeEvent /\ ~(ev.type = "CONN_CLOSED" /\ d = c)
      BY <1>6
    <3> QED
      BY <2>2, <3>1, <3>2
  <2>4. \A i, j \in 1 .. Len(events') :
          events'[i].type \in {"CONN_ESTABLISHED", "CONN_CLOSED"} /\ events'[j].type = "CONN_CLOSED"
          /\ events'[i].conn = events'[j].conn => i <= j
    <3>1. ASSUME NEW i \in 1 .. Len(events'), NEW j \in 1 .. Len(events'),
                 events'[i].type \in {"CONN_ESTABLISHED", "CONN_CLOSED"},
                 events'[j].type = "CONN_CLOSED", events'[i].conn = events'[j].conn
          PROVE  i <= j
      <4>1. /\ i + 1 \in 1 .. Len(events) /\ events'[i] = events[i + 1]
            /\ j + 1 \in 1 .. Len(events) /\ events'[j] = events[j + 1]
        BY <1>1
      <4>2. i + 1 <= j + 1
        BY <1>0, <3>1, <4>1 DEF ConnsQueued
      <4> QED
        BY <4>2
    <3> QED
      BY <3>1
  <2>5. \A d \in held' : cs[d].active /\ (cs[d].closed => cs[d].closeEvent)
    <3>1. \A d \in held' : /\ conns[d].active /\ (conns[d].closed => conns[d].closeEvent)
                           /\ ev.type = "CONN_CLOSED" => d # c
      BY <1>0, <1>1, <1>7 DEF ConnsQueued, ev, c
    <3> QED
      BY <1>6, <1>7, <3>1
  <2> QED
    BY <2>1, <2>3, <2>4, <2>5 DEF ConnsQueued
<1>12. /\ Counted(conns', streams', opens') /\ Referring(conns', streams', opens')
       /\ ConnsQueued(conns', events', held')
  BY <1>6, <1>7, <1>8, <1>9, <1>10, <1>11, RecycleKeeps
<1>13. Linked(streams', opens', events')
  <2>1. \A s \in Streams : streams[s].state = "NEGOTIATING" => streams'[s] = streams[s]
    BY <1>0, <1>3, <1>5 DEF Linked
  <2>2. \A s \in Streams : /\ streams'[s].state = streams[s].state
                           /\ streams'[s].open # None => streams'[s] = streams[s]
    BY <1>0, <1>5 DEF TypeOK, Stream
  <2>3. \A o \in Opens : opens[o].state = "NEGOTIATING" => opens'[o] = opens[o]
    BY <1>3, <1>4, Constants
  <2>4. \A o \in Opens : opens'[o].state = "NEGOTIATING" => opens'[o] = opens[o]
    BY <1>4, <1>h
  <2>5. \A s \in Streams : streams'[s].state = "OPEN" /\ streams'[s].open # None =>
          \E i \in 1 .. Len(events') : events'[i].open = streams'[s].open /\ events'[i].stream = s
    <3>1. ASSUME NEW s \in Streams, streams'[s].state = "OPEN", streams'[s].open # None
          PROVE  \E i \in 1 .. Len(events') : events'[i].open = streams'[s].open /\ events'[i].stream = s
      <4>1. streams'[s] = streams[s]
        BY <2>2, <3>1
      <4>2. PICK i \in 1 .. Len(events) : events[i].open = streams[s].open /\ events[i].stream = s
        BY <1>0, <3>1, <4>1 DEF Linked
      <4>3. i # 1
        <5>1. SUFFICES ASSUME i = 1 PROVE FALSE
          OBVIOUS
        <5>2. ev.open = streams[s].open /\ ev.stream = s
          BY <4>2, <5>1 DEF ev
        <5>3. streams'[s].open = None
          BY <1>0, <1>5, <3>1, <4>1, <5>2 DEF TypeOK, Stream
        <5> QED
          BY <3>1, <5>3
      <4>4. i - 1 \in 1 .. Len(events') /\ events'[i - 1] = events[i]
        BY <1>1, <4>2, <4>3
      <4> QED
        BY <4>1, <4>2, <4>4
    <3> QED
      BY <3>1
  <2>6. \A s \in Streams : streams'[s].state = "NEGOTIATING" /\ streams'[s].open # None =>
          opens'[streams'[s].open] = opens[streams[s].open]
    BY <1>0, <2>1, <2>2, <2>3 DEF Linked, TypeOK, Stream
  <2>7. \A s \in Streams : streams'[s].state = "NEGOTIATING" => streams'[s] = streams[s]
    BY <2>1, <2>2
  <2>8. \A o \in Opens : opens'[o].state = "NEGOTIATING" =>
          \E s \in Streams : streams'[s].state = "NEGOTIATING" /\ streams'[s].open = o
    BY <1>0, <2>1, <2>4 DEF Linked
  <2> QED
    BY <1>0, <2>5, <2>6, <2>7, <2>8 DEF Linked
<1>14. OpensQueued(opens', events')
  <2>1. \A i \in 1 .. Len(events) : i # 1 /\ events[i].open # None =>
          opens'[events[i].open] = opens[events[i].open] /\ events[i].open # ev.open
    BY <1>0, <1>1, <1>4, EventTypes DEF OpensQueued, ev
  <2>2. \A i \in 1 .. Len(events') : events'[i].open # None =>
         /\ events'[i].type \in {"STREAM_OPENED", "STREAM_OPEN_FAILED"}
         /\ opens'[events'[i].open].state = "EVENTED" /\ events'[i].conn = opens'[events'[i].open].conn
    BY <1>0, <1>1, <2>1 DEF OpensQueued
  <2>3. \A i \in 1 .. Len(events') :
         events'[i].type \in {"STREAM_OPENED", "STREAM_OPEN_FAILED"} => events'[i].open # None
    BY <1>0, <1>1 DEF OpensQueued
  <2>4. \A o \in Opens : opens'[o].state = "EVENTED" =>
          \E i \in 1 .. Len(events') : events'[i].open = o
    <3>1. ASSUME NEW o \in Opens, opens'[o].state = "EVENTED"
          PROVE  \E i \in 1 .. Len(events') : events'[i].open = o
      <4>1. o # ev.open /\ opens[o].state = "EVENTED"
        BY <1>4, <1>h, <3>1
      <4>2. PICK i \in 1 .. Len(events) : events[i].open = o
        BY <1>0, <4>1 DEF OpensQueued
      <4>3. i # 1
        BY <4>1, <4>2 DEF ev
      <4> QED
        BY <1>1, <4>2, <4>3
    <3> QED
      BY <3>1
  <2>5. \A i, j \in 1 .. Len(events') :
          events'[i].open = events'[j].open /\ events'[i].open # None => i = j
    <3>1. ASSUME NEW i \in 1 .. Len(events'), NEW j \in 1 .. Len(events'),
                 events'[i].open = events'[j].open, events'[i].open # None
          PROVE  i = j
      <4>1. /\ i + 1 \in 1 .. Len(events) /\ events'[i] = events[i + 1]
            /\ j + 1 \in 1 .. Len(events) /\ events'[j] = events[j + 1]
        BY <1>1
      <4>2. i + 1 = j + 1
        BY <1>0, <3>1, <4>1 DEF OpensQueued
      <4> QED
        BY <4>2
    <3> QED
      BY <3>1
  <2> QED
    BY <2>2, <2>3, <2>4, <2>5 DEF OpensQueued
<1>15. DialsQueued(dials', events') /\ dials' \in [Dials -> {"FREE", "PENDING", "EVENTED"}]
  <2>1. \A d \in Dials : dials'[d] = IF d = ev.dial THEN "FREE" ELSE dials[d]
    BY <1>1 DEF NextEvent
  <2>2. dials' \in [Dials -> {"FREE", "PENDING", "EVENTED"}]
    BY <1>0 DEF NextEvent, TypeOK
  <2>3. \A i \in 1 .. Len(events) : i # 1 /\ events[i].dial # None =>
          dials'[events[i].dial] = dials[events[i].dial]
    BY <1>0, <1>1, <2>1, EventTypes DEF DialsQueued, ev
  <2>4. \A d \in Dials : dials'[d] = "EVENTED" => \E i \in 1 .. Len(events') : events'[i].dial = d
    BY <1>0, <1>1, <2>1 DEF DialsQueued, ev
  <2>5. \A i, j \in 1 .. Len(events') :
          events'[i].dial = events'[j].dial /\ events'[i].dial # None => i = j
    <3>1. ASSUME NEW i \in 1 .. Len(events'), NEW j \in 1 .. Len(events'),
                 events'[i].dial = events'[j].dial, events'[i].dial # None
          PROVE  i = j
      <4>1. /\ i + 1 \in 1 .. Len(events) /\ events'[i] = events[i + 1]
            /\ j + 1 \in 1 .. Len(events) /\ events'[j] = events[j + 1]
        BY <1>1
      <4>2. i + 1 = j + 1
        BY <1>0, <3>1, <4>1 DEF DialsQueued
      <4> QED
        BY <4>2
    <3> QED
      BY <3>1
  <2>6. \A i \in 1 .. Len(events') : events'[i].dial # None => dials'[events'[i].dial] = "EVENTED"
    BY <1>0, <1>1, <2>3 DEF DialsQueued
  <2> QED
    BY <2>2, <2>4, <2>5, <2>6 DEF DialsQueued
<1>16. TypeOK'
  BY <1>0, <1>1, <1>4, <1>5, <1>7, <1>8, <1>15 DEF NextEvent, TypeOK
<1> QED
  BY <1>0, <1>12, <1>13, <1>14, <1>15, <1>16 DEF NextEvent, IInv, NoEventLost, LoopInv

\* The events of the transport.
LEMMA TransportInvariant ==
    ASSUME IInv, TransportEvent
    PROVE  IInv'
<1>0. /\ TypeOK /\ NoEventLost
      /\ Counted(conns, streams, opens) /\ Referring(conns, streams, opens)
      /\ Linked(streams, opens, events)
      /\ OpensQueued(opens, events) /\ DialsQueued(dials, events)
      /\ ConnsQueued(conns, events, held)
  BY DEF IInv
<1>h. held \in SUBSET Conns /\ conns \in [Conns -> Conn] /\ dials \in [Dials -> {"FREE", "PENDING", "EVENTED"}]
  BY <1>0 DEF TypeOK
<1>r. TransportRoom => Room /\ Len(events) + MaxOpens < EventCapacity
  BY <1>0, EventTypes, Constants DEF TransportRoom, Room
<1>d. ASSUME NEW d \in Dials \cup {None}
      PROVE  DialEvented(d) \in [Dials -> {"FREE", "PENDING", "EVENTED"}]
  BY <1>h DEF DialEvented
<1>1. ASSUME NEW c \in Conns, NEW d \in Dials \cup {None}, ConnEstablished(c, d)
      PROVE  IInv'
  <2> DEFINE ev == Ev("CONN_ESTABLISHED", c, None, None, d)
  <2>1. /\ ev \in Event /\ ev.type = "CONN_ESTABLISHED" /\ ev.conn = c /\ ev.open = None
        /\ ev.dial = d
    BY DEF Ev, Event
  <2> HIDE DEF ev
  <2>2. Pushed(ev)
    BY <1>0, <1>r, <1>1, <2>1, PushIsAppend DEF ConnEstablished, TransportStep, ev
  <2>3. /\ conns' \in [Conns -> Conn] /\ ~conns[c].active
        /\ conns'[c].active /\ ~conns'[c].closed
        /\ conns'[c].streamCount = 0 /\ conns'[c].openCount = 0
        /\ \A b \in Conns \ {c} : conns'[b] = conns[b]
    BY <1>h, <1>1 DEF ConnEstablished, FirstFreeConn, FreeConn, Conn
  <2>4. StreamRefs(streams, c) = {} /\ OpenRefs(opens, c) = {}
    BY <1>0, <2>3 DEF Referring, StreamRefs, OpenRefs
  <2>5. Counted(conns', streams, opens)
    <3>1. conns'[c].streamCount = Cardinality(StreamRefs(streams, c))
          /\ conns'[c].openCount = Cardinality(OpenRefs(opens, c))
      BY <2>3, <2>4, FS_EmptySet
    <3> QED
      BY <1>0, <2>3, <3>1 DEF Counted
  <2>6. Referring(conns', streams, opens)
    BY <1>0, <2>3 DEF Referring
  <2>7. Linked(streams, opens, events')
    BY <1>0, <2>2, LinkedGrows
  <2>8. OpensQueued(opens, events')
    BY <1>0, <2>1, <2>2, OpensPushed
  <2>9. DialsQueued(dials', events')
    BY <1>0, <1>1, <2>1, <2>2, DialsPushed DEF ConnEstablished
  <2>10. ConnsQueued(conns', events', held)
    <3>1. c \notin held
      BY <1>0, <2>3 DEF ConnsQueued
    <3>2. \A i \in 1 .. Len(events) :
            events[i].type \in {"CONN_ESTABLISHED", "CONN_CLOSED"} => events[i].conn \in Conns \ {c}
      BY <1>0, <2>3 DEF ConnsQueued
    <3>3. \A i \in 1 .. Len(events') :
            /\ events'[i].conn # None =>
                 events'[i].type \in {"CONN_ESTABLISHED", "CONN_CLOSED", "STREAM_OPENED", "STREAM_OPEN_FAILED"}
            /\ events'[i].type = "CONN_CLOSED" =>
                 /\ events'[i].conn \in Conns
                 /\ conns'[events'[i].conn].active /\ conns'[events'[i].conn].closed
                 /\ conns'[events'[i].conn].closeEvent
            /\ events'[i].type = "CONN_ESTABLISHED" =>
                 /\ events'[i].conn \in Conns
                 /\ conns'[events'[i].conn].active
                 /\ conns'[events'[i].conn].closed => conns'[events'[i].conn].closeEvent
      BY <1>0, <2>1, <2>2, <2>3, <3>2 DEF ConnsQueued, Pushed
    <3>4. \A i, j \in 1 .. Len(events') :
            events'[i].type \in {"CONN_ESTABLISHED", "CONN_CLOSED"} /\ events'[j].type = "CONN_CLOSED"
            /\ events'[i].conn = events'[j].conn => i <= j
      BY <1>0, <2>1, <2>2, <3>2 DEF ConnsQueued, Pushed
    <3>5. \A b \in held : conns'[b].active /\ (conns'[b].closed => conns'[b].closeEvent)
      BY <1>0, <1>h, <2>3, <3>1 DEF ConnsQueued
    <3> QED
      BY <3>3, <3>4, <3>5 DEF ConnsQueued
  <2>11. TypeOK'
    <3>1. late' \in BOOLEAN
      BY <1>1 DEF ConnEstablished
    <3>2. dials' \in [Dials -> {"FREE", "PENDING", "EVENTED"}]
      BY <1>d, <1>1 DEF ConnEstablished
    <3>3. lost' \in BOOLEAN /\ events' \in Seq(Event) /\ Len(events') <= EventCapacity
      BY <2>2 DEF Pushed
    <3> QED
      BY <1>0, <1>1, <2>3, <3>1, <3>2, <3>3 DEF ConnEstablished, TypeOK
  <2> QED
    BY <1>0, <1>1, <2>2, <2>5, <2>6, <2>7, <2>8, <2>9, <2>10, <2>11
       DEF ConnEstablished, Pushed, IInv, NoEventLost, LoopInv
<1>2. ASSUME NEW d \in Dials, DialFailed(d)
      PROVE  IInv'
  <2> DEFINE ev == Ev("DIAL_FAILED", None, None, None, d)
  <2>1. ev \in Event /\ ev.type = "DIAL_FAILED" /\ ev.conn = None /\ ev.open = None /\ ev.dial = d
    BY DEF Ev, Event
  <2> HIDE DEF ev
  <2>2. Pushed(ev)
    BY <1>0, <1>r, <1>2, <2>1, PushIsAppend DEF DialFailed, TransportStep, ev
  <2>3. Linked(streams, opens, events') /\ OpensQueued(opens, events')
    BY <1>0, <2>1, <2>2, LinkedGrows, OpensPushed
  <2>4. DialsQueued(dials', events')
    BY <1>0, <1>2, <2>1, <2>2, DialsPushed DEF DialFailed
  <2>5. ConnsQueued(conns, events', held)
    BY <1>0, <2>1, <2>2, ConnsPushed
  <2>6. TypeOK'
    <3>1. dials' \in [Dials -> {"FREE", "PENDING", "EVENTED"}]
      BY <1>d, <1>2 DEF DialFailed
    <3>2. lost' \in BOOLEAN /\ events' \in Seq(Event) /\ Len(events') <= EventCapacity
      BY <2>2 DEF Pushed
    <3> QED
      BY <1>0, <1>2, <3>1, <3>2 DEF DialFailed, TypeOK
  <2> QED
    BY <1>0, <1>2, <2>2, <2>3, <2>4, <2>5, <2>6 DEF DialFailed, Pushed, IInv, NoEventLost, LoopInv
<1>3. ASSUME NEW c \in Conns, ConnClosed(c)
      PROVE  IInv'
  <2>1. TypeOK'
    BY <1>0, <1>3 DEF ConnClosed, TypeOK
  <2>2. Len(events) + Cardinality(Unanswered(opens)) < EventCapacity
    <3>1. Len(events) + MaxOpens < EventCapacity
      BY <1>r, <1>3 DEF ConnClosed, TransportStep
    <3>2. Cardinality(Unanswered(opens)) \in Nat /\ Cardinality(Unanswered(opens)) <= MaxOpens
      BY RefsFinite
    <3> QED
      BY <1>0, <3>1, <3>2, EventTypes, Constants
  <2>3. LoopInv'
    BY <1>3, <2>2 DEF ConnClosed, LoopInv, Usable
  <2> QED
    BY <1>0, <1>3, <2>1, <2>3 DEF ConnClosed, IInv, NoEventLost
<1>4. ASSUME NEW c \in Conns, StreamIncoming(c)
      PROVE  IInv'
  <2>1. conns[c].active /\ ~conns[c].closed /\ StreamAlloc(c, None, conns)
    BY <1>4 DEF StreamIncoming, Usable
  <2>2. /\ streams' \in [Streams -> Stream] /\ conns' \in [Conns -> Conn]
        /\ Counted(conns', streams', opens) /\ Referring(conns', streams', opens)
        /\ SameFlags(conns, conns')
    BY <1>0, <1>h, <2>1, AllocKeeps
  <2>3. PICK s \in Streams :
          /\ streams[s].state = "FREE"
          /\ streams'[s] = [state |-> "NEGOTIATING", conn |-> c, outbound |-> None # None,
                            open |-> None, pending |-> {}]
          /\ \A r \in Streams \ {s} : streams'[r] = streams[r]
    BY <1>0, <1>h, <2>1, AllocKeeps
  <2>4. Linked(streams', opens, events)
    <3>1. \A r \in Streams : streams[r].open \in Opens \cup {None}
      BY <1>0 DEF TypeOK, Stream
    <3> QED
      BY <1>0, <2>3, <3>1, AllocLinks
  <2>5. ConnsQueued(conns', events, held)
    BY <1>0, <1>h, <2>2, FlagsKeep
  <2>6. TypeOK'
    BY <1>0, <1>4, <2>2 DEF StreamIncoming, TypeOK
  <2> QED
    BY <1>0, <1>4, <2>2, <2>4, <2>5, <2>6 DEF StreamIncoming, IInv, NoEventLost, LoopInv
<1>5. ASSUME NEW s \in Streams, NEW kind \in Kinds, StreamMark(s, kind)
      PROVE  IInv'
  <2>1. /\ streams' \in [Streams -> Stream]
        /\ \A r \in Streams : /\ streams'[r].state = streams[r].state /\ streams'[r].conn = streams[r].conn
                              /\ streams'[r].open = streams[r].open
                              /\ streams'[r].outbound = streams[r].outbound
                              /\ streams[r].pending \subseteq streams'[r].pending
    BY <1>0, <1>5 DEF StreamMark, TypeOK, Stream
  <2>2. Counted(conns, streams', opens)
    <3>1. \A r \in Streams : streams'[r].state = streams[r].state /\ streams'[r].conn = streams[r].conn
      BY <2>1, Zenon
    <3> QED
      BY <1>0, <3>1, SameCounts, Zenon
  <2>3. Referring(conns, streams', opens)
    BY <1>0, <2>1 DEF Referring
  <2>4. Linked(streams', opens, events)
    BY <1>0, <2>1 DEF Linked
  <2>5. TypeOK'
    BY <1>0, <1>5, <2>1 DEF StreamMark, TypeOK
  <2> QED
    BY <1>0, <1>5, <2>2, <2>3, <2>4, <2>5 DEF StreamMark, IInv, NoEventLost, LoopInv
<1>6. ASSUME NEW s \in Streams, StreamEnd(s)
      PROVE  IInv'
  <2>1. Room /\ streams[s].state = "NEGOTIATING" /\ FailNegotiation(s)
    BY <1>r, <1>6 DEF StreamEnd, TransportStep
  <2>2. FailedOf(s)
    BY <1>0, <2>1, FailNegotiationKeeps
  <2>3. TypeOK'
    BY <1>0, <1>6, <2>2 DEF StreamEnd, TypeOK, FailedOf
  <2> QED
    BY <1>0, <1>6, <2>2, <2>3 DEF StreamEnd, FailedOf, IInv, LoopInv
<1>7. ASSUME DriveError
      PROVE  IInv'
  <2>1. TypeOK'
    BY <1>0, <1>7 DEF DriveError, TypeOK
  <2> QED
    BY <1>7, <2>1, PhaseKeeps DEF DriveError
<1> QED
  BY <1>1, <1>2, <1>3, <1>4, <1>5, <1>6, <1>7 DEF TransportEvent

\* The handler of the end of a connection.
LEMMA ConnClosedInvariant ==
    ASSUME IInv, ConnClosedStep
    PROVE  IInv'
<1>0. /\ TypeOK /\ NoEventLost
      /\ Counted(conns, streams, opens) /\ Referring(conns, streams, opens)
      /\ Linked(streams, opens, events)
      /\ OpensQueued(opens, events) /\ DialsQueued(dials, events)
      /\ ConnsQueued(conns, events, held)
  BY DEF IInv
<1>h. held \in SUBSET Conns /\ conns \in [Conns -> Conn] /\ streams \in [Streams -> Stream]
  BY <1>0 DEF TypeOK
<1>r. pc \in {"failOpens", "closeStreams"} =>
        /\ Room /\ cur \in Conns /\ conns[cur].active /\ ~conns[cur].closed
        /\ Len(events) + Cardinality(Unanswered(opens)) < EventCapacity
  <2>1. Cardinality(Unanswered(opens)) \in Nat /\ Len(events) \in Nat
    BY <1>0, RefsFinite, EventTypes
  <2> QED
    BY <2>1, Constants DEF IInv, LoopInv, Usable, Room
<1>1. ASSUME NEW o \in Opens, FailWaitingOpen(o)
      PROVE  IInv'
  <2>1. /\ Room /\ opens[o].state = "WAIT_TRANSPORT" /\ Answer(o, "STREAM_OPEN_FAILED", None)
        /\ pc = "failOpens" /\ pc' = pc /\ cur' = cur
    BY <1>r, <1>1 DEF FailWaitingOpen
  <2> DEFINE ev == Ev("STREAM_OPEN_FAILED", opens[o].conn, None, o, None)
  <2>2. /\ Pushed(ev)
        /\ opens' \in [Opens -> Open]
        /\ opens'[o] = [state |-> "EVENTED", conn |-> opens[o].conn]
        /\ \A p \in Opens \ {o} : opens'[p] = opens[p]
        /\ OpensQueued(opens', events') /\ DialsQueued(dials, events')
        /\ ConnsQueued(conns, events', held)
        /\ Cardinality(Unanswered(opens')) = Cardinality(Unanswered(opens)) - 1
        /\ Counted(conns, streams, opens')
    BY <1>0, <2>1, AnswerKeeps
  <2> HIDE DEF ev
  <2>3. Referring(conns, streams, opens')
    BY <1>0, <2>1, <2>2, FewerRefer
  <2>4. Linked(streams, opens', events')
    BY <1>0, <2>1, <2>2, AnsweredLinks
  <2>5. LoopInv'
    <3>1. Len(events') + Cardinality(Unanswered(opens')) < EventCapacity
      <4>1. Cardinality(Unanswered(opens)) \in Nat
        BY RefsFinite
      <4> QED
        BY <1>r, <2>1, <2>2, <4>1, Constants DEF Pushed
    <3> QED
      BY <1>r, <1>1, <2>1, <3>1 DEF FailWaitingOpen, LoopInv, Usable
  <2>6. TypeOK'
    BY <1>0, <1>1, <2>1, <2>2 DEF FailWaitingOpen, TypeOK, Pushed
  <2> QED
    BY <1>0, <1>1, <2>2, <2>3, <2>4, <2>5, <2>6 DEF FailWaitingOpen, Pushed, IInv, NoEventLost
<1>2. ASSUME FailOpensDone
      PROVE  IInv'
  <2>1. TypeOK'
    BY <1>0, <1>2 DEF FailOpensDone, TypeOK
  <2>2. LoopInv'
    BY <1>r, <1>2 DEF FailOpensDone, LoopInv, Usable
  <2> QED
    BY <1>0, <1>2, <2>1, <2>2 DEF FailOpensDone, IInv, NoEventLost
<1>3. ASSUME NEW s \in Streams, CloseStreamFail(s)
      PROVE  IInv'
  <2>1. /\ Room /\ streams[s].state = "NEGOTIATING" /\ FailNegotiation(s)
        /\ pc = "closeStreams" /\ pc' = pc /\ cur' = cur
    BY <1>r, <1>3 DEF CloseStreamFail
  <2>2. FailedOf(s)
    BY <1>0, <2>1, FailNegotiationKeeps
  <2>3. LoopInv'
    <3>1. cur \in Conns /\ conns'[cur].active /\ ~conns'[cur].closed
      BY <1>r, <2>1, <2>2 DEF FailedOf
    <3>2. \A o \in Opens : ~(opens'[o].state = "WAIT_TRANSPORT" /\ opens'[o].conn = cur)
      BY <2>1, <2>2 DEF FailedOf, IInv, LoopInv
    <3>3. Len(events') + Cardinality(Unanswered(opens')) < EventCapacity
      BY <1>r, <2>1, <2>2 DEF FailedOf
    <3> QED
      BY <2>1, <3>1, <3>2, <3>3 DEF LoopInv, Usable
  <2>4. TypeOK'
    BY <1>0, <1>3, <2>1, <2>2 DEF CloseStreamFail, TypeOK, FailedOf
  <2> QED
    BY <1>0, <1>3, <2>2, <2>3, <2>4 DEF CloseStreamFail, FailedOf, IInv
<1>4. ASSUME ConnClosedDone
      PROVE  IInv'
  <2> DEFINE ev == Ev("CONN_CLOSED", cur, None, None, None)
  <2>1. /\ Room /\ pc = "closeStreams" /\ cur \in Conns /\ conns[cur].active /\ ~conns[cur].closed
        /\ \A o \in Opens : ~(opens[o].state = "WAIT_TRANSPORT" /\ opens[o].conn = cur)
        /\ \A s \in Streams : ~(streams[s].conn = cur /\ streams[s].state = "NEGOTIATING")
    BY <1>r, <1>4 DEF ConnClosedDone, IInv, LoopInv
  <2>2. /\ ev \in Event /\ ev.type = "CONN_CLOSED" /\ ev.conn = cur /\ ev.open = None /\ ev.dial = None
    BY <2>1 DEF Ev, Event
  <2> HIDE DEF ev
  <2>3. Pushed(ev)
    BY <1>0, <1>4, <2>1, <2>2, PushIsAppend DEF ConnClosedDone, ev
  <2>4. /\ conns' \in [Conns -> Conn]
        /\ conns'[cur].active /\ conns'[cur].closed /\ conns'[cur].closeEvent
        /\ conns'[cur].streamCount = conns[cur].streamCount
        /\ conns'[cur].openCount = conns[cur].openCount
        /\ \A c \in Conns \ {cur} : conns'[c] = conns[c]
    BY <1>h, <1>4, <2>1 DEF ConnClosedDone, Conn
  <2>5. /\ streams' \in [Streams -> Stream]
        /\ \A s \in Streams : /\ streams'[s].state = streams[s].state /\ streams'[s].conn = streams[s].conn
                              /\ streams'[s].open = streams[s].open
                              /\ streams'[s].outbound = streams[s].outbound
                              /\ streams[s].pending \subseteq streams'[s].pending
                              /\ streams[s].conn = cur => "CLOSED" \in streams'[s].pending
    <3>1. \A s \in Streams : [streams[s] EXCEPT !.pending = @ \cup {"CLOSED"}] \in Stream
      BY <1>h DEF Stream, Kinds
    <3>2. streams' = [s \in Streams |->
                        IF streams[s].conn = cur
                        THEN [streams[s] EXCEPT !.pending = @ \cup {"CLOSED"}] ELSE streams[s]]
      BY <1>4 DEF ConnClosedDone
    <3>3. streams' \in [Streams -> Stream]
      BY <1>h, <3>1, <3>2
    <3> QED
      BY <1>h, <3>2, <3>3 DEF Stream
  <2>6. Counted(conns', streams', opens)
    <3>1. \A c \in Conns : StreamRefs(streams', c) = StreamRefs(streams, c)
      BY <2>5, SameRefs
    <3> QED
      BY <1>0, <2>4, <3>1 DEF Counted
  <2>7. Referring(conns', streams', opens)
    <3>1. \A s \in Streams : streams[s].state # "FREE" => streams[s].state \in {"NEGOTIATING", "OPEN"}
      BY <1>h DEF Stream
    <3>2. \A s \in Streams : streams'[s].state # "FREE" =>
            /\ streams'[s].conn \in Conns /\ conns'[streams'[s].conn].active
            /\ conns'[streams'[s].conn].closed => streams'[s].state = "OPEN" /\ "CLOSED" \in streams'[s].pending
      BY <1>0, <2>1, <2>4, <2>5, <3>1 DEF Referring
    <3>3. \A o \in Opens : opens[o].state # "FREE" =>
            /\ opens[o].conn \in Conns /\ conns'[opens[o].conn].active
            /\ conns'[opens[o].conn].closed => opens[o].state # "WAIT_TRANSPORT"
      BY <1>0, <2>1, <2>4 DEF Referring
    <3> QED
      BY <3>2, <3>3 DEF Referring
  <2>8. Linked(streams', opens, events')
    <3>1. Linked(streams', opens, events)
      BY <1>0, <2>5 DEF Linked
    <3> QED
      BY <2>3, <3>1, LinkedGrows
  <2>9. OpensQueued(opens, events') /\ DialsQueued(dials, events')
    <3>1. DialEvented(None) = dials
      BY <1>0, Constants DEF DialEvented, TypeOK
    <3> QED
      BY <1>0, <2>2, <2>3, <3>1, OpensPushed, DialsPushed
  <2>10. ConnsQueued(conns', events', held)
    <3>1. \A i \in 1 .. Len(events) : events[i].type = "CONN_CLOSED" => events[i].conn # cur
      BY <1>0, <2>1 DEF ConnsQueued
    <3>2. \A i \in 1 .. Len(events') :
            /\ events'[i].conn # None =>
                 events'[i].type \in {"CONN_ESTABLISHED", "CONN_CLOSED", "STREAM_OPENED", "STREAM_OPEN_FAILED"}
            /\ events'[i].type = "CONN_CLOSED" =>
                 /\ events'[i].conn \in Conns
                 /\ conns'[events'[i].conn].active /\ conns'[events'[i].conn].closed
                 /\ conns'[events'[i].conn].closeEvent
            /\ events'[i].type = "CONN_ESTABLISHED" =>
                 /\ events'[i].conn \in Conns
                 /\ conns'[events'[i].conn].active
                 /\ conns'[events'[i].conn].closed => conns'[events'[i].conn].closeEvent
      BY <1>0, <2>1, <2>2, <2>3, <2>4 DEF ConnsQueued, Pushed
    <3>3. \A i, j \in 1 .. Len(events') :
            events'[i].type \in {"CONN_ESTABLISHED", "CONN_CLOSED"} /\ events'[j].type = "CONN_CLOSED"
            /\ events'[i].conn = events'[j].conn => i <= j
      BY <1>0, <2>2, <2>3, <3>1 DEF ConnsQueued, Pushed
    <3>4. \A c \in held : conns'[c].active /\ (conns'[c].closed => conns'[c].closeEvent)
      BY <1>0, <1>h, <2>4 DEF ConnsQueued
    <3> QED
      BY <3>2, <3>3, <3>4 DEF ConnsQueued
  <2>11. TypeOK'
    BY <1>0, <1>4, <2>3, <2>4, <2>5 DEF ConnClosedDone, TypeOK, Pushed
  <2> QED
    BY <1>0, <1>4, <2>3, <2>6, <2>7, <2>8, <2>9, <2>10, <2>11
       DEF ConnClosedDone, Pushed, IInv, NoEventLost, LoopInv
<1> QED
  BY <1>1, <1>2, <1>3, <1>4 DEF ConnClosedStep

\* The phases of libp2p_host_drive that follow the event of the transport.
LEMMA PhaseInvariant ==
    ASSUME IInv, OpenPhase \/ NegotiatePhase \/ ProtocolPhase \/ RecyclePhase \/ ClosePhase
    PROVE  IInv'
<1>0. /\ TypeOK /\ NoEventLost
      /\ Counted(conns, streams, opens) /\ Referring(conns, streams, opens)
      /\ Linked(streams, opens, events)
      /\ OpensQueued(opens, events) /\ DialsQueued(dials, events)
      /\ ConnsQueued(conns, events, held)
  BY DEF IInv
<1>h. /\ held \in SUBSET Conns /\ conns \in [Conns -> Conn] /\ streams \in [Streams -> Stream]
      /\ opens \in [Opens -> Open]
  BY <1>0 DEF TypeOK
<1>1. ASSUME NEW o \in Opens, RetryOpen(o)
      PROVE  IInv'
  <2> DEFINE c == opens[o].conn
  <2>1. /\ opens' \in [Opens -> Open] /\ opens[o].state = "WAIT_TRANSPORT" /\ c \in Conns
        /\ opens'[o] = [state |-> "NEGOTIATING", conn |-> c]
        /\ \A p \in Opens \ {o} : opens'[p] = opens[p]
        /\ conns[c].active /\ ~conns[c].closed
    BY <1>0, <1>h, <1>1 DEF RetryOpen, Open, Referring
  <2>2. Counted(conns, streams, opens') /\ Referring(conns, streams, opens')
    <3>1. \A d \in Conns : OpenRefs(opens', d) = OpenRefs(opens, d)
      BY <2>1 DEF OpenRefs
    <3>2. Referring(conns, streams, opens')
      BY <1>0, <2>1 DEF Referring
    <3> QED
      BY <1>0, <3>1, <3>2 DEF Counted
  <2>3. StreamAlloc(c, o, conns)
    BY <1>1 DEF RetryOpen
  <2> HIDE DEF c
  <2>4. /\ streams' \in [Streams -> Stream] /\ conns' \in [Conns -> Conn]
        /\ Counted(conns', streams', opens') /\ Referring(conns', streams', opens')
        /\ SameFlags(conns, conns')
    BY <1>0, <1>h, <2>1, <2>2, <2>3, AllocKeeps
  <2>5. PICK s \in Streams :
          /\ streams[s].state = "FREE"
          /\ streams'[s] = [state |-> "NEGOTIATING", conn |-> c, outbound |-> o # None,
                            open |-> o, pending |-> {}]
          /\ \A r \in Streams \ {s} : streams'[r] = streams[r]
    BY <1>0, <1>h, <2>1, <2>2, <2>3, AllocKeeps
  <2>6. Linked(streams', opens', events)
    <3>1. \A r \in Streams : streams[r].open \in Opens \cup {None}
      BY <1>h DEF Stream
    <3> QED
      BY <1>0, <2>1, <2>5, <3>1, AllocLinks
  <2>7. OpensQueued(opens', events)
    BY <1>0, <2>1, OpensChange
  <2>8. ConnsQueued(conns', events, held)
    BY <1>0, <1>h, <2>4, FlagsKeep
  <2>9. TypeOK'
    BY <1>0, <1>1, <2>1, <2>4 DEF RetryOpen, TypeOK
  <2> QED
    BY <1>0, <1>1, <2>4, <2>6, <2>7, <2>8, <2>9 DEF RetryOpen, IInv, NoEventLost, LoopInv
<1>2. ASSUME NEW o \in Opens, RetryFailed(o)
      PROVE  IInv'
  <2>1. Room /\ opens[o].state = "WAIT_TRANSPORT" /\ Answer(o, "STREAM_OPEN_FAILED", None)
    BY <1>2 DEF RetryFailed
  <2> DEFINE ev == Ev("STREAM_OPEN_FAILED", opens[o].conn, None, o, None)
  <2>2. /\ Pushed(ev)
        /\ opens' \in [Opens -> Open]
        /\ opens'[o] = [state |-> "EVENTED", conn |-> opens[o].conn]
        /\ \A p \in Opens \ {o} : opens'[p] = opens[p]
        /\ OpensQueued(opens', events') /\ DialsQueued(dials, events')
        /\ ConnsQueued(conns, events', held)
        /\ Counted(conns, streams, opens')
    BY <1>0, <2>1, AnswerKeeps
  <2> HIDE DEF ev
  <2>3. Referring(conns, streams, opens')
    BY <1>0, <2>1, <2>2, FewerRefer
  <2>4. Linked(streams, opens', events')
    BY <1>0, <2>1, <2>2, AnsweredLinks
  <2>5. TypeOK'
    BY <1>0, <1>2, <2>2 DEF RetryFailed, TypeOK, Pushed
  <2> QED
    BY <1>0, <1>2, <2>2, <2>3, <2>4, <2>5 DEF RetryFailed, Pushed, IInv, NoEventLost, LoopInv
<1>3. ASSUME NEW s \in Streams, Negotiated(s)
      PROVE  IInv'
  <2>1. /\ Room /\ streams[s].state = "NEGOTIATING" /\ streams' \in [Streams -> Stream]
        /\ streams'[s].state = "OPEN" /\ streams'[s].conn = streams[s].conn
        /\ streams'[s].open = streams[s].open
        /\ \A r \in Streams \ {s} : streams'[r] = streams[r]
    <3>1. /\ Room /\ streams[s].state = "NEGOTIATING"
          /\ streams' = [streams EXCEPT ![s].state = "OPEN",
                                        ![s].pending = @ \cup {"READABLE", "WRITABLE"}]
      BY <1>3 DEF Negotiated
    <3>2. streams[s].pending \cup {"READABLE", "WRITABLE"} \in SUBSET Kinds
      BY <1>h DEF Stream, Kinds
    <3>3. streams' \in [Streams -> Stream]
      BY <1>h, <3>1, <3>2 DEF Stream
    <3> QED
      BY <1>h, <3>1, <3>3 DEF Stream
  <2>2. \A ps : Counted(conns, streams, ps) => Counted(conns, streams', ps)
    <3>1. \A c \in Conns : StreamRefs(streams', c) = StreamRefs(streams, c)
      BY <2>1 DEF StreamRefs
    <3> QED
      BY <3>1 DEF Counted
  <2>3. \A ps : Referring(conns, streams, ps) => Referring(conns, streams', ps)
    BY <2>1 DEF Referring
  <2>4. CASE streams[s].outbound
    <3>1. PICK o \in Opens : o = streams[s].open
      BY <1>0, <1>h, <2>1, <2>4 DEF Linked, Stream
    <3>2. opens[o].state = "NEGOTIATING" /\ Answer(o, "STREAM_OPENED", s)
      BY <1>0, <1>3, <2>1, <2>4, <3>1, Constants DEF Negotiated, Linked
    <3> DEFINE ev == Ev("STREAM_OPENED", opens[o].conn, s, o, None)
    <3>3. /\ Pushed(ev)
          /\ opens' \in [Opens -> Open]
          /\ opens'[o] = [state |-> "EVENTED", conn |-> opens[o].conn]
          /\ \A p \in Opens \ {o} : opens'[p] = opens[p]
          /\ OpensQueued(opens', events') /\ DialsQueued(dials, events')
          /\ ConnsQueued(conns, events', held)
          /\ Counted(conns, streams, opens')
      BY <1>0, <2>1, <3>2, AnswerKeeps
    <3>4. ev.open = o /\ ev.stream = s
      BY DEF Ev
    <3> HIDE DEF ev
    <3>5. Referring(conns, streams, opens')
      BY <1>0, <3>2, <3>3, FewerRefer
    <3>6. Linked(streams', opens', events')
      <4>1. \A r \in Streams : streams'[r].state = "NEGOTIATING" =>
              r # s /\ streams'[r] = streams[r] /\ streams'[r].open # o
        BY <1>0, <2>1, <3>1, Constants DEF Linked
      <4>2. \A r \in Streams : streams'[r].state = "NEGOTIATING" /\ streams'[r].open # None =>
              opens'[streams'[r].open] = opens[streams[r].open]
        BY <1>h, <3>3, <4>1 DEF Stream
      <4>3. \A p \in Opens : opens'[p].state = "NEGOTIATING" =>
              \E r \in Streams : streams'[r].state = "NEGOTIATING" /\ streams'[r].open = p
        BY <1>0, <2>1, <3>1, <3>3 DEF Linked
      <4>4. \A r \in Streams : streams'[r].state = "OPEN" /\ streams'[r].open # None =>
              \E i \in 1 .. Len(events') : events'[i].open = streams'[r].open /\ events'[i].stream = r
        <5>1. \E i \in 1 .. Len(events') : events'[i].open = streams'[s].open /\ events'[i].stream = s
          BY <2>1, <3>1, <3>3, <3>4 DEF Pushed
        <5>2. \A r \in Streams \ {s} : streams'[r].state = "OPEN" /\ streams'[r].open # None =>
                \E i \in 1 .. Len(events') : events'[i].open = streams'[r].open /\ events'[i].stream = r
          BY <1>0, <2>1, <3>3 DEF Linked, Pushed
        <5> QED
          BY <5>1, <5>2
      <4> QED
        BY <1>0, <4>1, <4>2, <4>3, <4>4 DEF Linked
    <3>7. TypeOK'
      BY <1>0, <1>3, <2>1, <3>3 DEF Negotiated, TypeOK, Pushed
    <3> QED
      BY <1>0, <1>3, <2>2, <2>3, <3>3, <3>5, <3>6, <3>7
         DEF Negotiated, Pushed, IInv, NoEventLost, LoopInv
  <2>5. CASE ~streams[s].outbound
    <3>1. UNCHANGED <<opens, events, lost>> /\ streams[s].open = None
      BY <1>0, <1>3, <2>1, <2>5 DEF Negotiated, Linked
    <3>2. Linked(streams', opens, events)
      <4>1. \A r \in Streams : streams'[r].state = "NEGOTIATING" => r # s /\ streams'[r] = streams[r]
        BY <2>1
      <4>2. \A p \in Opens : opens[p].state = "NEGOTIATING" =>
              \E r \in Streams : streams'[r].state = "NEGOTIATING" /\ streams'[r].open = p
        BY <1>0, <2>1, <3>1, Constants DEF Linked
      <4>3. \A r \in Streams : streams'[r].state = "OPEN" /\ streams'[r].open # None =>
              r # s /\ streams'[r] = streams[r]
        BY <2>1, <3>1
      <4> QED
        BY <1>0, <4>1, <4>2, <4>3 DEF Linked
    <3>3. TypeOK'
      BY <1>0, <1>3, <2>1, <3>1 DEF Negotiated, TypeOK
    <3> QED
      BY <1>0, <1>3, <2>2, <2>3, <3>1, <3>2, <3>3 DEF Negotiated, IInv, NoEventLost, LoopInv
  <2> QED
    BY <2>4, <2>5
<1>4. ASSUME NEW s \in Streams, NegotiationFailed(s)
      PROVE  IInv'
  <2>1. FailedOf(s)
    BY <1>0, <1>4, FailNegotiationKeeps DEF NegotiationFailed
  <2>2. TypeOK'
    BY <1>0, <1>4, <2>1 DEF NegotiationFailed, TypeOK, FailedOf
  <2> QED
    BY <1>0, <1>4, <2>1, <2>2 DEF NegotiationFailed, FailedOf, IInv, LoopInv
<1>5. ASSUME NEW s \in Streams, streams[s].state = "OPEN", StreamRelease(s),
             pc' \in {"app", "recycle"}, UNCHANGED <<hostState, opens, dials, events, cur, held, lost, late>>
      PROVE  IInv'
  <2>1. /\ streams' \in [Streams -> Stream] /\ conns' \in [Conns -> Conn]
        /\ streams'[s] = FreeStream /\ \A r \in Streams \ {s} : streams'[r] = streams[r]
        /\ Counted(conns', streams', opens) /\ Referring(conns', streams', opens)
        /\ ConnsQueued(conns', events, held)
    BY <1>0, <1>5, ReleaseKeeps
  <2>2. Linked(streams', opens, events)
    <3>1. \A r \in Streams : streams'[r].state # "FREE" => r # s /\ streams'[r] = streams[r]
      BY <2>1 DEF FreeStream
    <3>2. \A r \in Streams : streams[r].state = "NEGOTIATING" => streams'[r] = streams[r]
      BY <1>5, <2>1
    <3> QED
      BY <1>0, <3>1, <3>2 DEF Linked
  <2>3. TypeOK'
    BY <1>0, <1>5, <2>1 DEF TypeOK
  <2> QED
    BY <1>0, <1>5, <2>1, <2>2, <2>3 DEF IInv, NoEventLost, LoopInv
<1>6. ASSUME NEW s \in Streams, ProtocolEvent(s)
      PROVE  IInv'
  <2>1. CASE NextKind(s) = "CLOSED"
    BY <1>5, <1>6, <2>1 DEF ProtocolEvent, Pending
  <2>2. CASE NextKind(s) # "CLOSED"
    <3>1. /\ streams' = [streams EXCEPT ![s].pending = @ \ {NextKind(s)}] /\ UNCHANGED conns
          /\ streams[s].state = "OPEN"
      BY <1>6, <2>2 DEF ProtocolEvent, Pending
    <3>2. /\ streams' \in [Streams -> Stream]
          /\ \A r \in Streams : /\ streams'[r].state = streams[r].state /\ streams'[r].conn = streams[r].conn
                                /\ streams'[r].open = streams[r].open
                                /\ streams'[r].outbound = streams[r].outbound
                                /\ "CLOSED" \in streams[r].pending => "CLOSED" \in streams'[r].pending
      BY <1>h, <2>2, <3>1 DEF Stream
    <3>3. Counted(conns, streams', opens)
      <4>1. \A r \in Streams : streams'[r].state = streams[r].state /\ streams'[r].conn = streams[r].conn
        BY <3>2, Zenon
      <4> QED
        BY <1>0, <4>1, SameCounts, Zenon
    <3>4. Referring(conns, streams', opens) /\ Linked(streams', opens, events)
      BY <1>0, <3>2 DEF Referring, Linked
    <3>5. TypeOK'
      BY <1>0, <1>6, <3>1, <3>2 DEF ProtocolEvent, TypeOK
    <3> QED
      BY <1>0, <1>6, <3>1, <3>3, <3>4, <3>5 DEF ProtocolEvent, IInv, NoEventLost, LoopInv
  <2> QED
    BY <2>1, <2>2
<1>7. ASSUME NEW s \in Streams, ProtocolError(s)
      PROVE  IInv'
  BY <1>5, <1>7 DEF ProtocolError, Pending
<1>8. ASSUME NEW released \in SUBSET Conns, Recycle(released)
      PROVE  IInv'
  <2>1. FreeConn \in Conn
    BY DEF FreeConn, Conn
  <2>2. Recycled(conns, conns')
    BY <1>h, <1>8, <2>1 DEF Recycle, Recycled
  <2>3. /\ Counted(conns', streams, opens) /\ Referring(conns', streams, opens)
        /\ ConnsQueued(conns', events, held)
    BY <1>0, <1>h, <2>2, RecycleKeeps
  <2>4. TypeOK'
    BY <1>0, <1>8, <2>2 DEF Recycle, TypeOK, Recycled
  <2> QED
    BY <1>0, <1>8, <2>3, <2>4 DEF Recycle, IInv, NoEventLost, LoopInv
<1>9. ASSUME CloseComplete
      PROVE  IInv'
  <2> DEFINE ev == Ev("HOST_CLOSED", None, None, None, None)
  <2>1. /\ ev \in Event /\ ev.type = "HOST_CLOSED" /\ ev.conn = None /\ ev.open = None /\ ev.dial = None
    BY DEF Ev, Event
  <2> HIDE DEF ev
  <2>2. Pushed(ev)
    BY <1>0, <1>9, <2>1, PushIsAppend DEF CloseComplete, ev
  <2>3. Linked(streams, opens, events') /\ OpensQueued(opens, events') /\ ConnsQueued(conns, events', held)
    BY <1>0, <2>1, <2>2, LinkedGrows, OpensPushed, ConnsPushed
  <2>4. DialsQueued(dials, events')
    <3>1. DialEvented(None) = dials
      BY <1>0, Constants DEF DialEvented, TypeOK
    <3> QED
      BY <1>0, <2>1, <2>2, <3>1, DialsPushed
  <2>5. TypeOK'
    BY <1>0, <1>9, <2>2 DEF CloseComplete, TypeOK, Pushed
  <2> QED
    BY <1>0, <1>9, <2>2, <2>3, <2>4, <2>5 DEF CloseComplete, Pushed, IInv, NoEventLost, LoopInv
<1>10. ASSUME RetryNone \/ NegotiateNone \/ ProtocolNone \/ CloseNot
       PROVE  IInv'
  <2>1. TypeOK'
    BY <1>0, <1>10 DEF RetryNone, NegotiateNone, ProtocolNone, CloseNot, TypeOK
  <2> QED
    BY <1>10, <2>1, PhaseKeeps DEF RetryNone, NegotiateNone, ProtocolNone, CloseNot
<1> QED
  BY <1>1, <1>2, <1>3, <1>4, <1>6, <1>7, <1>8, <1>9, <1>10
     DEF OpenPhase, NegotiatePhase, ProtocolPhase, RecyclePhase, ClosePhase

LEMMA NextInvariant == IInv /\ [Next]_vars => IInv'
<1> SUFFICES ASSUME IInv, [Next]_vars PROVE IInv'
  OBVIOUS
<1>1. CASE Drive \/ TransportIdle
  <2>1. TypeOK'
    BY <1>1 DEF IInv, TypeOK, Drive, TransportIdle
  <2> QED
    BY <1>1, <2>1, PhaseKeeps DEF Drive, TransportIdle
<1>2. CASE UNCHANGED vars
  BY <1>2 DEF vars, IInv, TypeOK, NoEventLost, LoopInv, Usable
<1> QED
  BY <1>1, <1>2, AppCallInvariant, NextEventInvariant, TransportInvariant, ConnClosedInvariant,
     PhaseInvariant DEF Next

-----------------------------------------------------------------------------
(***************************************************************************)
(* The theorems.                                                           *)
(***************************************************************************)

\* The inductive invariant is an invariant of the host.
THEOREM Invariance == Spec => []IInv
BY InitInvariant, NextInvariant, PTL DEF Spec

\* Every variable of the host keeps its type, in particular the queue its capacity.
THEOREM TypeCorrect == Spec => []TypeOK
<1>1. IInv => TypeOK
  BY DEF IInv
<1> QED
  BY <1>1, Invariance, PTL

\* host_event_push never finds the queue full, whatever the limits: the room that
\* libp2p_host_drive asks for before it takes an event of the transport is enough for
\* everything the end of a connection reports.
THEOREM EventsNeverLost == Spec => []NoEventLost
<1>1. IInv => NoEventLost
  BY DEF IInv
<1> QED
  BY <1>1, Invariance, PTL

\* The application hears of every answered open and of every ended dial exactly once.
THEOREM AnswersOnce == Spec => []AnsweredOnce
<1>1. ASSUME IInv
      PROVE  AnsweredOnce
  <2>1. ASSUME NEW o \in Opens
        PROVE  Cardinality({i \in 1 .. Len(events) : events[i].open = o})
                 = IF opens[o].state = "EVENTED" THEN 1 ELSE 0
    <3>1. CASE opens[o].state = "EVENTED"
      <4>1. PICK i \in 1 .. Len(events) : events[i].open = o
        BY <1>1, <3>1 DEF IInv, OpensQueued
      <4>2. {j \in 1 .. Len(events) : events[j].open = o} = {i}
        BY <1>1, <4>1, Constants DEF IInv, OpensQueued
      <4> QED
        BY <3>1, <4>2, FS_Singleton
    <3>2. CASE opens[o].state # "EVENTED"
      <4>1. {j \in 1 .. Len(events) : events[j].open = o} = {}
        BY <1>1, <3>2, Constants DEF IInv, OpensQueued
      <4> QED
        BY <3>2, <4>1, FS_EmptySet
    <3> QED
      BY <3>1, <3>2
  <2>2. ASSUME NEW d \in Dials
        PROVE  Cardinality({i \in 1 .. Len(events) : events[i].dial = d})
                 = IF dials[d] = "EVENTED" THEN 1 ELSE 0
    <3>1. CASE dials[d] = "EVENTED"
      <4>1. PICK i \in 1 .. Len(events) : events[i].dial = d
        BY <1>1, <3>1 DEF IInv, DialsQueued
      <4>2. {j \in 1 .. Len(events) : events[j].dial = d} = {i}
        BY <1>1, <4>1, Constants DEF IInv, DialsQueued
      <4> QED
        BY <3>1, <4>2, FS_Singleton
    <3>2. CASE dials[d] # "EVENTED"
      <4>1. {j \in 1 .. Len(events) : events[j].dial = d} = {}
        BY <1>1, <3>2, Constants DEF IInv, DialsQueued
      <4> QED
        BY <3>2, <4>1, FS_EmptySet
    <3> QED
      BY <3>1, <3>2
  <2> QED
    BY <2>1, <2>2 DEF AnsweredOnce
<1> QED
  BY <1>1, Invariance, PTL

\* No connection slot is given back while a stream, an open, an event or the
\* application refers to it, and the counts host_conn_try_recycle reads are exact.
THEOREM ConnsValid == Spec => []ConnsStayValid
<1>1. ASSUME IInv
      PROVE  ConnsStayValid
  <2>1. \A s \in Streams : streams[s].state # "FREE" => conns[streams[s].conn].active
    BY <1>1 DEF IInv, Referring
  <2>2. \A o \in Opens : opens[o].state # "FREE" => conns[opens[o].conn].active
    BY <1>1 DEF IInv, Referring
  <2>3. \A i \in 1 .. Len(events) : events[i].conn # None => conns[events[i].conn].active
    <3>1. ASSUME NEW i \in 1 .. Len(events), events[i].conn # None
          PROVE  conns[events[i].conn].active
      <4>1. CASE events[i].type \in {"CONN_ESTABLISHED", "CONN_CLOSED"}
        BY <1>1, <4>1 DEF IInv, ConnsQueued
      <4>2. CASE events[i].type \in {"STREAM_OPENED", "STREAM_OPEN_FAILED"}
        <5>1. /\ events[i].open \in Opens /\ opens[events[i].open].state = "EVENTED"
              /\ events[i].conn = opens[events[i].open].conn
          BY <1>1, <4>2, EventTypes DEF IInv, OpensQueued
        <5> QED
          BY <2>2, <5>1
      <4> QED
        BY <1>1, <3>1, <4>1, <4>2 DEF IInv, ConnsQueued
    <3> QED
      BY <3>1
  <2>4. \A c \in held : conns[c].active
    BY <1>1 DEF IInv, ConnsQueued
  <2>5. \A c \in Conns :
          /\ conns[c].streamCount =
               Cardinality({s \in Streams : streams[s].state # "FREE" /\ streams[s].conn = c})
          /\ conns[c].openCount =
               Cardinality({o \in Opens : opens[o].state # "FREE" /\ opens[o].conn = c})
    BY <1>1 DEF IInv, Counted, StreamRefs, OpenRefs
  <2> QED
    BY <2>1, <2>2, <2>3, <2>4, <2>5 DEF ConnsStayValid
<1> QED
  BY <1>1, Invariance, PTL

\* Every open that negotiates has its one stream, and every stream that outlives its
\* connection is about to be told.
THEOREM NothingOrphaned == Spec => []NoOrphans
<1>1. ASSUME IInv
      PROVE  NoOrphans
  <2>1. ASSUME NEW o \in Opens, opens[o].state = "NEGOTIATING"
        PROVE  Cardinality({s \in Streams : streams[s].state = "NEGOTIATING" /\ streams[s].open = o}) = 1
    <3>1. PICK s \in Streams : streams[s].state = "NEGOTIATING" /\ streams[s].open = o
      BY <1>1, <2>1 DEF IInv, Linked
    <3>2. {r \in Streams : streams[r].state = "NEGOTIATING" /\ streams[r].open = o} = {s}
      BY <1>1, <3>1, Constants DEF IInv, Linked
    <3> QED
      BY <3>2, FS_Singleton
  <2>2. \A s \in Streams :
          streams[s].state # "FREE" /\ conns[streams[s].conn].closed
            => streams[s].state = "OPEN" /\ "CLOSED" \in streams[s].pending
    BY <1>1 DEF IInv, Referring
  <2> QED
    BY <2>1, <2>2 DEF NoOrphans
<1> QED
  BY <1>1, Invariance, PTL
=============================================================================
