------------------------ MODULE GossipsubCacheProofs ------------------------
(***************************************************************************)
(* Proofs about GossipsubCache, for every table size, message size and     *)
(* time to live.                                                           *)
(***************************************************************************)
EXTENDS GossipsubCache, SequenceTheorems, WellFoundedInduction, TLAPS

-----------------------------------------------------------------------------
(***************************************************************************)
(* The inductive invariant.                                                *)
(***************************************************************************)

\* An entry in use, and an event with a token, are about a message.
EntriesNamed == \A i \in CacheSlots : mcache[i].used => mcache[i].msg \in Msgs
EventsNamed == \A i \in 1 .. Len(events) : events[i].token # NoToken => events[i].msg \in Msgs

\* Within its window a message has an entry of the seen table that lives until the
\* window ends, and a heartbeat interval longer than libp2p_gossipsub_publish sees.
SeenKept ==
    ~evicted => \A m \in Msgs : age[m] <= SeenTtl - HeartbeatInterval =>
        \E i \in SeenSlots : seen[i].msg = m /\ seen[i].left >= SeenTtl - age[m]

IInv ==
    /\ TypeOK
    /\ CacheIntact /\ EntriesNamed
    /\ ValidationsReachable /\ EventsNamed
    /\ SeenKept

-----------------------------------------------------------------------------
(***************************************************************************)
(* Numbers.                                                                *)
(***************************************************************************)

LEMMA Constants ==
    /\ SeenEntries \in Nat \ {0} /\ McacheSlots \in Nat \ {0} /\ McacheBytes \in Nat \ {0}
    /\ PendingValidations \in Nat \ {0} /\ EventCapacity \in Nat \ {0}
    /\ HeartbeatInterval \in Nat \ {0} /\ MaxElapsed \in Nat \ {0}
    /\ SeenTtl \in Nat /\ ValidationTtl \in Nat /\ McacheLen \in Nat
    /\ \A m \in Msgs : Size(m) \in Nat
    /\ NoToken \notin Tokens /\ NoMsg \notin Msgs
<1>1. /\ SeenEntries \in Nat \ {0} /\ McacheSlots \in Nat \ {0} /\ McacheBytes \in Nat \ {0}
      /\ PendingValidations \in Nat \ {0} /\ EventCapacity \in Nat \ {0}
      /\ HeartbeatInterval \in Nat \ {0} /\ MaxElapsed \in Nat \ {0}
      /\ SeenTtl \in Nat /\ ValidationTtl \in Nat /\ McacheLen \in Nat
      /\ \A m \in Msgs : Size(m) \in Nat
      /\ NoMsg \notin Msgs
  BY CacheAssumption
<1> QED
  BY <1>1 DEF NoToken, Tokens

\* Every set of numbers that is not empty has a least one.
LEMMA LeastNumber ==
    ASSUME NEW T, T \subseteq Nat, T # {}
    PROVE  \E n \in T : \A k \in T : n <= k
<1> DEFINE R == {ss \in Nat \X Nat : ss[1] < ss[2]}
<1>1. IsWellFoundedOn(R, Nat)
  BY NatLessThanWellFounded, Zenon DEF OpToRel
<1>2. \A x, y \in Nat : x < y => <<x, y>> \in R
  OBVIOUS
<1> HIDE DEF R
<1>3. PICK n \in T : \A k \in T : ~(<<k, n>> \in R)
  BY <1>1, WFMin
<1>4. \A k \in T : n <= k
  <2>1. SUFFICES ASSUME NEW k \in T, ~(n <= k)
                 PROVE  FALSE
    OBVIOUS
  <2>2. k < n
    BY <2>1
  <2> QED
    BY <1>2, <1>3, <2>2
<1> QED
  BY <1>4

\* The remainder of a number.
LEMMA Remainder ==
    ASSUME NEW a \in Nat, NEW n \in Nat \ {0}
    PROVE  a % n \in 0 .. n - 1
OBVIOUS

LEMMA CycleIs == Cycle \in Nat \ {0}
<1> DEFINE T == {n \in 1 .. SeenEntries * McacheSlots : n % SeenEntries = 0 /\ n % McacheSlots = 0}
<1>1. SeenEntries * McacheSlots \in Nat \ {0}
  BY Constants
<1>2. (SeenEntries * McacheSlots) % SeenEntries = 0 /\ (SeenEntries * McacheSlots) % McacheSlots = 0
  BY Constants
<1>3. T # {} /\ T \subseteq Nat
  BY <1>1, <1>2
<1>4. PICK n \in T : \A k \in T : n <= k
  BY <1>3, LeastNumber
<1>5. \A k \in 1 .. n - 1 : k % SeenEntries # 0 \/ k % McacheSlots # 0
  BY <1>1, <1>4
<1>6. \E j \in 1 .. SeenEntries * McacheSlots :
        /\ j % SeenEntries = 0 /\ j % McacheSlots = 0
        /\ \A k \in 1 .. j - 1 : k % SeenEntries # 0 \/ k % McacheSlots # 0
  BY <1>4, <1>5
<1>7. Cycle \in 1 .. SeenEntries * McacheSlots
  BY <1>6 DEF Cycle
<1> QED
  BY <1>1, <1>7

LEMMA NeverIs == /\ Never \in Nat \ {0}
                 /\ \A a \in Nat : a <= SeenTtl - HeartbeatInterval => a < Never
BY Constants DEF Never

-----------------------------------------------------------------------------
(***************************************************************************)
(* The slots the tables choose.                                            *)
(***************************************************************************)

Event == [msg : Msgs \cup {NoMsg}, token : Tokens \cup {NoToken}]

LEMMA SeenTargetIs ==
    ASSUME TypeOK, NEW ahead \in Nat, NEW next \in Nat
    PROVE  SeenTarget(ahead, next) \in SeenSlots
<1> DEFINE T == {i \in SeenSlots : SeenFree(i, ahead)}
<1>1. T \subseteq Nat
  BY Constants DEF SeenSlots
<1>2. CASE \E i \in SeenSlots : SeenFree(i, ahead)
  <2>1. T # {}
    BY <1>2
  <2>2. PICK n \in T : \A k \in T : n <= k
    BY <1>1, <2>1, LeastNumber
  <2>3. \E i \in SeenSlots :
            SeenFree(i, ahead) /\ \A j \in SeenSlots : SeenFree(j, ahead) => i <= j
    BY <2>2
  <2> QED
    BY <1>2, <2>3, Zenon DEF SeenTarget
<1>3. CASE ~\E i \in SeenSlots : SeenFree(i, ahead)
  <2>1. next % SeenEntries \in SeenSlots
    BY Constants, Remainder DEF SeenSlots
  <2> QED
    BY <1>3, <2>1 DEF SeenTarget
<1> QED
  BY <1>2, <1>3

LEMMA NextSlotIs ==
    ASSUME TypeOK
    PROVE  NextSlot \in CacheSlots
<1>1. mcacheNext \in Nat
  BY CycleIs DEF TypeOK
<1> QED
  BY <1>1, Constants, Remainder DEF NextSlot, CacheSlots

LEMMA FreeTokenIs ==
    ASSUME FreeTokens # {}
    PROVE  (CHOOSE t \in FreeTokens : \A u \in FreeTokens : t <= u) \in FreeTokens
<1>1. FreeTokens \subseteq Nat
  BY Constants DEF FreeTokens, Tokens
<1>2. \E t \in FreeTokens : \A u \in FreeTokens : t <= u
  BY <1>1, LeastNumber
<1> QED
  BY <1>2, Zenon

-----------------------------------------------------------------------------
(***************************************************************************)
(* What the parts of an action keep.                                       *)
(***************************************************************************)

\* An event pushed keeps the others, and is the last one if there was room.
LEMMA PushKeeps ==
    ASSUME TypeOK, EventsNamed, NEW e \in Event, e.token # NoToken => e.msg \in Msgs, Push(e)
    PROVE  /\ events' \in Seq(Event) /\ Len(events') <= EventCapacity
           /\ EventsNamed'
           /\ \A i \in 1 .. Len(events) : i \in 1 .. Len(events') /\ events'[i] = events[i]
           /\ ~RingFull => \E i \in 1 .. Len(events') : events'[i] = e
<1>1. events \in Seq(Event) /\ Len(events) \in Nat /\ Len(events) <= EventCapacity
  BY LenProperties DEF TypeOK, Event
<1>2. CASE RingFull
  <2>1. events' = events
    BY <1>2 DEF Push
  <2> QED
    BY <1>1, <1>2, <2>1 DEF EventsNamed
<1>3. CASE ~RingFull
  <2>1. events' = Append(events, e)
    BY <1>3 DEF Push
  <2>2. /\ events' \in Seq(Event) /\ Len(events') = Len(events) + 1
        /\ events'[Len(events) + 1] = e
        /\ \A i \in 1 .. Len(events) : events'[i] = events[i]
    BY <1>1, <2>1, AppendProperties
  <2>3. Len(events') <= EventCapacity
    BY <1>1, <1>3, <2>2, Constants DEF RingFull
  <2>4. \A i \in 1 .. Len(events) : i \in 1 .. Len(events')
    BY <1>1, <2>2
  <2>5. Len(events) + 1 \in 1 .. Len(events')
    BY <1>1, <2>2
  <2>6. ASSUME NEW i \in 1 .. Len(events'), events'[i].token # NoToken
        PROVE  events'[i].msg \in Msgs
    <3>1. i \in 1 .. Len(events) \/ i = Len(events) + 1
      BY <1>1, <2>2, <2>6
    <3> QED
      BY <2>2, <2>6, <3>1 DEF EventsNamed
  <2> QED
    BY <2>2, <2>3, <2>4, <2>5, <2>6 DEF EventsNamed
<1> QED
  BY <1>2, <1>3

\* An event without a token takes no validation slot out of reach.
LEMMA PushReaches ==
    ASSUME TypeOK, EventsNamed, ValidationsReachable, NEW e \in Event,
           e.token = NoToken, Push(e), UNCHANGED <<validations, held>>
    PROVE  ValidationsReachable'
<1>1. \A i \in 1 .. Len(events) : i \in 1 .. Len(events') /\ events'[i] = events[i]
  BY PushKeeps
<1> QED
  BY <1>1 DEF ValidationsReachable

\* A validation slot is taken only together with a MESSAGE event for it.
LEMMA PushForValidationKeeps ==
    ASSUME TypeOK, EventsNamed, ValidationsReachable, NEW m \in Msgs,
           PushForValidation(m), UNCHANGED held
    PROVE  /\ events' \in Seq(Event) /\ Len(events') <= EventCapacity
           /\ validations' \in [Tokens -> [pending : BOOLEAN, slot : CacheSlots,
                                           left : Expired .. ValidationTtl]]
           /\ EventsNamed'
           /\ ValidationsReachable'
<1>1. events \in Seq(Event) /\ Len(events) \in Nat /\ Len(events) <= EventCapacity
  BY LenProperties DEF TypeOK, Event
<1>2. CASE FreeTokens = {} \/ RingFull
  <2>1. UNCHANGED <<events, validations>>
    BY <1>2 DEF PushForValidation
  <2> QED
    BY <1>1, <2>1 DEF TypeOK, EventsNamed, ValidationsReachable
<1>3. CASE ~(FreeTokens = {} \/ RingFull)
  <2> DEFINE t == CHOOSE t \in FreeTokens : \A u \in FreeTokens : t <= u
             v == [pending |-> TRUE, slot |-> NextSlot, left |-> ValidationTtl]
  <2>1. t \in FreeTokens
    BY <1>3, FreeTokenIs
  <2>2. validations' = [validations EXCEPT ![t] = v] /\ Push(MessageEvent(m, t))
    BY <1>3 DEF PushForValidation
  <2>3. v \in [pending : BOOLEAN, slot : CacheSlots, left : Expired .. ValidationTtl]
    BY NextSlotIs, Constants DEF Expired
  <2> HIDE DEF t, v
  <2>4. t \in Tokens
    BY <2>1 DEF FreeTokens
  <2>5. MessageEvent(m, t) \in Event /\ MessageEvent(m, t).token = t /\ MessageEvent(m, t).msg = m
    BY <2>4 DEF MessageEvent, Event
  <2>6. /\ events' \in Seq(Event) /\ Len(events') <= EventCapacity
        /\ EventsNamed'
        /\ \A i \in 1 .. Len(events) : i \in 1 .. Len(events') /\ events'[i] = events[i]
        /\ \E i \in 1 .. Len(events') : events'[i] = MessageEvent(m, t)
    BY <1>3, <2>2, <2>5, PushKeeps
  <2>7. validations' \in [Tokens -> [pending : BOOLEAN, slot : CacheSlots,
                                     left : Expired .. ValidationTtl]]
    BY <2>2, <2>3, <2>4 DEF TypeOK
  <2>8. \A u \in Tokens : u # t => validations'[u] = validations[u]
    BY <2>2 DEF TypeOK
  <2>9. ASSUME NEW u \in Tokens, validations'[u].pending
        PROVE  \/ \E i \in 1 .. Len(events') : events'[i].token = u
               \/ \E h \in held' : h.token = u
    <3>1. CASE u = t
      BY <2>5, <2>6, <3>1
    <3>2. CASE u # t
      BY <2>6, <2>8, <2>9, <3>2 DEF ValidationsReachable
    <3> QED
      BY <3>1, <3>2
  <2> QED
    BY <2>6, <2>7, <2>9 DEF ValidationsReachable
<1> QED
  BY <1>2, <1>3

LEMMA CountedOn ==
    ASSUME TypeOK
    PROVE  mcacheNext \in Nat
BY CycleIs DEF TypeOK

\* An entry of the seen table is given up only when it is of no more use to
\* libp2p_gossipsub_publish, which is later than the end of its message's window.
LEMMA SeenAddKeeps ==
    ASSUME TypeOK, SeenKept, NEW m \in Msgs, NEW ahead \in 0 .. HeartbeatInterval,
           NEW next \in Nat, SeenAdd(m, ahead, next)
    PROVE  /\ seen' \in [SeenSlots -> [msg : Msgs \cup {NoMsg},
                                       left : Expired .. SeenTtl + HeartbeatInterval]]
           /\ age' \in [Msgs -> 0 .. Never]
           /\ evicted' \in BOOLEAN
           /\ SeenKept'
<1> DEFINE x == SeenTarget(ahead, next)
           e == [msg |-> m, left |-> SeenTtl + ahead]
<1>1. x \in SeenSlots
  BY Constants, SeenTargetIs
<1>2. e \in [msg : Msgs \cup {NoMsg}, left : Expired .. SeenTtl + HeartbeatInterval]
  BY Constants DEF Expired
<1>3. e.msg = m /\ e.left = SeenTtl + ahead
  OBVIOUS
<1>4. /\ seen' = [seen EXCEPT ![x] = e]
      /\ evicted' = (evicted \/ ~SeenFree(x, ahead))
      /\ age' = [age EXCEPT ![m] = 0]
  BY DEF SeenAdd
<1> HIDE DEF x, e
<1>5. seen' \in [SeenSlots -> [msg : Msgs \cup {NoMsg},
                               left : Expired .. SeenTtl + HeartbeatInterval]]
  BY <1>1, <1>2, <1>4 DEF TypeOK
<1>6. age' \in [Msgs -> 0 .. Never]
  BY <1>4, NeverIs DEF TypeOK
<1>7. evicted' \in BOOLEAN
  BY <1>4, Zenon DEF TypeOK
<1>8. ~evicted' => ~evicted /\ SeenFree(x, ahead)
  BY <1>4, Zenon
<1>9. ASSUME ~evicted', NEW k \in Msgs, age'[k] <= SeenTtl - HeartbeatInterval
      PROVE  \E i \in SeenSlots : seen'[i].msg = k /\ seen'[i].left >= SeenTtl - age'[k]
  <2>1. CASE k = m
    <3>1. age'[k] = 0
      BY <1>4, <2>1 DEF TypeOK
    <3>2. seen'[x] = e
      BY <1>1, <1>4 DEF TypeOK
    <3>3. seen'[x].msg = k /\ seen'[x].left >= SeenTtl - age'[k]
      BY <1>3, <2>1, <3>1, <3>2, Constants
    <3> QED
      BY <1>1, <3>3
  <2>2. CASE k # m
    <3>1. age'[k] = age[k] /\ age[k] \in Nat
      BY <1>4, <2>2, NeverIs DEF TypeOK
    <3>2. PICK i \in SeenSlots : seen[i].msg = k /\ seen[i].left >= SeenTtl - age[k]
      BY <1>8, <1>9, <3>1 DEF SeenKept
    <3>3. seen[i].left \in Int
      BY Constants DEF TypeOK, Expired
    <3>4. seen[i].left >= ahead
      BY <1>9, <3>1, <3>2, <3>3, Constants
    <3>5. ~SeenFree(i, ahead)
      BY <3>2, <3>3, <3>4, Constants DEF SeenFree
    <3>6. i # x
      BY <1>8, <1>9, <3>5
    <3>7. seen'[i] = seen[i]
      BY <1>4, <3>6 DEF TypeOK
    <3> QED
      BY <3>1, <3>2, <3>7
  <2> QED
    BY <2>1, <2>2
<1> QED
  BY <1>5, <1>6, <1>7, <1>9 DEF SeenKept

\* A message is stored behind the data of every entry still in use.
LEMMA McacheStoreKeeps ==
    ASSUME TypeOK, CacheIntact, EntriesNamed, NEW m \in Msgs, Size(m) <= McacheBytes,
           McacheStore(m)
    PROVE  /\ mcache' \in [CacheSlots -> [used : BOOLEAN, msg : Msgs \cup {NoMsg},
                                          window : 0 .. McacheLen, off : 0 .. McacheBytes]]
           /\ cells' \in [Cells -> Msgs \cup {NoMsg}]
           /\ dataUsed' \in 0 .. McacheBytes
           /\ mcacheNext' \in 0 .. Cycle - 1
           /\ CacheIntact' /\ EntriesNamed'
<1> DEFINE Entry == [used : BOOLEAN, msg : Msgs \cup {NoMsg},
                     window : 0 .. McacheLen, off : 0 .. McacheBytes]
           off == NextOffset(m)
           base == IF MustFlush(m) THEN [i \in CacheSlots |-> NoEntry] ELSE mcache
           e == [used |-> TRUE, msg |-> m, window |-> 0, off |-> off]
<1>1. /\ mcache' = [base EXCEPT ![NextSlot] = e]
      /\ cells' = [c \in Cells |-> IF c \in off .. off + Size(m) - 1 THEN m ELSE cells[c]]
      /\ dataUsed' = off + Size(m)
      /\ mcacheNext' = (mcacheNext + 1) % Cycle
  BY DEF McacheStore
<1>2. Size(m) \in Nat /\ dataUsed \in 0 .. McacheBytes /\ mcacheNext \in Nat
  BY Constants, CycleIs DEF TypeOK
<1>3. off \in 0 .. McacheBytes /\ off + Size(m) \in 0 .. McacheBytes
  BY <1>2, Constants DEF NextOffset, MustFlush
<1>4. NoEntry \in Entry /\ ~NoEntry.used
  BY Constants DEF NoEntry
<1>5. base \in [CacheSlots -> Entry]
  BY <1>4 DEF TypeOK
<1>6. e \in Entry
  BY <1>3, Constants
<1>7. e.used /\ e.msg = m /\ e.off = off
  OBVIOUS
\* What is still in use afterwards lies below the new data.
<1>8. \A i \in CacheSlots : base[i].used =>
          /\ base[i] = mcache[i] /\ mcache[i].used
          /\ off = dataUsed
  BY <1>4 DEF NextOffset
<1>9. NextSlot \in CacheSlots
  BY NextSlotIs
<1> HIDE DEF base, e, off
<1>10. mcache' \in [CacheSlots -> Entry]
  BY <1>1, <1>5, <1>6, <1>9
<1>11. cells' \in [Cells -> Msgs \cup {NoMsg}]
  BY <1>1 DEF TypeOK
<1>12. mcacheNext' \in 0 .. Cycle - 1
  BY <1>1, <1>2, CycleIs, Remainder
<1>13. mcache'[NextSlot] = e
       /\ \A i \in CacheSlots : i # NextSlot => mcache'[i] = base[i]
  BY <1>1, <1>5, <1>9
<1>14. EntriesNamed'
  BY <1>7, <1>8, <1>13 DEF EntriesNamed
<1>15. ASSUME NEW i \in CacheSlots, mcache'[i].used
       PROVE  /\ mcache'[i].off + Size(mcache'[i].msg) <= dataUsed'
              /\ \A c \in mcache'[i].off .. mcache'[i].off + Size(mcache'[i].msg) - 1 :
                    cells'[c] = mcache'[i].msg
  <2>1. CASE i = NextSlot
    <3>1. mcache'[i].off = off /\ mcache'[i].msg = m
      BY <1>7, <1>13, <2>1
    <3>2. \A c \in off .. off + Size(m) - 1 : c \in Cells
      BY <1>2, <1>3, Constants DEF Cells
    <3>3. \A c \in off .. off + Size(m) - 1 : cells'[c] = m
      BY <1>1, <3>2
    <3>4. off + Size(m) <= dataUsed'
      BY <1>1, <1>2, <1>3
    <3> QED
      BY <3>1, <3>3, <3>4
  <2>2. CASE i # NextSlot
    <3>1. mcache'[i] = mcache[i] /\ mcache[i].used /\ off = dataUsed
      BY <1>8, <1>13, <1>15, <2>2
    <3>2. Size(mcache[i].msg) \in Nat /\ mcache[i].off \in Nat
      BY <3>1, Constants DEF EntriesNamed, TypeOK
    <3>3. mcache[i].off + Size(mcache[i].msg) <= dataUsed
      BY <3>1 DEF CacheIntact
    <3>4. ASSUME NEW c \in mcache[i].off .. mcache[i].off + Size(mcache[i].msg) - 1
          PROVE  cells'[c] = mcache[i].msg
      <4>1. cells[c] = mcache[i].msg
        BY <3>1 DEF CacheIntact
      <4>2. c \in Cells /\ ~(c \in off .. off + Size(m) - 1)
        BY <1>2, <3>1, <3>2, <3>3, Constants DEF Cells
      <4> QED
        BY <1>1, <4>1, <4>2
    <3>5. mcache[i].off + Size(mcache[i].msg) <= dataUsed'
      BY <1>1, <1>2, <3>1, <3>2, <3>3
    <3> QED
      BY <3>1, <3>4, <3>5
  <2> QED
    BY <2>1, <2>2
<1>16. CacheIntact'
  BY <1>15 DEF CacheIntact
<1> QED
  BY <1>1, <1>3, <1>10, <1>11, <1>12, <1>14, <1>16

\* A deadline comes nearer by the time that passes, and an age grows by it.
LEMMA LessIs ==
    ASSUME NEW b \in Nat, NEW left \in Expired .. b, NEW elapsed \in Nat
    PROVE  /\ Less(left, elapsed) \in Expired .. b
           /\ left - elapsed >= 0 => Less(left, elapsed) = left - elapsed
BY DEF Less, Expired

LEMMA MoreIs ==
    ASSUME NEW a \in Nat, NEW elapsed \in Nat
    PROVE  /\ More(a, elapsed) \in 0 .. Never
           /\ More(a, elapsed) <= SeenTtl - HeartbeatInterval => More(a, elapsed) = a + elapsed
BY NeverIs, Constants DEF More

\* Time passes alike for a message and for its entry of the seen table.
LEMMA TimeKeeps ==
    ASSUME TypeOK, SeenKept, NEW elapsed \in 1 .. MaxElapsed,
           age' = [m \in Msgs |-> More(age[m], elapsed)],
           \A i \in SeenSlots : seen[i].left - elapsed >= 0 =>
               seen'[i].msg = seen[i].msg /\ seen'[i].left = seen[i].left - elapsed,
           UNCHANGED evicted
    PROVE  age' \in [Msgs -> 0 .. Never] /\ SeenKept'
<1>1. elapsed \in Nat /\ SeenTtl \in Nat /\ HeartbeatInterval \in Nat
  BY Constants
<1>2. ASSUME NEW m \in Msgs
      PROVE  /\ age[m] \in Nat
             /\ age'[m] \in 0 .. Never
             /\ age'[m] <= SeenTtl - HeartbeatInterval => age'[m] = age[m] + elapsed
  <2>1. age[m] \in Nat
    BY NeverIs DEF TypeOK
  <2> QED
    BY <1>1, <2>1, MoreIs
<1>3. age' \in [Msgs -> 0 .. Never]
  BY <1>2
<1>4. ASSUME ~evicted', NEW m \in Msgs, age'[m] <= SeenTtl - HeartbeatInterval
      PROVE  \E i \in SeenSlots : seen'[i].msg = m /\ seen'[i].left >= SeenTtl - age'[m]
  <2>1. age'[m] = age[m] + elapsed /\ age[m] \in Nat
    BY <1>2, <1>4
  <2>2. age[m] <= SeenTtl - HeartbeatInterval
    BY <1>1, <1>4, <2>1
  <2>3. PICK i \in SeenSlots : seen[i].msg = m /\ seen[i].left >= SeenTtl - age[m]
    BY <1>4, <2>2 DEF SeenKept
  <2>4. seen[i].left \in Int
    BY Constants DEF TypeOK, Expired
  <2>5. seen[i].left - elapsed >= 0 /\ seen[i].left - elapsed >= SeenTtl - age'[m]
    BY <1>1, <1>4, <2>1, <2>3, <2>4
  <2> QED
    BY <2>3, <2>5
<1> QED
  BY <1>3, <1>4 DEF SeenKept

-----------------------------------------------------------------------------
(***************************************************************************)
(* The actions.                                                            *)
(***************************************************************************)

LEMMA PlainEventIs == PlainEvent \in Event /\ PlainEvent.token = NoToken
BY DEF PlainEvent, Event

LEMMA InitHolds == Init => IInv
<1> SUFFICES ASSUME Init PROVE IInv
  OBVIOUS
<1>1. NoSeen \in [msg : Msgs \cup {NoMsg}, left : Expired .. SeenTtl + HeartbeatInterval]
  BY Constants DEF NoSeen, Expired
<1>2. /\ NoEntry \in [used : BOOLEAN, msg : Msgs \cup {NoMsg},
                      window : 0 .. McacheLen, off : 0 .. McacheBytes]
      /\ ~NoEntry.used
  BY Constants DEF NoEntry
<1>3. /\ FreeToken \in [pending : BOOLEAN, slot : CacheSlots, left : Expired .. ValidationTtl]
      /\ ~FreeToken.pending
  BY Constants DEF FreeToken, CacheSlots, Expired
<1>4. events \in Seq([msg : Msgs \cup {NoMsg}, token : Tokens \cup {NoToken}]) /\ Len(events) = 0
  BY EmptySeq DEF Init
<1>5. TypeOK
  <2>1. /\ seen \in [SeenSlots -> [msg : Msgs \cup {NoMsg},
                                   left : Expired .. SeenTtl + HeartbeatInterval]]
        /\ mcache \in [CacheSlots -> [used : BOOLEAN, msg : Msgs \cup {NoMsg},
                                      window : 0 .. McacheLen, off : 0 .. McacheBytes]]
        /\ validations \in [Tokens -> [pending : BOOLEAN, slot : CacheSlots,
                                       left : Expired .. ValidationTtl]]
    BY <1>1, <1>2, <1>3 DEF Init
  <2>2. /\ cells \in [Cells -> Msgs \cup {NoMsg}]
        /\ held \subseteq [msg : Msgs, token : Tokens] /\ out \in Msgs \cup {NoMsg}
        /\ evicted \in BOOLEAN
    BY DEF Init
  <2>3. /\ dataUsed \in 0 .. McacheBytes /\ mcacheNext \in 0 .. Cycle - 1
        /\ untilHeartbeat \in 1 .. HeartbeatInterval /\ age \in [Msgs -> 0 .. Never]
        /\ Len(events) <= EventCapacity
    BY <1>4, Constants, CycleIs, NeverIs DEF Init
  <2> QED
    BY <1>4, <2>1, <2>2, <2>3 DEF TypeOK
<1>6. CacheIntact /\ EntriesNamed
  BY <1>2 DEF Init, CacheIntact, EntriesNamed
<1>7. ValidationsReachable
  BY <1>3 DEF Init, ValidationsReachable
<1>8. EventsNamed
  BY <1>4 DEF EventsNamed
<1>9. SeenKept
  BY NeverIs, Constants DEF Init, SeenKept
<1> QED
  BY <1>5, <1>6, <1>7, <1>8, <1>9 DEF IInv

LEMMA ReceiveKeeps ==
    ASSUME IInv, NEW m \in Msgs, Receive(m)
    PROVE  IInv'
<1>0. /\ TypeOK /\ CacheIntact /\ EntriesNamed /\ ValidationsReachable /\ EventsNamed
      /\ SeenKept /\ 0 \in 0 .. HeartbeatInterval
  BY Constants DEF IInv
<1>1. CASE ReceiveDuplicate(m)
  <2>1. /\ Push(PlainEvent) /\ out' = NoMsg
        /\ UNCHANGED <<seen, cacheVars, validations, held, untilHeartbeat, age, evicted>>
    BY <1>1 DEF ReceiveDuplicate
  <2>2. events' \in Seq(Event) /\ Len(events') <= EventCapacity /\ EventsNamed'
    BY <1>0, <2>1, PlainEventIs, PushKeeps
  <2>3. ValidationsReachable'
    BY <1>0, <2>1, PlainEventIs, PushReaches
  <2>4. TypeOK'
    BY <1>0, <2>1, <2>2 DEF TypeOK, cacheVars, Event
  <2>5. CacheIntact' /\ EntriesNamed'
    BY <1>0, <2>1 DEF CacheIntact, EntriesNamed, cacheVars
  <2>6. SeenKept'
    BY <1>0, <2>1 DEF SeenKept
  <2> QED
    BY <2>2, <2>3, <2>4, <2>5, <2>6 DEF IInv
<1>2. CASE ReceiveUnwanted(m)
  <2>1. /\ SeenAdd(m, 0, mcacheNext) /\ Push(PlainEvent) /\ out' = NoMsg
        /\ UNCHANGED <<cacheVars, validations, held, untilHeartbeat>>
    BY <1>2 DEF ReceiveUnwanted
  <2>2. events' \in Seq(Event) /\ Len(events') <= EventCapacity /\ EventsNamed'
    BY <1>0, <2>1, PlainEventIs, PushKeeps
  <2>3. ValidationsReachable'
    BY <1>0, <2>1, PlainEventIs, PushReaches
  <2>4. /\ seen' \in [SeenSlots -> [msg : Msgs \cup {NoMsg},
                                    left : Expired .. SeenTtl + HeartbeatInterval]]
        /\ age' \in [Msgs -> 0 .. Never] /\ evicted' \in BOOLEAN /\ SeenKept'
    BY <1>0, <2>1, CountedOn, SeenAddKeeps
  <2>5. TypeOK'
    BY <1>0, <2>1, <2>2, <2>4 DEF TypeOK, cacheVars, Event
  <2>6. CacheIntact' /\ EntriesNamed'
    BY <1>0, <2>1 DEF CacheIntact, EntriesNamed, cacheVars
  <2> QED
    BY <2>2, <2>3, <2>4, <2>5, <2>6 DEF IInv
<1>3. CASE ReceiveTooLarge(m)
  <2>1. /\ SeenAdd(m, 0, mcacheNext) /\ out' = NoMsg
        /\ UNCHANGED <<cacheVars, validations, events, held, untilHeartbeat>>
    BY <1>3 DEF ReceiveTooLarge
  <2>2. /\ seen' \in [SeenSlots -> [msg : Msgs \cup {NoMsg},
                                    left : Expired .. SeenTtl + HeartbeatInterval]]
        /\ age' \in [Msgs -> 0 .. Never] /\ evicted' \in BOOLEAN /\ SeenKept'
    BY <1>0, <2>1, CountedOn, SeenAddKeeps
  <2>3. TypeOK'
    BY <1>0, <2>1, <2>2 DEF TypeOK, cacheVars
  <2>4. CacheIntact' /\ EntriesNamed'
    BY <1>0, <2>1 DEF CacheIntact, EntriesNamed, cacheVars
  <2>5. ValidationsReachable' /\ EventsNamed'
    BY <1>0, <2>1 DEF ValidationsReachable, EventsNamed
  <2> QED
    BY <2>2, <2>3, <2>4, <2>5 DEF IInv
<1>4. CASE ReceiveForValidation(m)
  <2>1. /\ Size(m) <= McacheBytes /\ SeenAdd(m, 0, mcacheNext) /\ McacheStore(m)
        /\ PushForValidation(m) /\ out' = NoMsg /\ UNCHANGED <<held, untilHeartbeat>>
    BY <1>4 DEF ReceiveForValidation
  <2>2. /\ events' \in Seq(Event) /\ Len(events') <= EventCapacity
        /\ validations' \in [Tokens -> [pending : BOOLEAN, slot : CacheSlots,
                                        left : Expired .. ValidationTtl]]
        /\ EventsNamed' /\ ValidationsReachable'
    BY <1>0, <2>1, PushForValidationKeeps
  <2>3. /\ seen' \in [SeenSlots -> [msg : Msgs \cup {NoMsg},
                                    left : Expired .. SeenTtl + HeartbeatInterval]]
        /\ age' \in [Msgs -> 0 .. Never] /\ evicted' \in BOOLEAN /\ SeenKept'
    BY <1>0, <2>1, CountedOn, SeenAddKeeps
  <2>4. /\ mcache' \in [CacheSlots -> [used : BOOLEAN, msg : Msgs \cup {NoMsg},
                                       window : 0 .. McacheLen, off : 0 .. McacheBytes]]
        /\ cells' \in [Cells -> Msgs \cup {NoMsg}]
        /\ dataUsed' \in 0 .. McacheBytes /\ mcacheNext' \in 0 .. Cycle - 1
        /\ CacheIntact' /\ EntriesNamed'
    BY <1>0, <2>1, McacheStoreKeeps
  <2>5. TypeOK'
    BY <1>0, <2>1, <2>2, <2>3, <2>4 DEF TypeOK, Event
  <2> QED
    BY <2>2, <2>3, <2>4, <2>5 DEF IInv
<1>5. CASE ReceiveAndForward(m)
  <2>1. /\ Size(m) <= McacheBytes /\ SeenAdd(m, 0, mcacheNext) /\ McacheStore(m)
        /\ Push(MessageEvent(m, NoToken)) /\ out' = m
        /\ UNCHANGED <<validations, held, untilHeartbeat>>
    BY <1>5 DEF ReceiveAndForward
  <2>2. MessageEvent(m, NoToken) \in Event /\ MessageEvent(m, NoToken).token = NoToken
    BY DEF MessageEvent, Event
  <2>3. events' \in Seq(Event) /\ Len(events') <= EventCapacity /\ EventsNamed'
    BY <1>0, <2>1, <2>2, PushKeeps
  <2>4. ValidationsReachable'
    BY <1>0, <2>1, <2>2, PushReaches
  <2>5. /\ seen' \in [SeenSlots -> [msg : Msgs \cup {NoMsg},
                                    left : Expired .. SeenTtl + HeartbeatInterval]]
        /\ age' \in [Msgs -> 0 .. Never] /\ evicted' \in BOOLEAN /\ SeenKept'
    BY <1>0, <2>1, CountedOn, SeenAddKeeps
  <2>6. /\ mcache' \in [CacheSlots -> [used : BOOLEAN, msg : Msgs \cup {NoMsg},
                                       window : 0 .. McacheLen, off : 0 .. McacheBytes]]
        /\ cells' \in [Cells -> Msgs \cup {NoMsg}]
        /\ dataUsed' \in 0 .. McacheBytes /\ mcacheNext' \in 0 .. Cycle - 1
        /\ CacheIntact' /\ EntriesNamed'
    BY <1>0, <2>1, McacheStoreKeeps
  <2>7. TypeOK'
    BY <1>0, <2>1, <2>3, <2>5, <2>6 DEF TypeOK, Event
  <2> QED
    BY <2>3, <2>4, <2>5, <2>6, <2>7 DEF IInv
<1> QED
  BY <1>1, <1>2, <1>3, <1>4, <1>5 DEF Receive

LEMMA PublishKeeps ==
    ASSUME IInv, NEW m \in Msgs, Publish(m)
    PROVE  IInv'
<1>1. /\ TypeOK /\ CacheIntact /\ EntriesNamed /\ ValidationsReachable /\ EventsNamed
      /\ SeenKept
  BY DEF IInv
<1>2. /\ Size(m) <= McacheBytes /\ McacheStore(m) /\ SeenAdd(m, untilHeartbeat, mcacheNext') /\ out' = m
      /\ UNCHANGED <<validations, events, held, untilHeartbeat>>
  BY DEF Publish
<1>3. untilHeartbeat \in 0 .. HeartbeatInterval /\ mcacheNext' \in Nat
  <2>1. mcacheNext' \in 0 .. Cycle - 1
    BY <1>1, <1>2, McacheStoreKeeps
  <2> QED
    BY <1>1, <2>1, CycleIs, Constants DEF TypeOK
<1>4. /\ seen' \in [SeenSlots -> [msg : Msgs \cup {NoMsg},
                                  left : Expired .. SeenTtl + HeartbeatInterval]]
      /\ age' \in [Msgs -> 0 .. Never] /\ evicted' \in BOOLEAN /\ SeenKept'
  BY <1>1, <1>2, <1>3, SeenAddKeeps
<1>5. /\ mcache' \in [CacheSlots -> [used : BOOLEAN, msg : Msgs \cup {NoMsg},
                                     window : 0 .. McacheLen, off : 0 .. McacheBytes]]
      /\ cells' \in [Cells -> Msgs \cup {NoMsg}]
      /\ dataUsed' \in 0 .. McacheBytes /\ mcacheNext' \in 0 .. Cycle - 1
      /\ CacheIntact' /\ EntriesNamed'
  BY <1>1, <1>2, McacheStoreKeeps
<1>6. TypeOK'
  BY <1>1, <1>2, <1>4, <1>5 DEF TypeOK
<1>7. ValidationsReachable' /\ EventsNamed'
  BY <1>1, <1>2 DEF ValidationsReachable, EventsNamed
<1> QED
  BY <1>4, <1>5, <1>6, <1>7 DEF IInv

\* The event the application takes is the one it can report with from then on.
LEMMA NextEventKeeps ==
    ASSUME IInv, NextEvent
    PROVE  IInv'
<1>1. /\ TypeOK /\ CacheIntact /\ EntriesNamed /\ ValidationsReachable /\ EventsNamed
      /\ SeenKept
  BY DEF IInv
<1>2. /\ events # <<>> /\ events' = Tail(events)
      /\ held' = (IF Head(events).token = NoToken THEN held ELSE held \cup {Head(events)})
      /\ out' = NoMsg
      /\ UNCHANGED <<seen, cacheVars, validations, untilHeartbeat, age, evicted>>
  BY DEF NextEvent
<1>3. /\ events \in Seq(Event) /\ Len(events) \in Nat \ {0} /\ Len(events) <= EventCapacity
      /\ Head(events) = events[1]
  BY <1>1, <1>2, LenProperties DEF TypeOK, Event
<1>4. /\ events' \in Seq(Event) /\ Len(events') = Len(events) - 1
      /\ \A i \in 1 .. Len(events) - 1 : events'[i] = events[i + 1]
  BY <1>2, <1>3, HeadTailProperties
<1>5. events[1] \in Event
  BY <1>3, ElementOfSeq
<1>6. events[1].token # NoToken => events[1] \in [msg : Msgs, token : Tokens]
  BY <1>1, <1>3, <1>5 DEF EventsNamed, Event
<1>7. held \subseteq held' /\ (events[1].token # NoToken => events[1] \in held')
  BY <1>2, <1>3
<1>8. held' \subseteq [msg : Msgs, token : Tokens]
  BY <1>1, <1>2, <1>3, <1>6 DEF TypeOK
<1>9. Len(events') <= EventCapacity
  BY <1>3, <1>4, Constants
<1>10. TypeOK'
  BY <1>1, <1>2, <1>4, <1>8, <1>9 DEF TypeOK, cacheVars, Event
<1>11. CacheIntact' /\ EntriesNamed'
  BY <1>1, <1>2 DEF CacheIntact, EntriesNamed, cacheVars
<1>12. EventsNamed'
  <2>1. ASSUME NEW i \in 1 .. Len(events'), events'[i].token # NoToken
        PROVE  events'[i].msg \in Msgs
    <3>1. i \in 1 .. Len(events) - 1 /\ i + 1 \in 1 .. Len(events)
      BY <1>3, <1>4
    <3>2. events'[i] = events[i + 1]
      BY <1>4, <3>1
    <3> QED
      BY <1>1, <2>1, <3>1, <3>2 DEF EventsNamed
  <2> QED
    BY <2>1 DEF EventsNamed
<1>13. ValidationsReachable'
  <2>1. ASSUME NEW t \in Tokens, validations'[t].pending
        PROVE  \/ \E i \in 1 .. Len(events') : events'[i].token = t
               \/ \E h \in held' : h.token = t
    <3>1. validations[t].pending
      BY <1>2, <2>1
    <3>2. CASE \E h \in held : h.token = t
      BY <1>7, <3>2
    <3>3. CASE \E i \in 1 .. Len(events) : events[i].token = t
      <4>1. PICK i \in 1 .. Len(events) : events[i].token = t
        BY <3>3
      <4>2. CASE i = 1
        BY <1>7, <4>1, <4>2, Constants
      <4>3. CASE i # 1
        <5>1. i - 1 \in 1 .. Len(events) - 1 /\ (i - 1) + 1 = i
          BY <1>3, <4>3
        <5>2. events'[i - 1] = events[i] /\ i - 1 \in 1 .. Len(events')
          BY <1>4, <5>1
        <5> QED
          BY <4>1, <5>2
      <4> QED
        BY <4>2, <4>3
    <3> QED
      BY <1>1, <3>1, <3>2, <3>3 DEF ValidationsReachable
  <2> QED
    BY <2>1 DEF ValidationsReachable
<1>14. SeenKept'
  BY <1>1, <1>2 DEF SeenKept
<1> QED
  BY <1>10, <1>11, <1>12, <1>13, <1>14 DEF IInv

\* A token leaves the application's hands only when its slot is not pending.
LEMMA ReportKeeps ==
    ASSUME IInv, NEW h \in held, ReportLate(h) \/ \E accept \in BOOLEAN : Report(h, accept)
    PROVE  IInv'
<1>1. /\ TypeOK /\ CacheIntact /\ EntriesNamed /\ ValidationsReachable /\ EventsNamed
      /\ SeenKept
  BY DEF IInv
<1>2. h.token \in Tokens
  BY <1>1 DEF TypeOK
<1>3. held' = held \ {h}
      /\ UNCHANGED <<seen, cacheVars, events, untilHeartbeat, age, evicted>>
  BY DEF ReportLate, Report
<1>4. /\ FreeToken \in [pending : BOOLEAN, slot : CacheSlots, left : Expired .. ValidationTtl]
      /\ ~FreeToken.pending
  BY Constants DEF FreeToken, CacheSlots, Expired
<1>5. /\ validations' \in [Tokens -> [pending : BOOLEAN, slot : CacheSlots,
                                      left : Expired .. ValidationTtl]]
      /\ ~validations'[h.token].pending
      /\ \A t \in Tokens : t # h.token => validations'[t] = validations[t]
  <2>1. CASE ReportLate(h)
    BY <1>1, <2>1 DEF ReportLate, TypeOK
  <2>2. CASE \E accept \in BOOLEAN : Report(h, accept)
    <3>1. validations' = [validations EXCEPT ![h.token] = FreeToken]
      BY <2>2 DEF Report
    <3> QED
      BY <1>1, <1>2, <1>4, <3>1 DEF TypeOK
  <2> QED
    BY <2>1, <2>2
<1>6. out' \in Msgs \cup {NoMsg}
  <2>1. CASE ReportLate(h)
    BY <2>1 DEF ReportLate
  <2>2. CASE \E accept \in BOOLEAN : Report(h, accept)
    <3>1. mcache[validations[h.token].slot].msg \in Msgs \cup {NoMsg}
      BY <1>1, <1>2 DEF TypeOK
    <3> QED
      BY <2>2, <3>1 DEF Report
  <2> QED
    BY <2>1, <2>2
<1>7. TypeOK'
  BY <1>1, <1>3, <1>5, <1>6 DEF TypeOK, cacheVars
<1>8. CacheIntact' /\ EntriesNamed'
  BY <1>1, <1>3 DEF CacheIntact, EntriesNamed, cacheVars
<1>9. EventsNamed' /\ SeenKept'
  BY <1>1, <1>3 DEF EventsNamed, SeenKept
<1>10. ASSUME NEW t \in Tokens, validations'[t].pending
       PROVE  \/ \E i \in 1 .. Len(events') : events'[i].token = t
              \/ \E k \in held' : k.token = t
  <2>1. t # h.token
    BY <1>5, <1>10
  <2>2. validations[t].pending
    BY <1>5, <1>10, <2>1
  <2>3. \A k \in held : k.token = t => k \in held'
    BY <1>3, <2>1
  <2> QED
    BY <1>1, <1>3, <2>2, <2>3 DEF ValidationsReachable
<1>11. ValidationsReachable'
  BY <1>10 DEF ValidationsReachable
<1> QED
  BY <1>7, <1>8, <1>9, <1>11 DEF IInv

LEMMA DriveBetweenKeeps ==
    ASSUME IInv, NEW elapsed \in 1 .. MaxElapsed, DriveBetween(elapsed)
    PROVE  IInv'
<1>1. /\ TypeOK /\ CacheIntact /\ EntriesNamed /\ ValidationsReachable /\ EventsNamed
      /\ SeenKept
  BY DEF IInv
<1>2. /\ elapsed < untilHeartbeat
      /\ seen' = [i \in SeenSlots |-> [seen[i] EXCEPT !.left = Less(seen[i].left, elapsed)]]
      /\ validations' = [t \in Tokens |->
                            [validations[t] EXCEPT !.left = Less(validations[t].left, elapsed)]]
      /\ age' = [m \in Msgs |-> More(age[m], elapsed)]
      /\ untilHeartbeat' = untilHeartbeat - elapsed /\ out' = NoMsg
      /\ UNCHANGED <<cacheVars, events, held, evicted>>
  BY DEF DriveBetween
<1>3. elapsed \in Nat /\ SeenTtl + HeartbeatInterval \in Nat /\ ValidationTtl \in Nat
  BY Constants
<1>4. ASSUME NEW i \in SeenSlots
      PROVE  /\ seen'[i] \in [msg : Msgs \cup {NoMsg},
                              left : Expired .. SeenTtl + HeartbeatInterval]
             /\ seen[i].left - elapsed >= 0 =>
                    seen'[i].msg = seen[i].msg /\ seen'[i].left = seen[i].left - elapsed
  <2>1. seen[i] \in [msg : Msgs \cup {NoMsg}, left : Expired .. SeenTtl + HeartbeatInterval]
    BY <1>1 DEF TypeOK
  <2>2. /\ Less(seen[i].left, elapsed) \in Expired .. SeenTtl + HeartbeatInterval
        /\ seen[i].left - elapsed >= 0 => Less(seen[i].left, elapsed) = seen[i].left - elapsed
    BY <1>3, <2>1, LessIs
  <2>3. seen'[i] = [seen[i] EXCEPT !.left = Less(seen[i].left, elapsed)]
    BY <1>2
  <2> QED
    BY <2>1, <2>2, <2>3
<1>5. ASSUME NEW t \in Tokens
      PROVE  /\ validations'[t] \in [pending : BOOLEAN, slot : CacheSlots,
                                     left : Expired .. ValidationTtl]
             /\ validations'[t].pending => validations[t].pending
  <2>1. validations[t] \in [pending : BOOLEAN, slot : CacheSlots, left : Expired .. ValidationTtl]
    BY <1>1 DEF TypeOK
  <2>2. Less(validations[t].left, elapsed) \in Expired .. ValidationTtl
    BY <1>3, <2>1, LessIs
  <2>3. validations'[t] = [validations[t] EXCEPT !.left = Less(validations[t].left, elapsed)]
    BY <1>2
  <2> QED
    BY <2>1, <2>2, <2>3
<1>6. seen' \in [SeenSlots -> [msg : Msgs \cup {NoMsg},
                               left : Expired .. SeenTtl + HeartbeatInterval]]
  BY <1>2, <1>4
<1>7. validations' \in [Tokens -> [pending : BOOLEAN, slot : CacheSlots,
                                   left : Expired .. ValidationTtl]]
  BY <1>2, <1>5
<1>8. age' \in [Msgs -> 0 .. Never] /\ SeenKept'
  BY <1>1, <1>2, <1>4, TimeKeeps
<1>9. untilHeartbeat' \in 1 .. HeartbeatInterval
  <2>1. untilHeartbeat \in 1 .. HeartbeatInterval
    BY <1>1 DEF TypeOK
  <2> QED
    BY <1>2, <1>3, <2>1, Constants
<1>10. TypeOK'
  BY <1>1, <1>2, <1>6, <1>7, <1>8, <1>9 DEF TypeOK, cacheVars
<1>11. CacheIntact' /\ EntriesNamed'
  BY <1>1, <1>2 DEF CacheIntact, EntriesNamed, cacheVars
<1>12. ValidationsReachable' /\ EventsNamed'
  BY <1>1, <1>2, <1>5 DEF ValidationsReachable, EventsNamed
<1> QED
  BY <1>8, <1>10, <1>11, <1>12 DEF IInv

\* The heartbeat takes entries, tokens and seen messages out; it moves no data.
LEMMA DriveHeartbeatKeeps ==
    ASSUME IInv, NEW elapsed \in 1 .. MaxElapsed, DriveHeartbeat(elapsed)
    PROVE  IInv'
<1>1. /\ TypeOK /\ CacheIntact /\ EntriesNamed /\ ValidationsReachable /\ EventsNamed
      /\ SeenKept
  BY DEF IInv
<1>2. /\ mcache' = [i \in CacheSlots |-> AgedEntry(mcache[i])]
      /\ seen' = [i \in SeenSlots |-> AgedSeen(seen[i], elapsed)]
      /\ validations' = [t \in Tokens |-> AgedToken(validations[t], elapsed)]
      /\ age' = [m \in Msgs |-> More(age[m], elapsed)]
      /\ untilHeartbeat' = HeartbeatInterval /\ out' = NoMsg
      /\ UNCHANGED <<cells, dataUsed, mcacheNext, events, held, evicted>>
  BY DEF DriveHeartbeat
<1>3. elapsed \in Nat /\ SeenTtl + HeartbeatInterval \in Nat /\ ValidationTtl \in Nat
  BY Constants
<1>4. ASSUME NEW i \in SeenSlots
      PROVE  /\ seen'[i] \in [msg : Msgs \cup {NoMsg},
                              left : Expired .. SeenTtl + HeartbeatInterval]
             /\ seen[i].left - elapsed >= 0 =>
                    seen'[i].msg = seen[i].msg /\ seen'[i].left = seen[i].left - elapsed
  <2>1. seen[i] \in [msg : Msgs \cup {NoMsg}, left : Expired .. SeenTtl + HeartbeatInterval]
    BY <1>1 DEF TypeOK
  <2>2. /\ Less(seen[i].left, elapsed) \in Expired .. SeenTtl + HeartbeatInterval
        /\ seen[i].left - elapsed >= 0 => Less(seen[i].left, elapsed) = seen[i].left - elapsed
    BY <1>3, <2>1, LessIs
  <2>3. seen'[i] = AgedSeen(seen[i], elapsed)
    BY <1>2
  <2>4. NoSeen \in [msg : Msgs \cup {NoMsg}, left : Expired .. SeenTtl + HeartbeatInterval]
    BY Constants DEF NoSeen, Expired
  <2>5. CASE Less(seen[i].left, elapsed) < 0
    <3>1. seen'[i] = NoSeen
      BY <2>3, <2>5 DEF AgedSeen
    <3>2. ~(seen[i].left - elapsed >= 0)
      BY <1>3, <2>1, <2>2, <2>5 DEF Expired
    <3> QED
      BY <2>4, <3>1, <3>2
  <2>6. CASE ~(Less(seen[i].left, elapsed) < 0)
    <3>1. seen'[i] = [seen[i] EXCEPT !.left = Less(seen[i].left, elapsed)]
      BY <2>3, <2>6 DEF AgedSeen
    <3> QED
      BY <2>1, <2>2, <3>1
  <2> QED
    BY <2>5, <2>6
<1>5. ASSUME NEW t \in Tokens
      PROVE  /\ validations'[t] \in [pending : BOOLEAN, slot : CacheSlots,
                                     left : Expired .. ValidationTtl]
             /\ validations'[t].pending => validations[t].pending
  <2>1. validations[t] \in [pending : BOOLEAN, slot : CacheSlots, left : Expired .. ValidationTtl]
    BY <1>1 DEF TypeOK
  <2>2. Less(validations[t].left, elapsed) \in Expired .. ValidationTtl
    BY <1>3, <2>1, LessIs
  <2>3. validations'[t] = AgedToken(validations[t], elapsed)
    BY <1>2
  <2>4. /\ FreeToken \in [pending : BOOLEAN, slot : CacheSlots, left : Expired .. ValidationTtl]
        /\ ~FreeToken.pending
    BY Constants DEF FreeToken, CacheSlots, Expired
  <2>5. CASE Less(validations[t].left, elapsed) < 0
    <3>1. validations'[t] = FreeToken
      BY <2>3, <2>5 DEF AgedToken
    <3> QED
      BY <2>4, <3>1
  <2>6. CASE ~(Less(validations[t].left, elapsed) < 0)
    <3>1. validations'[t] = [validations[t] EXCEPT !.left = Less(validations[t].left, elapsed)]
      BY <2>3, <2>6 DEF AgedToken
    <3> QED
      BY <2>1, <2>2, <3>1
  <2> QED
    BY <2>5, <2>6
<1>6. ASSUME NEW i \in CacheSlots
      PROVE  /\ mcache'[i] \in [used : BOOLEAN, msg : Msgs \cup {NoMsg},
                                window : 0 .. McacheLen, off : 0 .. McacheBytes]
             /\ mcache'[i].used => mcache[i].used
             /\ mcache'[i].msg = mcache[i].msg /\ mcache'[i].off = mcache[i].off
  <2>1. mcache[i] \in [used : BOOLEAN, msg : Msgs \cup {NoMsg},
                       window : 0 .. McacheLen, off : 0 .. McacheBytes]
    BY <1>1 DEF TypeOK
  <2>2. mcache'[i] = AgedEntry(mcache[i])
    BY <1>2
  <2>3. CASE ~mcache[i].used
    BY <2>1, <2>2, <2>3 DEF AgedEntry
  <2>4. CASE mcache[i].used /\ mcache[i].window >= McacheLen
    <3>1. mcache'[i] = [mcache[i] EXCEPT !.used = FALSE]
      BY <2>2, <2>4 DEF AgedEntry
    <3> QED
      BY <2>1, <2>4, <3>1
  <2>5. CASE mcache[i].used /\ ~(mcache[i].window >= McacheLen)
    <3>1. mcache'[i] = [mcache[i] EXCEPT !.window = mcache[i].window + 1]
      BY <2>2, <2>5 DEF AgedEntry
    <3>2. mcache[i].window + 1 \in 0 .. McacheLen
      BY <2>1, <2>5, Constants
    <3> QED
      BY <2>1, <2>5, <3>1, <3>2
  <2> QED
    BY <2>3, <2>4, <2>5
<1>7. seen' \in [SeenSlots -> [msg : Msgs \cup {NoMsg},
                               left : Expired .. SeenTtl + HeartbeatInterval]]
  BY <1>2, <1>4
<1>8. validations' \in [Tokens -> [pending : BOOLEAN, slot : CacheSlots,
                                   left : Expired .. ValidationTtl]]
  BY <1>2, <1>5
<1>9. mcache' \in [CacheSlots -> [used : BOOLEAN, msg : Msgs \cup {NoMsg},
                                  window : 0 .. McacheLen, off : 0 .. McacheBytes]]
  BY <1>2, <1>6
<1>10. age' \in [Msgs -> 0 .. Never] /\ SeenKept'
  BY <1>1, <1>2, <1>4, TimeKeeps
<1>11. untilHeartbeat' \in 1 .. HeartbeatInterval
  BY <1>2, Constants
<1>12. TypeOK'
  BY <1>1, <1>2, <1>7, <1>8, <1>9, <1>10, <1>11 DEF TypeOK
<1>13. CacheIntact' /\ EntriesNamed'
  BY <1>1, <1>2, <1>6 DEF CacheIntact, EntriesNamed
<1>14. ValidationsReachable' /\ EventsNamed'
  BY <1>1, <1>2, <1>5 DEF ValidationsReachable, EventsNamed
<1> QED
  BY <1>10, <1>12, <1>13, <1>14 DEF IInv

\* A step that changes nothing but what it queues for other peers.
LEMMA ServingKeeps ==
    ASSUME IInv, out' \in Msgs \cup {NoMsg},
           UNCHANGED <<seen, cacheVars, validations, events, held, untilHeartbeat, age, evicted>>
    PROVE  IInv'
<1>1. TypeOK'
  BY DEF IInv, TypeOK, cacheVars
<1>2. CacheIntact' /\ EntriesNamed'
  BY DEF IInv, CacheIntact, EntriesNamed, cacheVars
<1>3. ValidationsReachable' /\ EventsNamed' /\ SeenKept'
  BY DEF IInv, ValidationsReachable, EventsNamed, SeenKept
<1> QED
  BY <1>1, <1>2, <1>3 DEF IInv

LEMMA NextKeeps ==
    ASSUME IInv, [Next]_vars
    PROVE  IInv'
<1>1. ASSUME NEW m \in Msgs, Receive(m) PROVE IInv'
  BY <1>1, ReceiveKeeps
<1>2. ASSUME NEW m \in Msgs, Publish(m) PROVE IInv'
  BY <1>2, PublishKeeps
<1>3. ASSUME NEW m \in Msgs, ServeIwant(m) PROVE IInv'
  BY <1>3, ServingKeeps DEF ServeIwant
<1>4. CASE NextEvent
  BY <1>4, NextEventKeeps
<1>5. ASSUME NEW h \in held, ReportLate(h) \/ \E accept \in BOOLEAN : Report(h, accept)
      PROVE  IInv'
  BY <1>5, ReportKeeps
<1>6. ASSUME NEW elapsed \in 1 .. MaxElapsed, Drive(elapsed) PROVE IInv'
  BY <1>6, DriveBetweenKeeps, DriveHeartbeatKeeps DEF Drive
<1>7. CASE UNCHANGED vars
  <2>1. out' \in Msgs \cup {NoMsg}
    BY <1>7 DEF vars, IInv, TypeOK
  <2> QED
    BY <1>7, <2>1, ServingKeeps DEF vars
<1> QED
  BY <1>1, <1>2, <1>3, <1>4, <1>5, <1>6, <1>7 DEF Next

-----------------------------------------------------------------------------
(***************************************************************************)
(* The theorems.                                                           *)
(***************************************************************************)

\* Every reachable state of the router's tables satisfies the inductive invariant.
THEOREM Invariance == Spec => []IInv
<1>1. Init => IInv
  BY InitHolds
<1>2. IInv /\ [Next]_vars => IInv'
  BY NextKeeps
<1> QED
  BY <1>1, <1>2, PTL DEF Spec

\* Every variable keeps its type: the arena never fills past mcache_bytes and the
\* event ring never past event_capacity (gossipsub_mcache_store, gossipsub_push_event).
THEOREM TypeCorrect == Spec => []TypeOK
<1>1. IInv => TypeOK
  BY DEF IInv
<1> QED
  BY <1>1, Invariance, PTL

\* What gossipsub_mcache_find finds is the data that gossipsub_mcache_store wrote,
\* whatever the sizes of the ring, of the arena and of the messages.
THEOREM CacheServesWhatWasStored == Spec => []CacheIntact
<1>1. IInv => CacheIntact
  BY DEF IInv
<1> QED
  BY <1>1, Invariance, PTL

\* A pending validation slot can still be reported by the application: its token is
\* in the event ring or in the application's hands (gossipsub_alloc_validation,
\* gossipsub_push_event_or_drop, libp2p_gossipsub_report_validation).
THEOREM TokensReachable == Spec => []ValidationsReachable
<1>1. IInv => ValidationsReachable
  BY DEF IInv
<1> QED
  BY <1>1, Invariance, PTL

\* A new message is outside its window: inside it, the seen table has a live entry.
LEMMA NewIsOutsideWindow ==
    ASSUME IInv, NEW m \in Msgs, ~evicted, seen' # seen, Receive(m)
    PROVE  age[m] > SeenTtl - HeartbeatInterval
<1>1. TypeOK /\ SeenKept
  BY DEF IInv
<1>2. ~SeenContains(m)
  <2>1. ~ReceiveDuplicate(m)
    BY DEF ReceiveDuplicate
  <2> QED
    BY <2>1 DEF Receive, ReceiveUnwanted, ReceiveTooLarge, ReceiveForValidation,
                ReceiveAndForward
<1>3. SUFFICES ASSUME ~(age[m] > SeenTtl - HeartbeatInterval)
               PROVE  FALSE
  OBVIOUS
<1>4. age[m] \in Nat
  BY <1>1, NeverIs DEF TypeOK
<1>5. age[m] <= SeenTtl - HeartbeatInterval
  BY <1>3, <1>4, Constants
<1>6. PICK i \in SeenSlots : seen[i].msg = m /\ seen[i].left >= SeenTtl - age[m]
  BY <1>1, <1>5 DEF SeenKept
<1>7. seen[i].left \in Int
  BY <1>1, Constants DEF TypeOK, Expired
<1>8. seen[i].left >= 0
  BY <1>4, <1>5, <1>6, <1>7, Constants
<1> QED
  BY <1>2, <1>6, <1>8 DEF SeenContains

\* gossipsub_process_message does not take a message as new twice within
\* seen_ttl_us, up to the heartbeat interval by which libp2p_gossipsub_publish runs
\* ahead of the clock, unless a full seen table gave up a live entry.
THEOREM DuplicatesDetected == Spec => DuplicateWindow
<1>1. IInv /\ [Next]_vars =>
        [\A m \in Msgs : ~evicted /\ age'[m] = 0 /\ seen' # seen /\ Receive(m) =>
              age[m] > SeenTtl - HeartbeatInterval]_vars
  BY NewIsOutsideWindow
<1> QED
  BY <1>1, Invariance, PTL DEF Spec, DuplicateWindow

=============================================================================
