------------------------- MODULE QuicServiceProofs -------------------------
(***************************************************************************)
(* Proofs about QuicService, for every set of connections, every limit and *)
(* every size of the two event rings.                                      *)
(***************************************************************************)
EXTENDS QuicService, FiniteSetTheorems, SequenceTheorems, WellFoundedInduction, TLAPS

-----------------------------------------------------------------------------
(***************************************************************************)
(* The inductive invariant.  The endpoint is a record st as in the         *)
(* operators of QuicService, tr the service's table, ev its events.        *)
(***************************************************************************)

ConnRec == [st : {"none", "handshaking", "established", "closing", "closed"},
            role : Roles, fresh : BOOLEAN, closeReq : BOOLEAN]
AppRec == [known : BOOLEAN, told : BOOLEAN, lost : BOOLEAN, unheard : BOOLEAN]
EntryRec == [conn : Conns, incoming : BOOLEAN, established : BOOLEAN, accepted : BOOLEAN]
Endpoint == [conn : [Conns -> ConnRec], live : Seq(Conns), cursor : Nat, ring : Seq(Event),
             app : [Conns -> AppRec]]

InUse(st, c) == st.conn[c].role # "none"
Allocated(st, c) == st.conn[c] # NoObject
Once(t) == \A i, j \in 1 .. Len(t) : t[i].conn = t[j].conn => i = j

\* The live table is the registered connections, each once.
LiveTable(st) ==
    /\ \A i \in 1 .. Len(st.live) : InUse(st, st.live[i])
    /\ \A c \in Conns : InUse(st, c) => \E i \in 1 .. Len(st.live) : st.live[i] = c
    /\ \A i, j \in 1 .. Len(st.live) : st.live[i] = st.live[j] => i = j
    /\ st.cursor <= Len(st.live)

\* What is named is allocated.
Names(st, q) == \A i \in 1 .. Len(q) : Allocated(st, q[i].conn)

\* The number of ends of a connection under way or delivered.
Ends(st, ev, c) == EndsIn(st.ring, c) + EndsIn(ev, c) + (IF st.app[c].told THEN 1 ELSE 0)
EndsExact(st, ev) ==
    \A c \in Conns : Allocated(st, c) =>
        Ends(st, ev, c) = (IF InUse(st, c) \/ st.app[c].lost THEN 0 ELSE 1)

\* The end is the last a ring says of a connection.
EndsLast(q) ==
    \A i, j \in 1 .. Len(q) :
        (i < j /\ q[i].conn = q[j].conn /\ q[i].type = "closed") => q[j].type = "txready"

\* After its end has reached the service, nothing follows of a connection.
Over(st, tr, ev, c) ==
    /\ \A i \in 1 .. Len(st.ring) : st.ring[i].conn = c => st.ring[i].type = "txready"
    /\ \A i \in 1 .. Len(tr) : tr[i].conn # c
NothingAfter(st, tr, ev) ==
    /\ \A c \in Conns : (st.app[c].told \/ EndsIn(ev, c) > 0) => Over(st, tr, ev, c)
    /\ \A i \in 1 .. Len(ev) : ~st.app[ev[i].conn].told

\* What the application knows of an address, and of a connection in use.
AppExact(st) ==
    \A c \in Conns : /\ ~Allocated(st, c) => st.app[c] = Unknown
                     /\ InUse(st, c) => ~st.app[c].lost

Good(st, tr, ev) ==
    /\ st \in Endpoint /\ Len(st.live) <= MaxConns /\ Len(st.ring) <= RingCap
    /\ LiveTable(st)
    /\ Names(st, st.ring) /\ Names(st, tr) /\ Names(st, ev)
    /\ EndsExact(st, ev)
    /\ EndsLast(st.ring)
    /\ NothingAfter(st, tr, ev)
    /\ AppExact(st)

\* Of the service: no connection twice in the table, its events in order.
TablesGood ==
    /\ tracked \in Seq(EntryRec) /\ Len(tracked) <= MaxConns /\ Once(tracked)
    /\ events \in Seq(Event) /\ Len(events) <= EventCap /\ EndsLast(events)
    /\ \A i \in 1 .. Len(events) : events[i].type # "txready"

\* A close was requested, and nothing says that the request went unheard.
Asks(st, c) == InUse(st, c) /\ st.conn[c].closeReq /\ ~st.app[c].unheard
HasTx(q) == \E i \in 1 .. Len(q) : q[i].type = "txready"
Heard(st, S) == \A c \in S : Asks(st, c) => HasTx(st.ring)

\* The connection at round k of a pass over the live table, from round 0.
At(st, d, k) == st.live[((d.start + k) % Len(st.live)) + 1]
Visited(st, d) == {At(st, d, k) : k \in 0 .. d.idx - 1}

\* While a pass transmits there is a reason to; one that has neither sent nor been cut
\* short has left behind no request that is not announced.
PassGood ==
    /\ drive.pc \in {"write", "send"} => txPending
    /\ drive.pc = "write" => pend = None
    /\ (drive.pc = "write" /\ ~drive.sent /\ ~drive.cut) =>
         /\ drive.idx <= Len(live)
         /\ live # <<>> => drive.start < Len(live)
         /\ Heard(Now, Visited(Now, drive))

DriveGood ==
    /\ drive \in [pc : {"idle", "rx", "poll", "write", "send"}, idx : Nat, start : Nat,
                  sent : BOOLEAN, cut : BOOLEAN]
    /\ txPending \in BOOLEAN
    /\ ~txPending => Heard(Now, Conns)
    /\ pend # None => pend \in Conns /\ Allocated(Now, pend) /\ txPending
    /\ PassGood

IInv == Good(Now, tracked, events) /\ TablesGood /\ DriveGood

-----------------------------------------------------------------------------
(***************************************************************************)
(* Numbers, and the fold that drains the endpoint's ring.                  *)
(***************************************************************************)

LEMMA LeastNumber ==
    ASSUME NEW T, T \subseteq Nat, T # {}
    PROVE  \E n \in T : \A k \in T : n <= k
<1> DEFINE R == {ss \in Nat \X Nat : ss[1] < ss[2]}
<1>1. IsWellFoundedOn(R, Nat)
  BY NatLessThanWellFounded, Zenon DEF OpToRel
<1>2. \A x, y \in Nat : x < y => <<x, y>> \in R
  OBVIOUS
<1> HIDE DEF R
<1>3. PICK n \in T : \A k \in T : ~(<<k, n>> \in R)
  BY <1>1, WFMin
<1>4. \A k \in T : n <= k
  <2>1. SUFFICES ASSUME NEW k \in T, ~(n <= k)
                 PROVE  FALSE
    OBVIOUS
  <2>2. k < n
    BY <2>1
  <2> QED
    BY <1>2, <1>3, <2>2
<1> QED
  BY <1>4

LEMMA MaxIs ==
    ASSUME NEW s, NEW n \in s, s \subseteq Nat, \A k \in s : k <= n
    PROVE  Max(s) = n
<1>1. n \in s /\ \A y \in s : n >= y
  OBVIOUS
<1>2. ASSUME NEW x \in s, \A y \in s : x >= y
      PROVE  x = n
  <2>1. x >= n /\ n >= x /\ x \in Nat /\ n \in Nat
    BY <1>2
  <2> QED
    BY <2>1
<1> QED
  BY <1>1, <1>2, Zenon DEF Max

LEMMA PrefixOf ==
    ASSUME NEW n \in Nat, NEW k \in Nat, 1 <= k, k <= n
    PROVE  /\ 1 .. k \in SUBSET (1 .. n) /\ 1 .. k # {} /\ 1 .. k - 1 = (1 .. k) \ {k}
           /\ k \in 0 .. n /\ k - 1 \in 0 .. n
           /\ Max(1 .. k) = k
<1>1. 1 .. k \in SUBSET (1 .. n)
  OBVIOUS
<1>2. 1 .. k - 1 = (1 .. k) \ {k}
  OBVIOUS
<1>3. k \in 1 .. k /\ 1 .. k \subseteq Nat /\ \A j \in 1 .. k : j <= k
  OBVIOUS
<1>4. Max(1 .. k) = k
  BY <1>3, MaxIs
<1> QED
  BY <1>1, <1>2, <1>3, <1>4

(* g is the iteration of Translate over the first n events of q. *)
Iterates(g, base, q, n) ==
    g = [s \in SUBSET (1 .. n) |->
           IF s = {} THEN base ELSE Translate(g[s \ {Max(s)}], q[Max(s)])]

LEMMA IteratesNext ==
    ASSUME NEW base, NEW q, NEW n \in Nat, NEW g, Iterates(g, base, q, n)
    PROVE  \E h : Iterates(h, base, q, n + 1)
<1> DEFINE h == [s \in SUBSET (1 .. n + 1) |->
                   IF n + 1 \in s THEN Translate(g[s \ {n + 1}], q[n + 1]) ELSE g[s]]
           r == [s \in SUBSET (1 .. n + 1) |->
                   IF s = {} THEN base ELSE Translate(h[s \ {Max(s)}], q[Max(s)])]
<1>1. ASSUME NEW s \in SUBSET (1 .. n + 1)
      PROVE  h[s] = IF s = {} THEN base ELSE Translate(h[s \ {Max(s)}], q[Max(s)])
  <2>1. CASE n + 1 \in s
    <3>1. Max(s) = n + 1
      <4>1. s \subseteq Nat /\ \A k \in s : k <= n + 1
        OBVIOUS
      <4> QED
        BY <2>1, <4>1, MaxIs
    <3> DEFINE rest == s \ {n + 1}
    <3>2. rest \in SUBSET (1 .. n + 1) /\ n + 1 \notin rest
      OBVIOUS
    <3>3a. s # {}
      BY <2>1
    <3>3. h[s] = Translate(g[rest], q[n + 1])
      BY <2>1, Zenon DEF rest
    <3> HIDE DEF rest
    <3>4. h[rest] = g[rest]
      BY <3>2, Zenon
    <3> QED
      BY <3>1, <3>3, <3>3a, <3>4, Zenon DEF rest
  <2>2. CASE n + 1 \notin s
    <3>1. s \in SUBSET (1 .. n)
      BY <2>2
    <3>2. h[s] = g[s]
      BY <2>2
    <3>3. g[s] = IF s = {} THEN base ELSE Translate(g[s \ {Max(s)}], q[Max(s)])
      BY <3>1, Zenon DEF Iterates
    <3>4. s \ {Max(s)} \in SUBSET (1 .. n + 1) /\ n + 1 \notin s \ {Max(s)}
      BY <2>2
    <3>5. h[s \ {Max(s)}] = g[s \ {Max(s)}]
      BY <3>4
    <3> QED
      BY <3>2, <3>3, <3>5
  <2> QED
    BY <2>1, <2>2
<1>2. h = r
  <2> HIDE DEF h
  <2>1. \A s \in SUBSET (1 .. n + 1) : h[s] = r[s]
    BY <1>1, Zenon
  <2>2. h = [s \in SUBSET (1 .. n + 1) |-> h[s]]
    BY Zenon DEF h
  <2>3. r = [s \in SUBSET (1 .. n + 1) |-> r[s]]
    BY Zenon
  <2> QED
    BY <2>1, <2>2, <2>3, Zenon
<1> HIDE DEF h
<1> QED
  BY <1>2, Zenon DEF Iterates

LEMMA Iterable ==
    ASSUME NEW base, NEW q, NEW n \in Nat
    PROVE  \E g : Iterates(g, base, q, n)
<1> DEFINE Fails == {k \in Nat : ~\E g : Iterates(g, base, q, k)}
<1>1. 0 \notin Fails
  <2> DEFINE g == [s \in SUBSET (1 .. 0) |-> base]
             r == [s \in SUBSET (1 .. 0) |->
                     IF s = {} THEN base ELSE Translate(g[s \ {Max(s)}], q[Max(s)])]
  <2>1. \A s \in SUBSET (1 .. 0) : s = {}
    OBVIOUS
  <2>2. g = r
    BY <2>1, Zenon
  <2> QED
    BY <2>2, Zenon DEF Iterates
<1>2. SUFFICES ASSUME Fails # {} PROVE FALSE
  BY Zenon
<1>3. PICK k \in Fails : \A j \in Fails : k <= j
  BY <1>2, LeastNumber
<1>4. k \in Nat /\ k # 0
  BY <1>1, <1>3
<1>5. k - 1 \in Nat /\ ~(k <= k - 1) /\ (k - 1) + 1 = k
  BY <1>4
<1>6. PICK g : Iterates(g, base, q, k - 1)
  BY <1>3, <1>5
<1>7. \E h : Iterates(h, base, q, k)
  BY <1>5, <1>6, IteratesNext
<1> QED
  BY <1>3, <1>7

(* A fold of Translate runs through the events one by one. *)
Runs(p, base, q) ==
    /\ p[0] = base
    /\ \A k \in 1 .. Len(q) : p[k] = Translate(p[k - 1], q[k])
    /\ FoldLeft(Translate, base, q) = p[Len(q)]

LEMMA FoldRuns ==
    ASSUME NEW base, NEW q \in Seq(Event)
    PROVE  \E p : Runs(p, base, q)
<1>1. DOMAIN q = 1 .. Len(q) /\ Len(q) \in Nat
  OBVIOUS
<1> DEFINE g == CHOOSE g : g = [s \in SUBSET (1 .. Len(q)) |->
                   IF s = {} THEN base ELSE Translate(g[s \ {Max(s)}], q[Max(s)])]
           p == [k \in 0 .. Len(q) |-> g[1 .. k]]
<1>2. FoldLeft(Translate, base, q) = g[1 .. Len(q)]
  BY <1>1, Zenon DEF FoldLeft, MapThenFoldSet
<1>3. Iterates(g, base, q, Len(q))
  <2>1. \E f : Iterates(f, base, q, Len(q))
    BY <1>1, Iterable
  <2> QED
    BY <2>1, Zenon DEF Iterates
<1> HIDE DEF g
<1>4. \A s \in SUBSET (1 .. Len(q)) :
        g[s] = IF s = {} THEN base ELSE Translate(g[s \ {Max(s)}], q[Max(s)])
  BY <1>3, Zenon DEF Iterates
<1>5. p[0] = base
  <2>1. 1 .. 0 = {} /\ 0 \in 0 .. Len(q) /\ {} \in SUBSET (1 .. Len(q))
    BY <1>1
  <2>2. g[{}] = base
    BY <1>4, <2>1, Zenon
  <2>3. p[0] = g[1 .. 0]
    BY <2>1
  <2> QED
    BY <2>1, <2>2, <2>3
<1>6. ASSUME NEW k \in 1 .. Len(q)
      PROVE  p[k] = Translate(p[k - 1], q[k])
  <2>0. k \in Nat /\ 1 <= k /\ k <= Len(q)
    BY <1>1
  <2>1. /\ 1 .. k \in SUBSET (1 .. Len(q)) /\ 1 .. k # {} /\ 1 .. k - 1 = (1 .. k) \ {k}
        /\ k \in 0 .. Len(q) /\ k - 1 \in 0 .. Len(q)
    BY <1>1, <2>0, PrefixOf
  <2>2. Max(1 .. k) = k
    BY <2>0, PrefixOf
  <2>3. g[1 .. k] = Translate(g[(1 .. k) \ {k}], q[k])
    BY <1>4, <2>1, <2>2, Zenon
  <2>4. p[k] = g[1 .. k] /\ p[k - 1] = g[1 .. k - 1]
    BY <2>1, Zenon
  <2> QED
    BY <2>1, <2>3, <2>4, Zenon
<1>7. p[Len(q)] = g[1 .. Len(q)]
  BY <1>1
<1> HIDE DEF p
<1>8. Runs(p, base, q)
  BY <1>2, <1>5, <1>6, <1>7, Zenon DEF Runs
<1> QED
  BY <1>8, Zenon

-----------------------------------------------------------------------------
(***************************************************************************)
(* Sequences: the swap of a table's last entry, and how many ends a ring   *)
(* holds.                                                                  *)
(***************************************************************************)

LEMMA SwapOutIs ==
    ASSUME NEW T, NEW s \in Seq(T), NEW i \in 1 .. Len(s)
    PROVE  /\ SwapOut(s, i) \in Seq(T)
           /\ Len(SwapOut(s, i)) = Len(s) - 1
           /\ \A k \in 1 .. Len(s) - 1 : SwapOut(s, i)[k] = IF k = i THEN s[Len(s)] ELSE s[k]
<1> DEFINE r == [s EXCEPT ![i] = s[Len(s)]]
<1>1. Len(s) \in Nat /\ Len(s) \in 1 .. Len(s) /\ s[Len(s)] \in T
  OBVIOUS
<1>2. r \in Seq(T) /\ Len(r) = Len(s) /\ \A k \in 1 .. Len(s) : r[k] = IF k = i THEN s[Len(s)] ELSE s[k]
  BY <1>1
<1>3. SwapOut(s, i) = SubSeq(r, 1, Len(s) - 1)
  BY Zenon DEF SwapOut, Last
<1> HIDE DEF r
<1> QED
  BY <1>1, <1>2, <1>3

EndSet(q, c) == {i \in 1 .. Len(q) : q[i] = [type |-> "closed", conn |-> c]}

LEMMA EndSetIs ==
    ASSUME NEW q \in Seq(Event), NEW c \in Conns
    PROVE  /\ EndsIn(q, c) = Cardinality(EndSet(q, c))
           /\ EndSet(q, c) = {i \in 1 .. Len(q) : q[i].type = "closed" /\ q[i].conn = c}
           /\ IsFiniteSet(EndSet(q, c))
<1>1. ASSUME NEW i \in 1 .. Len(q)
      PROVE  q[i] = [type |-> "closed", conn |-> c] <=> q[i].type = "closed" /\ q[i].conn = c
  <2>1. q[i] \in Event
    OBVIOUS
  <2> QED
    BY <2>1 DEF Event
<1>2. IsFiniteSet(1 .. Len(q)) /\ EndSet(q, c) \subseteq 1 .. Len(q)
  BY FS_Interval DEF EndSet
<1> QED
  BY <1>1, <1>2, FS_Subset DEF EndsIn, EndSet

LEMMA EndsZero ==
    ASSUME NEW q \in Seq(Event), NEW c \in Conns
    PROVE  /\ EndsIn(q, c) \in Nat
           /\ EndsIn(q, c) = 0 <=> \A i \in 1 .. Len(q) : ~(q[i].type = "closed" /\ q[i].conn = c)
<1>1. EndsIn(q, c) = Cardinality(EndSet(q, c)) /\ IsFiniteSet(EndSet(q, c))
  BY EndSetIs
<1>2. Cardinality(EndSet(q, c)) \in Nat /\ (Cardinality(EndSet(q, c)) = 0 <=> EndSet(q, c) = {})
  BY <1>1, FS_CardinalityType, FS_EmptySet
<1>3. EndSet(q, c) = {} <=> \A i \in 1 .. Len(q) : ~(q[i].type = "closed" /\ q[i].conn = c)
  <2>1. EndSet(q, c) = {i \in 1 .. Len(q) : q[i].type = "closed" /\ q[i].conn = c}
    BY EndSetIs
  <2> QED
    BY <2>1
<1> QED
  BY <1>1, <1>2, <1>3

LEMMA EndsAppend ==
    ASSUME NEW q \in Seq(Event), NEW e \in Event, NEW c \in Conns
    PROVE  EndsIn(Append(q, e), c)
             = EndsIn(q, c) + (IF e.type = "closed" /\ e.conn = c THEN 1 ELSE 0)
<1> DEFINE r == Append(q, e)
           n == Len(q) + 1
<1>1. r \in Seq(Event) /\ Len(r) = n /\ r[n] = e /\ \A i \in 1 .. Len(q) : r[i] = q[i]
  OBVIOUS
<1>2. EndSet(q, c) = {i \in 1 .. Len(q) : q[i].type = "closed" /\ q[i].conn = c}
  BY EndSetIs
<1>3. EndSet(r, c) = {i \in 1 .. n : r[i].type = "closed" /\ r[i].conn = c}
  BY <1>1, EndSetIs
<1>4. 1 .. n = 1 .. Len(q) \cup {n} /\ n \notin 1 .. Len(q)
  OBVIOUS
<1>5. /\ EndsIn(q, c) = Cardinality(EndSet(q, c)) /\ EndsIn(r, c) = Cardinality(EndSet(r, c))
      /\ IsFiniteSet(EndSet(q, c))
  BY <1>1, EndSetIs
<1>6. Cardinality(EndSet(q, c)) \in Nat
  BY <1>5, FS_CardinalityType
<1> HIDE DEF r, n
<1>7. CASE e.type = "closed" /\ e.conn = c
  <2>1. EndSet(r, c) = EndSet(q, c) \cup {n} /\ n \notin EndSet(q, c)
    BY <1>1, <1>2, <1>3, <1>4, <1>7
  <2>2. Cardinality(EndSet(r, c)) = Cardinality(EndSet(q, c)) + 1
    BY <1>5, <2>1, FS_AddElement
  <2> QED
    BY <1>5, <1>7, <2>2 DEF r
<1>8. CASE ~(e.type = "closed" /\ e.conn = c)
  <2>1. EndSet(r, c) = EndSet(q, c)
    BY <1>1, <1>2, <1>3, <1>4, <1>8
  <2> QED
    BY <1>5, <1>6, <1>8, <2>1 DEF r
<1> QED
  BY <1>7, <1>8

\* Without the first n events, of which only the last may be the end of c.
LEMMA EndsRest ==
    ASSUME NEW q \in Seq(Event), NEW n \in 1 .. Len(q), NEW c \in Conns,
           \A j \in 1 .. n - 1 : ~(q[j].type = "closed" /\ q[j].conn = c)
    PROVE  EndsIn(q, c) = EndsIn(SubSeq(q, n + 1, Len(q)), c)
                            + (IF q[n].type = "closed" /\ q[n].conn = c THEN 1 ELSE 0)
<1> DEFINE r == SubSeq(q, n + 1, Len(q))
           m == Len(q) - n
           U == {i \in 1 .. Len(q) : n < i /\ q[i].type = "closed" /\ q[i].conn = c}
           f == [i \in EndSet(r, c) |-> i + n]
<1>1. m \in Nat /\ n \in Nat /\ Len(q) \in Nat
  OBVIOUS
<1>2. r \in Seq(Event) /\ Len(r) = m /\ \A i \in 1 .. m : r[i] = q[i + n]
  OBVIOUS
<1>3. EndSet(q, c) = {i \in 1 .. Len(q) : q[i].type = "closed" /\ q[i].conn = c}
  BY EndSetIs
<1>4. EndSet(r, c) = {i \in 1 .. m : r[i].type = "closed" /\ r[i].conn = c}
  BY <1>2, EndSetIs
<1>5. /\ EndsIn(q, c) = Cardinality(EndSet(q, c)) /\ EndsIn(r, c) = Cardinality(EndSet(r, c))
      /\ IsFiniteSet(EndSet(q, c)) /\ IsFiniteSet(EndSet(r, c))
  BY <1>2, EndSetIs
<1> HIDE DEF r
<1>6. f \in Bijection(EndSet(r, c), U)
  <2>1. \A i \in EndSet(r, c) : i \in 1 .. m /\ i + n \in U
    <3>1. SUFFICES ASSUME NEW i \in EndSet(r, c)
                   PROVE  i \in 1 .. m /\ i + n \in U
      OBVIOUS
    <3>2. i \in 1 .. m /\ r[i].type = "closed" /\ r[i].conn = c /\ r[i] = q[i + n]
      BY <1>2, <1>4
    <3>3. i + n \in 1 .. Len(q) /\ n < i + n
      BY <1>1, <3>2
    <3> QED
      BY <3>2, <3>3
  <2>2. \A k \in U : k - n \in EndSet(r, c) /\ k = (k - n) + n
    <3>1. SUFFICES ASSUME NEW k \in U
                   PROVE  k - n \in EndSet(r, c) /\ k = (k - n) + n
      OBVIOUS
    <3>2. k \in Nat /\ n < k /\ k <= Len(q) /\ q[k].type = "closed" /\ q[k].conn = c
      BY <1>1
    <3>3. k - n \in 1 .. m /\ k = (k - n) + n
      BY <1>1, <3>2
    <3>4. r[k - n] = q[k]
      BY <1>2, <3>3
    <3> QED
      BY <1>4, <3>2, <3>3, <3>4
  <2>3. f \in [EndSet(r, c) -> U]
    BY <2>1
  <2>4. \A i, j \in EndSet(r, c) : f[i] = f[j] => i = j
    BY <1>1, <2>1
  <2>5. \A k \in U : \E i \in EndSet(r, c) : f[i] = k
    BY <2>2
  <2> HIDE DEF f, U
  <2> QED
    BY <2>3, <2>4, <2>5 DEF Bijection, Injection, Surjection, IsInjective
<1>7. IsFiniteSet(U) /\ Cardinality(U) = Cardinality(EndSet(r, c)) /\ Cardinality(U) \in Nat
  <2>1. ExistsBijection(EndSet(r, c), U)
    BY <1>6 DEF ExistsBijection
  <2> QED
    BY <1>5, <2>1, FS_Bijection, FS_CardinalityType
<1>8. \A i \in 1 .. Len(q) : (q[i].type = "closed" /\ q[i].conn = c) => n <= i
  BY <1>1
<1>9. CASE q[n].type = "closed" /\ q[n].conn = c
  <2>1. EndSet(q, c) = U \cup {n} /\ n \notin U
    BY <1>1, <1>3, <1>8, <1>9
  <2> HIDE DEF U
  <2>2. Cardinality(EndSet(q, c)) = Cardinality(U) + 1
    BY <1>7, <2>1, FS_AddElement
  <2> QED
    BY <1>5, <1>7, <1>9, <2>2 DEF r
<1>10. CASE ~(q[n].type = "closed" /\ q[n].conn = c)
  <2>1. EndSet(q, c) = U
    BY <1>1, <1>3, <1>8, <1>10
  <2> HIDE DEF U
  <2> QED
    BY <1>5, <1>7, <1>10, <2>1 DEF r
<1> QED
  BY <1>9, <1>10

-----------------------------------------------------------------------------
(***************************************************************************)
(* Operators of the endpoint: what each makes of the record, and that it   *)
(* keeps the invariant and announced requests.                             *)
(***************************************************************************)

LEMMA Sizes == MaxConns \in Nat \ {0} /\ RingCap \in Nat \ {0} /\ EventCap \in Nat \ {0} /\ None \notin Conns
BY QuicServiceAssumption

Keeps(st, nx, tr, ev) ==
    /\ Good(nx, tr, ev)
    /\ \A S \in SUBSET Conns : Heard(st, S) => Heard(nx, S)

LEMMA KeepsBoth ==
    ASSUME NEW st, NEW nx, NEW ny, NEW tr, NEW ev, Keeps(st, nx, tr, ev), Keeps(nx, ny, tr, ev)
    PROVE  Keeps(st, ny, tr, ev)
BY DEF Keeps

LEMMA KeepsItself ==
    ASSUME NEW st, NEW tr, NEW ev, Good(st, tr, ev)
    PROVE  Keeps(st, st, tr, ev)
BY DEF Keeps

\* The record of the application's view after a push to a full ring.
Refused(a, type, asks) == [a EXCEPT !.lost = @ \/ type = "closed",
                                    !.unheard = @ \/ (type = "txready" /\ asks)]

An(type, c) == [type |-> type, conn |-> c]

LEMMA AnEvent ==
    ASSUME NEW type \in EventTypes, NEW c \in Conns
    PROVE  An(type, c) \in Event /\ An(type, c).type = type /\ An(type, c).conn = c
BY DEF An, Event

LEMMA EventPushAppends ==
    ASSUME NEW st \in Endpoint, NEW c \in Conns, NEW type \in EventTypes, Len(st.ring) # RingCap
    PROVE  EventPush(st, type, c).st.ring = Append(st.ring, An(type, c))
BY DEF EventPush, Done, An, Endpoint

\* What a push does.
Pushed(st, o, c, type) ==
    /\ o.st \in Endpoint
    /\ o.st.conn = st.conn /\ o.st.live = st.live /\ o.st.cursor = st.cursor
    /\ Len(st.ring) = RingCap =>
         /\ o.ok = FALSE /\ o.st.ring = st.ring
         /\ o.st.app = [st.app EXCEPT ![c] = Refused(st.app[c], type, st.conn[c].closeReq)]
    /\ Len(st.ring) # RingCap =>
         o.ok = TRUE /\ o.st.app = st.app

LEMMA EventPushIs ==
    ASSUME NEW st \in Endpoint, NEW c \in Conns, NEW type \in EventTypes
    PROVE  Pushed(st, EventPush(st, type, c), c, type)
<1> USE DEF EventPush, Failed, Done, Endpoint
<1>1. CASE Len(st.ring) = RingCap
  <2>1. st.app[c] \in AppRec /\ st.conn[c].closeReq \in BOOLEAN
    BY DEF ConnRec
  <2>2. Refused(st.app[c], type, st.conn[c].closeReq) \in AppRec
    BY <2>1 DEF AppRec, Refused
  <2>3. EventPush(st, type, c).st =
          [st EXCEPT !.app = [st.app EXCEPT ![c] = Refused(st.app[c], type, st.conn[c].closeReq)]]
    BY <1>1, <2>1 DEF Refused, AppRec
  <2> QED
    BY <1>1, <2>2, <2>3, SMTT(20) DEF Pushed
<1>2. CASE Len(st.ring) # RingCap
  <2>1. An(type, c) \in Event
    BY AnEvent
  <2>2. Append(st.ring, An(type, c)) \in Seq(Event)
    BY <2>1
  <2>3. EventPush(st, type, c).st = [st EXCEPT !.ring = Append(st.ring, An(type, c))]
    BY <1>2 DEF An
  <2>4. EventPush(st, type, c).ok = TRUE
    BY <1>2
  <2> HIDE DEF EventPush
  <2> QED
    BY <1>2, <2>2, <2>3, <2>4 DEF Pushed
<1> QED
  BY <1>1, <1>2

\* The invariant looks at a connection only for whether it is in use and allocated, and
\* at the application's view only for the end.
LEMMA GoodFrame ==
    ASSUME NEW st, NEW nx \in Endpoint, NEW tr \in Seq(EntryRec), NEW ev \in Seq(Event),
           Good(st, tr, ev),
           nx.live = st.live, nx.cursor = st.cursor, nx.ring = st.ring,
           \A d \in Conns :
             /\ InUse(nx, d) <=> InUse(st, d)
             /\ Allocated(nx, d) <=> Allocated(st, d)
             /\ nx.app[d].told = st.app[d].told /\ nx.app[d].lost = st.app[d].lost
             /\ ~Allocated(st, d) => nx.app[d] = st.app[d]
    PROVE  Good(nx, tr, ev)
<1>1. /\ \A i \in 1 .. Len(st.live) : st.live[i] \in Conns
      /\ \A i \in 1 .. Len(st.ring) : st.ring[i].conn \in Conns
      /\ \A i \in 1 .. Len(tr) : tr[i].conn \in Conns
      /\ \A i \in 1 .. Len(ev) : ev[i].conn \in Conns
  <2>1. st.live \in Seq(Conns) /\ st.ring \in Seq(Event)
    BY DEF Good, Endpoint
  <2>2. \A i \in 1 .. Len(tr) : tr[i] \in EntryRec
    OBVIOUS
  <2>3. \A i \in 1 .. Len(ev) : ev[i] \in Event
    OBVIOUS
  <2>4. \A i \in 1 .. Len(st.ring) : st.ring[i] \in Event
    BY <2>1
  <2>5. \A i \in 1 .. Len(st.live) : st.live[i] \in Conns
    BY <2>1
  <2> QED
    BY <2>2, <2>3, <2>4, <2>5 DEF Event, EntryRec
<1>2. LiveTable(nx)
  BY <1>1 DEF Good, LiveTable
<1>3. Names(nx, nx.ring) /\ Names(nx, tr) /\ Names(nx, ev)
  BY <1>1 DEF Good, Names
<1>4. EndsExact(nx, ev)
  BY DEF Good, EndsExact, Ends
<1>5. NothingAfter(nx, tr, ev)
  BY <1>1, ZenonT(60) DEF Good, NothingAfter, Over
<1>6. AppExact(nx)
  BY DEF Good, AppExact
<1> QED
  BY <1>2, <1>3, <1>4, <1>5, <1>6 DEF Good

\* No end of a connection in use is under way.
LEMMA InUseNotEnded ==
    ASSUME NEW st \in Endpoint, NEW tr, NEW ev \in Seq(Event), Good(st, tr, ev),
           NEW c \in Conns, InUse(st, c)
    PROVE  /\ Allocated(st, c) /\ ~st.app[c].told /\ ~st.app[c].lost
           /\ EndsIn(st.ring, c) = 0 /\ EndsIn(ev, c) = 0
           /\ \A i \in 1 .. Len(st.ring) : ~(st.ring[i].type = "closed" /\ st.ring[i].conn = c)
<1>1. Allocated(st, c) /\ ~st.app[c].lost
  BY DEF Good, AppExact, Allocated, InUse, NoObject
<1>2. Ends(st, ev, c) = 0
  BY <1>1 DEF Good, EndsExact
<1>3. EndsIn(st.ring, c) \in Nat /\ EndsIn(ev, c) \in Nat
  BY EndsZero DEF Endpoint
<1>4. ~st.app[c].told /\ EndsIn(st.ring, c) = 0 /\ EndsIn(ev, c) = 0
  BY <1>2, <1>3 DEF Ends
<1> QED
  BY <1>1, <1>4, EndsZero DEF Endpoint

\* One more event in the ring that is not an end.
LEMMA GoodAppend ==
    ASSUME NEW st \in Endpoint, NEW nx \in Endpoint, NEW tr, NEW ev \in Seq(Event),
           Good(st, tr, ev), NEW e \in Event,
           nx.conn = st.conn, nx.live = st.live, nx.cursor = st.cursor, nx.app = st.app,
           nx.ring = Append(st.ring, e), Len(st.ring) # RingCap,
           Allocated(st, e.conn), e.type # "closed", e.type = "txready" \/ InUse(st, e.conn)
    PROVE  Good(nx, tr, ev)
<1> DEFINE n == Len(st.ring) + 1
<1>1. /\ st.ring \in Seq(Event) /\ Len(nx.ring) = n /\ nx.ring[n] = e /\ n \in 1 .. n
      /\ \A i \in 1 .. Len(st.ring) : nx.ring[i] = st.ring[i]
      /\ \A i \in 1 .. n : i = n \/ i \in 1 .. Len(st.ring)
      /\ e.conn \in Conns
  BY DEF Endpoint, Event
<1>2. Len(nx.ring) <= RingCap /\ Len(nx.live) <= MaxConns
  BY <1>1, Sizes DEF Good, Endpoint
<1>3. LiveTable(nx)
  BY DEF Good, LiveTable, InUse
<1> HIDE DEF n
<1>4. Names(nx, nx.ring) /\ Names(nx, tr) /\ Names(nx, ev)
  BY <1>1 DEF Good, Names, Allocated
<1>5. EndsExact(nx, ev)
  <2>1. \A c \in Conns : EndsIn(nx.ring, c) = EndsIn(st.ring, c)
    BY <1>1, EndsAppend, EndsZero
  <2> QED
    BY <2>1 DEF Good, EndsExact, Ends, Allocated, InUse
<1>6. EndsLast(nx.ring)
  <2> SUFFICES ASSUME NEW i \in 1 .. n, NEW j \in 1 .. n, i < j,
                      nx.ring[i].conn = nx.ring[j].conn, nx.ring[i].type = "closed"
               PROVE  nx.ring[j].type = "txready"
    BY <1>1 DEF EndsLast
  <2>1. i \in 1 .. Len(st.ring)
    BY DEF n
  <2>2. CASE j = n
    BY <1>1, <2>1, <2>2, InUseNotEnded
  <2>3. CASE j \in 1 .. Len(st.ring)
    BY <1>1, <2>1, <2>3 DEF Good, EndsLast
  <2> QED
    BY <1>1, <2>2, <2>3
<1>7. NothingAfter(nx, tr, ev)
  <2>1. ASSUME NEW c \in Conns, st.app[c].told \/ EndsIn(ev, c) > 0
        PROVE  Over(nx, tr, ev, c)
    <3>1. Over(st, tr, ev, c)
      BY <2>1 DEF Good, NothingAfter
    <3>2. ~InUse(st, c)
      BY <2>1, InUseNotEnded
    <3> QED
      BY <1>1, <3>1, <3>2 DEF Over
  <2> QED
    BY <2>1 DEF Good, NothingAfter
<1>8. AppExact(nx)
  BY DEF Good, AppExact, Allocated, InUse
<1> QED
  BY <1>2, <1>3, <1>4, <1>5, <1>6, <1>7, <1>8 DEF Good

\* o is the outcome of a push that keeps the invariant and whatever was announced.
PushKept(st, o, tr, ev, c, type) ==
    /\ o.st \in Endpoint /\ o.ok \in BOOLEAN
    /\ Keeps(st, o.st, tr, ev)
    /\ o.st.conn = st.conn /\ o.st.live = st.live /\ o.st.cursor = st.cursor
    /\ type = "txready" => Heard(o.st, {c})

\* quic_backend_event_push of anything but an end
LEMMA PushKeeps ==
    ASSUME NEW st \in Endpoint, NEW tr \in Seq(EntryRec), NEW ev \in Seq(Event), Good(st, tr, ev),
           NEW c \in Conns, NEW type \in EventTypes \ {"closed"},
           Allocated(st, c), type = "txready" \/ InUse(st, c)
    PROVE  PushKept(st, EventPush(st, type, c), tr, ev, c, type)
<1> DEFINE o == EventPush(st, type, c)
           nx == o.st
           e == An(type, c)
<1>1. /\ nx \in Endpoint /\ nx.conn = st.conn /\ nx.live = st.live /\ nx.cursor = st.cursor
      /\ Len(st.ring) = RingCap =>
           /\ o.ok = FALSE /\ nx.ring = st.ring
           /\ nx.app = [st.app EXCEPT ![c] = Refused(st.app[c], type, st.conn[c].closeReq)]
      /\ Len(st.ring) # RingCap =>
           /\ o.ok = TRUE /\ nx.app = st.app
           /\ nx.ring = Append(st.ring, e)
  <2>1. type \in EventTypes
    OBVIOUS
  <2>2. Pushed(st, o, c, type)
    BY <2>1, EventPushIs
  <2>3. Len(st.ring) # RingCap => nx.ring = Append(st.ring, e)
    BY <2>1, EventPushAppends
  <2> HIDE DEF o, nx
  <2> QED
    BY <2>2, <2>3 DEF Pushed, nx
<1>2. e \in Event /\ e.type = type /\ e.conn = c /\ st.ring \in Seq(Event) /\ st.app \in [Conns -> AppRec]
  BY AnEvent DEF Endpoint
<1> HIDE DEF o, nx, e
<1>3. CASE Len(st.ring) = RingCap
  <2>1. /\ st.app[c] \in AppRec /\ nx.app[c] = Refused(st.app[c], type, st.conn[c].closeReq)
        /\ \A d \in Conns : d # c => nx.app[d] = st.app[d]
    BY <1>1, <1>2, <1>3
  <2>2. /\ nx.app[c].told = st.app[c].told /\ nx.app[c].lost = st.app[c].lost
        /\ nx.app[c].unheard = (st.app[c].unheard \/ (type = "txready" /\ st.conn[c].closeReq))
    BY <2>1 DEF Refused, AppRec
  <2>3. Good(nx, tr, ev)
    <3>1. \A d \in Conns : (InUse(nx, d) <=> InUse(st, d)) /\ (Allocated(nx, d) <=> Allocated(st, d))
      BY <1>1 DEF InUse, Allocated
    <3> QED
      BY <1>1, <1>3, <2>1, <2>2, <3>1, GoodFrame
  <2>4. \A d \in Conns : Asks(nx, d) => Asks(st, d)
    BY <1>1, <2>1, <2>2 DEF Asks, InUse
  <2>5. type = "txready" => Heard(nx, {c})
    BY <1>1, <2>2 DEF Heard, Asks
  <2>6. \A S \in SUBSET Conns : Heard(st, S) => Heard(nx, S)
    BY <1>1, <1>3, <2>4 DEF Heard
  <2> QED
    BY <1>1, <1>3, <2>3, <2>5, <2>6 DEF PushKept, Keeps, o, nx
<1>4. CASE Len(st.ring) # RingCap
  <2>1. Good(nx, tr, ev)
    BY <1>1, <1>2, <1>4, GoodAppend
  <2>2. /\ HasTx(st.ring) => HasTx(nx.ring)
        /\ type = "txready" => HasTx(nx.ring)
    <3>1. /\ Len(nx.ring) = Len(st.ring) + 1 /\ nx.ring[Len(st.ring) + 1] = e /\ Len(st.ring) \in Nat
          /\ \A i \in 1 .. Len(st.ring) : nx.ring[i] = st.ring[i]
      BY <1>1, <1>2, <1>4
    <3>2. Len(st.ring) + 1 \in 1 .. Len(nx.ring) /\ 1 .. Len(st.ring) \subseteq 1 .. Len(nx.ring)
      BY <3>1
    <3>3. Len(st.ring) + 1 \in 1 .. Len(nx.ring) /\ nx.ring[Len(st.ring) + 1].type = type
      BY <1>2, <3>1, <3>2
    <3>4. HasTx(st.ring) => HasTx(nx.ring)
      BY <3>1, <3>2 DEF HasTx
    <3>5. type = "txready" => HasTx(nx.ring)
      BY <3>3, Zenon DEF HasTx
    <3> QED
      BY <3>4, <3>5
  <2>3. \A d \in Conns : Asks(nx, d) => Asks(st, d)
    BY <1>1, <1>4 DEF Asks, InUse
  <2>4. type = "txready" => Heard(nx, {c})
    BY <2>2 DEF Heard
  <2>5. \A S \in SUBSET Conns : Heard(st, S) => Heard(nx, S)
    BY <2>2, <2>3 DEF Heard
  <2> QED
    BY <1>1, <1>4, <2>1, <2>4, <2>5 DEF PushKept, Keeps, o, nx
<1> QED
  BY <1>3, <1>4

\* Another state of a connection that stays allocated, and in use or not.
LEMMA ConnKeeps ==
    ASSUME NEW st \in Endpoint, NEW tr \in Seq(EntryRec), NEW ev \in Seq(Event), Good(st, tr, ev),
           NEW c \in Conns, NEW r \in ConnRec, r.role = st.conn[c].role, r # NoObject,
           Allocated(st, c),
           NEW nx, nx = [st EXCEPT !.conn[c] = r]
    PROVE  /\ nx \in Endpoint /\ Good(nx, tr, ev)
           /\ nx.live = st.live /\ nx.cursor = st.cursor
           /\ Allocated(nx, c) /\ (InUse(nx, c) <=> InUse(st, c))
           /\ r.closeReq = st.conn[c].closeReq => Keeps(st, nx, tr, ev)
           /\ \A d \in Conns \ {c} : Asks(nx, d) <=> Asks(st, d)
           /\ nx.ring = st.ring
<1>1. /\ nx \in Endpoint /\ nx.live = st.live /\ nx.cursor = st.cursor /\ nx.ring = st.ring
      /\ nx.app = st.app /\ nx.conn[c] = r /\ \A d \in Conns \ {c} : nx.conn[d] = st.conn[d]
  BY DEF Endpoint
<1>2. \A d \in Conns : (InUse(nx, d) <=> InUse(st, d)) /\ (Allocated(nx, d) <=> Allocated(st, d))
  <2>1. SUFFICES ASSUME NEW d \in Conns
                 PROVE  (InUse(nx, d) <=> InUse(st, d)) /\ (Allocated(nx, d) <=> Allocated(st, d))
    OBVIOUS
  <2>2. CASE d = c
    BY <1>1, <2>2 DEF InUse, Allocated
  <2>3. CASE d # c
    BY <1>1, <2>3 DEF InUse, Allocated
  <2> QED
    BY <2>2, <2>3
<1>3. Good(nx, tr, ev)
  BY <1>1, <1>2, GoodFrame
<1>4. \A d \in Conns \ {c} : Asks(nx, d) <=> Asks(st, d)
  BY <1>1 DEF Asks, InUse
<1>5. ASSUME r.closeReq = st.conn[c].closeReq
      PROVE  Keeps(st, nx, tr, ev)
  <2>1. \A d \in Conns : Asks(nx, d) <=> Asks(st, d)
    BY <1>1, <1>4, <1>5 DEF Asks, InUse
  <2> QED
    BY <1>1, <1>3, <2>1 DEF Keeps, Heard
<1> QED
  BY <1>1, <1>2, <1>3, <1>4, <1>5

\* o is the outcome of a request to close c.
CloseKept(st, o, tr, ev, c) ==
    /\ o.st \in Endpoint /\ o.ok \in BOOLEAN
    /\ Keeps(st, o.st, tr, ev)
    /\ o.st.live = st.live /\ o.st.cursor = st.cursor
    /\ Heard(o.st, {c})
    /\ \A d \in Conns : Allocated(st, d) => Allocated(o.st, d)

\* quic_backend_conn_close
LEMMA RequestCloseKeeps ==
    ASSUME NEW st \in Endpoint, NEW tr \in Seq(EntryRec), NEW ev \in Seq(Event), Good(st, tr, ev),
           NEW c \in Conns, Allocated(st, c)
    PROVE  CloseKept(st, RequestClose(st, c), tr, ev, c)
<1> DEFINE r == [st.conn[c] EXCEPT !.st = "closing", !.closeReq = TRUE]
           nx == [st EXCEPT !.conn[c] = r]
           o == EventPush(nx, "txready", c)
<1>1. RequestClose(st, c) = o
  <2>1. nx = [st EXCEPT !.conn[c].st = "closing", !.conn[c].closeReq = TRUE]
    BY DEF Endpoint, ConnRec
  <2> QED
    BY <2>1 DEF RequestClose
<1>2. r \in ConnRec /\ r.role = st.conn[c].role /\ r # NoObject
  BY DEF Endpoint, ConnRec, NoObject
<1> HIDE DEF r
<1>3. /\ nx \in Endpoint /\ Good(nx, tr, ev) /\ nx.live = st.live /\ nx.cursor = st.cursor
      /\ Allocated(nx, c) /\ nx.ring = st.ring
      /\ \A d \in Conns \ {c} : Asks(nx, d) <=> Asks(st, d)
  BY <1>2, ConnKeeps
<1>4. "txready" \in EventTypes \ {"closed"}
  BY DEF EventTypes
<1>5. \A d \in Conns : Allocated(st, d) => Allocated(nx, d)
  BY <1>2 DEF Allocated, Endpoint
<1> HIDE DEF nx
<1>6. /\ o.st \in Endpoint /\ o.ok \in BOOLEAN /\ Keeps(nx, o.st, tr, ev)
      /\ o.st.conn = nx.conn /\ o.st.live = nx.live /\ o.st.cursor = nx.cursor
      /\ Heard(o.st, {c})
  <2>1. PICK type : type = "txready"
    OBVIOUS
  <2>2. PushKept(nx, EventPush(nx, type, c), tr, ev, c, type)
    BY <1>3, <1>4, <2>1, PushKeeps
  <2>3. o = EventPush(nx, type, c)
    BY <2>1
  <2> HIDE DEF o
  <2> QED
    BY <2>1, <2>2, <2>3 DEF PushKept
<1> HIDE DEF o
<1>7. ASSUME NEW S \in SUBSET Conns, Heard(st, S)
      PROVE  Heard(o.st, S)
  <2>1. Heard(nx, S \ {c})
    BY <1>3, <1>7 DEF Heard
  <2>2. Heard(o.st, S \ {c})
    BY <1>6, <2>1 DEF Keeps
  <2> QED
    BY <1>6, <2>2 DEF Heard
<1>8. Keeps(st, o.st, tr, ev)
  BY <1>6, <1>7 DEF Keeps
<1>9. \A d \in Conns : Allocated(st, d) => Allocated(o.st, d)
  BY <1>5, <1>6 DEF Allocated
<1> QED
  BY <1>1, <1>3, <1>6, <1>8, <1>9 DEF CloseKept

\* quic_backend_handshake_completed_cb
LEMMA HandshakeKeeps ==
    ASSUME NEW st \in Endpoint, NEW tr \in Seq(EntryRec), NEW ev \in Seq(Event), Good(st, tr, ev),
           NEW c \in Conns, InUse(st, c)
    PROVE  LET o == HandshakeCompleted(st, c)
           IN /\ o.st \in Endpoint /\ o.ok \in BOOLEAN
              /\ Keeps(st, o.st, tr, ev)
              /\ o.st.live = st.live /\ o.st.cursor = st.cursor
              /\ InUse(o.st, c)
<1> DEFINE r == [st.conn[c] EXCEPT !.st = "established", !.fresh = FALSE]
           nx == [st EXCEPT !.conn[c] = r]
           o == EventPush(nx, "established", c)
<1>1. HandshakeCompleted(st, c) = o
  <2>1. nx = [st EXCEPT !.conn[c].st = "established", !.conn[c].fresh = FALSE]
    BY DEF Endpoint, ConnRec
  <2> QED
    BY <2>1 DEF HandshakeCompleted
<1>2. /\ r \in ConnRec /\ r.role = st.conn[c].role /\ r # NoObject
      /\ r.closeReq = st.conn[c].closeReq
  BY DEF Endpoint, ConnRec, NoObject
<1>3. Allocated(st, c)
  BY InUseNotEnded
<1> HIDE DEF r
<1>4. /\ nx \in Endpoint /\ Good(nx, tr, ev) /\ nx.live = st.live /\ nx.cursor = st.cursor
      /\ Allocated(nx, c) /\ InUse(nx, c) /\ Keeps(st, nx, tr, ev)
  BY <1>2, <1>3, ConnKeeps
<1>5. "established" \in EventTypes \ {"closed"}
  BY DEF EventTypes
<1> HIDE DEF nx
<1>6. /\ o.st \in Endpoint /\ o.ok \in BOOLEAN /\ Keeps(nx, o.st, tr, ev)
      /\ o.st.conn = nx.conn /\ o.st.live = nx.live /\ o.st.cursor = nx.cursor
  <2>1. PICK type : type = "established"
    OBVIOUS
  <2>2. PushKept(nx, EventPush(nx, type, c), tr, ev, c, type)
    BY <1>4, <1>5, <2>1, PushKeeps
  <2>3. o = EventPush(nx, type, c)
    BY <2>1
  <2> HIDE DEF o
  <2> QED
    BY <2>2, <2>3 DEF PushKept
<1> HIDE DEF o
<1>7. Keeps(st, o.st, tr, ev)
  BY <1>4, <1>6, KeepsBoth
<1> QED
  BY <1>1, <1>4, <1>6, <1>7 DEF InUse

\* A push and what it returns.
LEMMA PushShape ==
    ASSUME NEW st, NEW type, NEW c
    PROVE  EventPush(st, type, c) = [st |-> EventPush(st, type, c).st, ok |-> EventPush(st, type, c).ok]
<1>1. CASE Len(st.ring) = RingCap
  BY <1>1 DEF EventPush, Failed
<1>2. CASE Len(st.ring) # RingCap
  BY <1>2 DEF EventPush, Done
<1> QED
  BY <1>1, <1>2

LEMMA PushOk ==
    ASSUME NEW st \in Endpoint, NEW c \in Conns, NEW type \in EventTypes
    PROVE  EventPush(st, type, c).ok = (Len(st.ring) # RingCap)
BY DEF EventPush, Done, Failed

LEMMA PushConn ==
    ASSUME NEW st \in Endpoint, NEW c \in Conns, NEW type \in EventTypes
    PROVE  EventPush(st, type, c).st.conn = st.conn
BY EventPushIs DEF Pushed

LEMMA PushLive ==
    ASSUME NEW st \in Endpoint, NEW c \in Conns, NEW type \in EventTypes
    PROVE  EventPush(st, type, c).st.live = st.live
BY EventPushIs DEF Pushed

LEMMA PushCursor ==
    ASSUME NEW st \in Endpoint, NEW c \in Conns, NEW type \in EventTypes
    PROVE  EventPush(st, type, c).st.cursor = st.cursor
BY EventPushIs DEF Pushed

LEMMA PushRing ==
    ASSUME NEW st \in Endpoint, NEW c \in Conns, NEW type \in EventTypes
    PROVE  EventPush(st, type, c).st.ring =
             (IF Len(st.ring) = RingCap THEN st.ring ELSE Append(st.ring, An(type, c)))
<1>1. CASE Len(st.ring) = RingCap
  BY <1>1, EventPushIs DEF Pushed
<1>2. CASE Len(st.ring) # RingCap
  BY <1>2, EventPushAppends
<1> QED
  BY <1>1, <1>2

LEMMA PushApp ==
    ASSUME NEW st \in Endpoint, NEW c \in Conns, NEW type \in EventTypes
    PROVE  EventPush(st, type, c).st.app =
             (IF Len(st.ring) = RingCap
              THEN [st.app EXCEPT ![c] = Refused(st.app[c], type, st.conn[c].closeReq)]
              ELSE st.app)
<1>1. CASE Len(st.ring) = RingCap
  BY <1>1, EventPushIs DEF Pushed
<1>2. CASE Len(st.ring) # RingCap
  BY <1>2, EventPushIs DEF Pushed
<1> QED
  BY <1>1, <1>2

\* nx is st after the end of c, entry i of the live table.
ClosedTo(st, nx, c, i) ==
    /\ nx \in Endpoint
    /\ nx.live = SwapOut(st.live, i) /\ nx.cursor <= Len(st.live) - 1
    /\ nx.conn[c].st = "closed" /\ nx.conn[c].role = "none"
    /\ \A d \in Conns \ {c} : nx.conn[d] = st.conn[d] /\ nx.app[d] = st.app[d]
    /\ nx.app[c].told = st.app[c].told
    /\ nx.app[c].lost = (st.app[c].lost \/ Len(st.ring) = RingCap)
    /\ Len(st.ring) = RingCap => nx.ring = st.ring
    /\ Len(st.ring) # RingCap => nx.ring = Append(st.ring, An("closed", c))

\* quic_backend_conn_mark_closed
LEMMA MarkClosedIs ==
    ASSUME NEW st \in Endpoint, NEW c \in Conns, NEW i \in 1 .. Len(st.live), st.live[i] = c,
           \A j \in 1 .. Len(st.live) : st.live[j] = c => j = i, st.cursor <= Len(st.live),
           NEW nx, nx = MarkClosed(st, c).st
    PROVE  ClosedTo(st, nx, c, i) /\ MarkClosed(st, c).ok = (Len(st.ring) # RingCap)
<1> DEFINE r1 == [st.conn[c] EXCEPT !.st = "closed"]
           s1 == [st EXCEPT !.conn[c] = r1]
           ty == "closed"
           o == EventPush(s1, ty, c)
           count == Len(st.live) - 1
<1>0. r1 \in ConnRec /\ r1.st = "closed"
  BY ZenonT(60) DEF Endpoint, ConnRec
<1>0a. s1 = [st EXCEPT !.conn[c].st = "closed"]
  BY DEF Endpoint, ConnRec
<1> HIDE DEF r1
<1>1. /\ s1 \in Endpoint /\ s1.live = st.live /\ s1.cursor = st.cursor /\ s1.ring = st.ring
      /\ s1.app = st.app /\ s1.conn[c] = r1
      /\ \A d \in Conns \ {c} : s1.conn[d] = st.conn[d]
  BY <1>0 DEF Endpoint
<1>2. ty \in EventTypes
  BY DEF EventTypes
<1>3. MarkClosed(st, c).ok = o.ok /\ nx = Retire(o.st, c)
  <2>1. o = [st |-> o.st, ok |-> o.ok]
    BY PushShape
  <2>2. MarkClosed(st, c) = [o EXCEPT !.st = Retire(o.st, c)]
    BY <1>0a, Zenon DEF MarkClosed
  <2> HIDE DEF o
  <2> QED
    BY <2>1, <2>2
<1> HIDE DEF s1, ty
<1>4z. s1 \in Endpoint
  BY <1>1
<1> DEFINE t == o.st
<1>4. /\ t \in Endpoint
      /\ t.conn = s1.conn /\ t.live = s1.live /\ t.cursor = s1.cursor
      /\ Len(s1.ring) = RingCap =>
           /\ o.ok = FALSE /\ t.ring = s1.ring
           /\ t.app = [s1.app EXCEPT ![c] = Refused(s1.app[c], ty, s1.conn[c].closeReq)]
      /\ Len(s1.ring) # RingCap =>
           o.ok = TRUE /\ t.app = s1.app /\ t.ring = Append(s1.ring, An(ty, c))
  <2>0. t \in Endpoint
    BY <1>4z, <1>2, EventPushIs DEF Pushed
  <2>1. t.conn = s1.conn /\ t.live = s1.live /\ t.cursor = s1.cursor
    BY <1>4z, <1>2, PushConn, PushLive, PushCursor
  <2>2. o.ok = (Len(s1.ring) # RingCap)
    BY <1>4z, <1>2, PushOk
  <2>3. t.ring = IF Len(s1.ring) = RingCap THEN s1.ring ELSE Append(s1.ring, An(ty, c))
    BY <1>4z, <1>2, PushRing
  <2>4. t.app = IF Len(s1.ring) = RingCap
                THEN [s1.app EXCEPT ![c] = Refused(s1.app[c], ty, s1.conn[c].closeReq)]
                ELSE s1.app
    BY <1>4z, <1>2, PushApp
  <2> HIDE DEF o, t
  <2> QED
    BY <2>0, <2>1, <2>2, <2>3, <2>4
<1> HIDE DEF o, t
<1>6. i = CHOOSE k \in 1 .. Len(t.live) : t.live[k] = c
  <2>1. t.live = st.live
    BY <1>1, <1>4
  <2> QED
    BY <2>1
<1>7. /\ t.conn \in [Conns -> ConnRec] /\ t.app \in [Conns -> AppRec] /\ t.ring \in Seq(Event)
      /\ t.live \in Seq(Conns) /\ t.cursor \in Nat /\ t.live = st.live /\ t.cursor = st.cursor
  BY <1>1, <1>4 DEF Endpoint
<1> DEFINE cur == IF count = 0 THEN 0 ELSE IF t.cursor > i - 1 THEN t.cursor - 1
                  ELSE IF t.cursor >= count THEN 0 ELSE t.cursor
           rc == [t.conn[c] EXCEPT !.role = "none", !.fresh = FALSE]
           ra == [t.app[c] EXCEPT !.unheard = FALSE]
<1>8. nx = [t EXCEPT !.live = SwapOut(t.live, i), !.cursor = cur,
                     !.conn[c].role = "none", !.conn[c].fresh = FALSE, !.app[c].unheard = FALSE]
  BY <1>3, <1>6, <1>7, Zenon DEF Retire, t
<1>9. SwapOut(t.live, i) \in Seq(Conns)
  BY <1>7, SwapOutIs
<1>10. cur \in Nat /\ cur <= count
  BY <1>7
<1>11. t \in Endpoint
  BY <1>4
<1> HIDE DEF cur, count
<1>12a. nx = [t EXCEPT !.live = SwapOut(t.live, i), !.cursor = cur,
                       !.conn = [t.conn EXCEPT ![c] = rc], !.app = [t.app EXCEPT ![c] = ra]]
  <2>1. t.conn[c] \in ConnRec /\ t.app[c] \in AppRec
    BY <1>7
  <2>2. rc = [[t.conn[c] EXCEPT !.role = "none"] EXCEPT !.fresh = FALSE]
    BY <2>1 DEF ConnRec
  <2>3. [t EXCEPT !.live = SwapOut(t.live, i), !.cursor = cur, !.conn[c].role = "none"]
          = [t EXCEPT !.live = SwapOut(t.live, i), !.cursor = cur,
                      !.conn = [t.conn EXCEPT ![c] = [t.conn[c] EXCEPT !.role = "none"]]]
    BY <1>7, <1>11, <2>1 DEF Endpoint
  <2>4. [t EXCEPT !.live = SwapOut(t.live, i), !.cursor = cur, !.conn[c].role = "none", !.conn[c].fresh = FALSE]
          = [t EXCEPT !.live = SwapOut(t.live, i), !.cursor = cur,
                      !.conn = [t.conn EXCEPT ![c] = rc]]
    BY <1>7, <1>11, <2>1 DEF Endpoint
  <2> QED
    BY <1>7, <1>8, <1>11, <2>1, <2>4 DEF Endpoint
<1>12. /\ nx.live = SwapOut(t.live, i) /\ nx.cursor = cur /\ nx.ring = t.ring
       /\ nx.conn = [t.conn EXCEPT ![c] = rc]
       /\ nx.app = [t.app EXCEPT ![c] = ra]
       /\ nx = [conn |-> nx.conn, live |-> nx.live, cursor |-> nx.cursor, ring |-> nx.ring, app |-> nx.app]
  <2> HIDE DEF rc, ra
  <2> QED
    BY <1>11, <1>12a DEF Endpoint
<1>13. t.conn[c] \in ConnRec /\ t.app[c] \in AppRec
  BY <1>7
<1>14. /\ [t.conn[c] EXCEPT !.role = "none", !.fresh = FALSE] \in ConnRec
       /\ [t.app[c] EXCEPT !.unheard = FALSE] \in AppRec
  BY <1>13 DEF ConnRec, AppRec, Roles
<1>15. nx.conn \in [Conns -> ConnRec] /\ nx.app \in [Conns -> AppRec]
  BY <1>7, <1>12, <1>14
<1>16. nx \in Endpoint
  BY <1>7, <1>9, <1>10, <1>12, <1>15 DEF Endpoint
<1>17. /\ nx.conn[c].st = t.conn[c].st /\ nx.conn[c].role = "none"
       /\ nx.app[c].told = t.app[c].told /\ nx.app[c].lost = t.app[c].lost
       /\ \A d \in Conns \ {c} : nx.conn[d] = t.conn[d] /\ nx.app[d] = t.app[d]
  BY <1>7, <1>12, <1>13 DEF ConnRec, AppRec
<1>18. /\ t.conn = s1.conn
       /\ t.app[c].told = st.app[c].told
       /\ t.app[c].lost = (st.app[c].lost \/ Len(st.ring) = RingCap)
       /\ \A d \in Conns \ {c} : t.app[d] = st.app[d]
  <2>1. st.app[c] \in AppRec /\ st.app \in [Conns -> AppRec]
    BY DEF Endpoint
  <2>2. CASE Len(st.ring) = RingCap
    <3>1. t.app = [st.app EXCEPT ![c] = Refused(st.app[c], "closed", s1.conn[c].closeReq)]
      BY <1>1, <1>4, <2>2 DEF ty
    <3>2. t.app[c] = Refused(st.app[c], "closed", s1.conn[c].closeReq)
      BY <2>1, <3>1
    <3>3. t.app[c].told = st.app[c].told /\ t.app[c].lost
      BY <2>1, <3>2 DEF Refused, AppRec
    <3> QED
      BY <1>4, <2>1, <2>2, <3>1, <3>3 DEF AppRec
  <2>3. CASE Len(st.ring) # RingCap
    <3>1. t.conn = s1.conn /\ t.app = st.app
      BY <1>1, <1>4, <2>3
    <3>2. st.app[c].lost \in BOOLEAN
      BY <2>1 DEF AppRec
    <3> QED
      BY <2>3, <3>1, <3>2
  <2> QED
    BY <2>2, <2>3
<1>19. MarkClosed(st, c).ok = (Len(st.ring) # RingCap)
  BY <1>1, <1>3, <1>4
<1>20. /\ Len(st.ring) = RingCap => nx.ring = st.ring
       /\ Len(st.ring) # RingCap => nx.ring = Append(st.ring, An("closed", c))
  BY <1>1, <1>4, <1>12 DEF ty
<1>21. nx.live = SwapOut(st.live, i) /\ nx.cursor <= Len(st.live) - 1
  BY <1>7, <1>10, <1>12 DEF count
<1>22. nx.conn[c].st = "closed" /\ nx.conn[c].role = "none"
  BY <1>0, <1>1, <1>17, <1>18
<1>23. \A d \in Conns \ {c} : nx.conn[d] = st.conn[d] /\ nx.app[d] = st.app[d]
  BY <1>1, <1>17, <1>18
<1>24. /\ nx.app[c].told = st.app[c].told
       /\ nx.app[c].lost = (st.app[c].lost \/ Len(st.ring) = RingCap)
  BY <1>17, <1>18
<1> QED
  BY <1>16, <1>19, <1>20, <1>21, <1>22, <1>23, <1>24 DEF ClosedTo

\* The live table without the connection that ended.
LEMMA LiveTableShrinks ==
    ASSUME NEW st \in Endpoint, NEW nx \in Endpoint, NEW c \in Conns, LiveTable(st), InUse(st, c),
           NEW i \in 1 .. Len(st.live), st.live[i] = c,
           nx.live = SwapOut(st.live, i), nx.cursor <= Len(st.live) - 1, ~InUse(nx, c),
           \A d \in Conns \ {c} : nx.conn[d] = st.conn[d]
    PROVE  LiveTable(nx) /\ Len(nx.live) = Len(st.live) - 1
<1> DEFINE n == Len(st.live)
           new == nx.live
<1>1. /\ new \in Seq(Conns) /\ Len(new) = n - 1 /\ n \in Nat /\ i \in Nat
      /\ \A k \in 1 .. n - 1 : new[k] = IF k = i THEN st.live[n] ELSE st.live[k]
  <2>1. st.live \in Seq(Conns) /\ n \in Nat /\ i \in Nat
    BY DEF Endpoint
  <2>2. /\ SwapOut(st.live, i) \in Seq(Conns) /\ Len(SwapOut(st.live, i)) = n - 1
        /\ \A k \in 1 .. n - 1 : SwapOut(st.live, i)[k] = IF k = i THEN st.live[n] ELSE st.live[k]
    BY <2>1, SwapOutIs
  <2> QED
    BY <2>1, <2>2
<1>2. /\ \A k \in 1 .. n : st.live[k] \in Conns /\ InUse(st, st.live[k])
      /\ \A d \in Conns : InUse(st, d) => \E k \in 1 .. n : st.live[k] = d
      /\ \A j, k \in 1 .. n : st.live[j] = st.live[k] => j = k
  BY DEF LiveTable, Endpoint
<1>3. \A d \in Conns \ {c} : InUse(nx, d) <=> InUse(st, d)
  BY DEF InUse
<1> HIDE DEF n, new
<1>4. \A k \in 1 .. n - 1 : \E j \in 1 .. n : /\ new[k] = st.live[j] /\ j # i
                                              /\ (k = i => j = n) /\ (k # i => j = k)
  <2>1. SUFFICES ASSUME NEW k \in 1 .. n - 1
                 PROVE  \E j \in 1 .. n : /\ new[k] = st.live[j] /\ j # i
                                          /\ (k = i => j = n) /\ (k # i => j = k)
    OBVIOUS
  <2>2. CASE k = i
    <3>1. n \in 1 .. n /\ n # i /\ new[k] = st.live[n]
      BY <1>1, <2>2
    <3> QED
      BY <2>2, <3>1
  <2>3. CASE k # i
    <3>1. k \in 1 .. n /\ new[k] = st.live[k]
      BY <1>1, <2>3
    <3> QED
      BY <2>3, <3>1
  <2> QED
    BY <2>2, <2>3
<1>5. i \in 1 .. n
  BY DEF n
<1>6. \A k \in 1 .. Len(new) : InUse(nx, new[k])
  <2>1. SUFFICES ASSUME NEW k \in 1 .. n - 1
                 PROVE  InUse(nx, new[k])
    BY <1>1
  <2>2. PICK j \in 1 .. n : new[k] = st.live[j] /\ j # i
    BY <1>4
  <2>3. st.live[j] # c
    BY <1>2, <1>5, <2>2
  <2> QED
    BY <1>2, <1>3, <2>2, <2>3
<1>7. ASSUME NEW d \in Conns, InUse(nx, d)
      PROVE  \E k \in 1 .. Len(new) : new[k] = d
  <2>1. d # c /\ InUse(st, d)
    BY <1>3, <1>7
  <2>2. PICK j \in 1 .. n : st.live[j] = d
    BY <1>2, <2>1
  <2>3. j # i
    BY <2>1, <2>2
  <2>4. CASE j = n
    <3>1. i \in 1 .. n - 1 /\ new[i] = d
      BY <1>1, <1>5, <2>2, <2>3, <2>4
    <3> QED
      BY <1>1, <3>1
  <2>5. CASE j # n
    <3>1. j \in 1 .. n - 1 /\ new[j] = d
      BY <1>1, <2>2, <2>3, <2>5
    <3> QED
      BY <1>1, <3>1
  <2> QED
    BY <2>4, <2>5
<1>8. ASSUME NEW k \in 1 .. n - 1, NEW l \in 1 .. n - 1, new[k] = new[l]
      PROVE  k = l
  <2>1. PICK j \in 1 .. n : new[k] = st.live[j] /\ (k = i => j = n) /\ (k # i => j = k)
    BY <1>4
  <2>2. PICK m \in 1 .. n : new[l] = st.live[m] /\ (l = i => m = n) /\ (l # i => m = l)
    BY <1>4
  <2>3. j = m
    BY <1>2, <1>8, <2>1, <2>2
  <2> QED
    BY <1>1, <2>1, <2>2, <2>3
<1>9. nx.cursor <= Len(new)
  BY <1>1 DEF n
<1> QED
  BY <1>1, <1>6, <1>7, <1>8, <1>9 DEF LiveTable, new, n

LEMMA AppendIs ==
    ASSUME NEW q \in Seq(Event), NEW e \in Event
    PROVE  /\ Append(q, e) \in Seq(Event) /\ Len(Append(q, e)) = Len(q) + 1
           /\ Append(q, e)[Len(q) + 1] = e /\ Len(q) + 1 \in 1 .. Len(q) + 1
           /\ \A k \in 1 .. Len(q) : Append(q, e)[k] = q[k]
           /\ \A k \in 1 .. Len(q) + 1 : k = Len(q) + 1 \/ k \in 1 .. Len(q)
OBVIOUS

\* The end of a connection in use.
LEMMA MarkClosedKeeps ==
    ASSUME NEW st \in Endpoint, NEW tr \in Seq(EntryRec), NEW ev \in Seq(Event), Good(st, tr, ev),
           NEW c \in Conns, InUse(st, c), NEW nx, nx = MarkClosed(st, c).st
    PROVE  /\ nx \in Endpoint /\ MarkClosed(st, c).ok \in BOOLEAN
           /\ Keeps(st, nx, tr, ev)
           /\ \A d \in Conns : Allocated(st, d) => Allocated(nx, d)
<1>1. LiveTable(st) /\ st.live \in Seq(Conns) /\ st.ring \in Seq(Event) /\ Len(st.ring) \in Nat
  BY DEF Good, Endpoint
<1>2. PICK i \in 1 .. Len(st.live) : st.live[i] = c
  BY <1>1 DEF LiveTable
<1>3. (\A j \in 1 .. Len(st.live) : st.live[j] = c => j = i) /\ st.cursor <= Len(st.live)
  BY <1>1, <1>2 DEF LiveTable
<1>4. PICK e \in Event : e = An("closed", c) /\ e.type = "closed" /\ e.conn = c
  <2>1. An("closed", c) \in Event /\ An("closed", c).type = "closed" /\ An("closed", c).conn = c
    BY AnEvent DEF EventTypes
  <2> QED
    BY <2>1
<1>5a. ClosedTo(st, nx, c, i) /\ MarkClosed(st, c).ok \in BOOLEAN
  BY <1>2, <1>3, MarkClosedIs, Zenon
<1>5. /\ nx \in Endpoint
      /\ nx.live = SwapOut(st.live, i) /\ nx.cursor <= Len(st.live) - 1
      /\ nx.conn[c].st = "closed" /\ nx.conn[c].role = "none"
      /\ \A d \in Conns \ {c} : nx.conn[d] = st.conn[d] /\ nx.app[d] = st.app[d]
      /\ Len(st.ring) = RingCap => nx.ring = st.ring
      /\ Len(st.ring) # RingCap => nx.ring = Append(st.ring, e)
  BY <1>4, <1>5a, Zenon DEF ClosedTo
<1>5b. /\ \A d \in Conns : nx.app[d].told = st.app[d].told
       /\ nx.app[c].lost = (st.app[c].lost \/ Len(st.ring) = RingCap)
  BY <1>5a DEF ClosedTo
<1>6. ~InUse(nx, c) /\ Allocated(nx, c)
  BY <1>5 DEF InUse, Allocated, NoObject
<1>7. \A d \in Conns \ {c} : (InUse(nx, d) <=> InUse(st, d)) /\ (Allocated(nx, d) <=> Allocated(st, d))
  BY <1>5 DEF InUse, Allocated
<1>8. LiveTable(nx) /\ Len(nx.live) = Len(st.live) - 1
  BY <1>1, <1>2, <1>5, <1>6, LiveTableShrinks
<1>9. /\ Allocated(st, c) /\ ~st.app[c].told /\ ~st.app[c].lost
      /\ EndsIn(st.ring, c) = 0 /\ EndsIn(ev, c) = 0
      /\ \A k \in 1 .. Len(st.ring) : ~(st.ring[k].type = "closed" /\ st.ring[k].conn = c)
  BY InUseNotEnded
<1> DEFINE n == Len(st.ring) + 1
<1>10. Len(st.ring) # RingCap =>
         /\ Len(nx.ring) = n /\ nx.ring[n] = e /\ n \in 1 .. n
         /\ \A k \in 1 .. Len(st.ring) : nx.ring[k] = st.ring[k]
         /\ \A k \in 1 .. n : k = n \/ k \in 1 .. Len(st.ring)
  <2>1. Len(st.ring) # RingCap => nx.ring = Append(st.ring, e)
    BY <1>5
  <2> QED
    BY <1>1, <1>4, <2>1, AppendIs
<1>11. Len(nx.live) <= MaxConns /\ Len(nx.ring) <= RingCap
  <2>1. Len(st.live) \in Nat /\ Len(st.live) <= MaxConns /\ Len(st.ring) <= RingCap
    BY <1>1 DEF Good
  <2> QED
    BY <1>1, <1>5, <1>8, <1>10, <2>1, Sizes
<1> HIDE DEF n
<1>12. \A k \in 1 .. Len(nx.ring) : nx.ring[k] = e \/ \E j \in 1 .. Len(st.ring) : j = k /\ nx.ring[k] = st.ring[j]
  BY <1>5, <1>10
<1>13. Names(nx, nx.ring) /\ Names(nx, tr) /\ Names(nx, ev)
  <2>0. \A d \in Conns : Allocated(st, d) => Allocated(nx, d)
    BY <1>6, <1>7
  <2>1. \A k \in 1 .. Len(st.ring) : st.ring[k].conn \in Conns
    <3>1. \A k \in 1 .. Len(st.ring) : st.ring[k] \in Event
      BY <1>1
    <3> QED
      BY <3>1 DEF Event
  <2>2. \A k \in 1 .. Len(tr) : tr[k].conn \in Conns
    <3>1. \A k \in 1 .. Len(tr) : tr[k] \in EntryRec
      OBVIOUS
    <3> QED
      BY <3>1 DEF EntryRec
  <2>3. \A k \in 1 .. Len(ev) : ev[k].conn \in Conns
    <3>1. \A k \in 1 .. Len(ev) : ev[k] \in Event
      OBVIOUS
    <3> QED
      BY <3>1 DEF Event
  <2>4. \A k \in 1 .. Len(st.ring) : Allocated(nx, st.ring[k].conn)
    BY <2>0, <2>1 DEF Good, Names
  <2>5. Names(nx, nx.ring)
    BY <1>4, <1>6, <1>12, <2>4 DEF Names
  <2> QED
    BY <2>0, <2>2, <2>3, <2>5 DEF Good, Names
<1>14. EndsExact(nx, ev)
  <2>1. ASSUME NEW d \in Conns, Allocated(nx, d)
        PROVE  Ends(nx, ev, d) = IF InUse(nx, d) \/ nx.app[d].lost THEN 0 ELSE 1
    <3>0. EndsIn(st.ring, d) \in Nat /\ EndsIn(ev, d) \in Nat
      BY <1>1, EndsZero
    <3>1. nx.app[d].told = st.app[d].told
      BY <1>5b
    <3>2. CASE d # c
      <4>1. EndsIn(nx.ring, d) = EndsIn(st.ring, d)
        <5>1. EndsIn(Append(st.ring, e), d) = EndsIn(st.ring, d) + 0
          <6>1. ~(e.type = "closed" /\ e.conn = d)
            BY <1>4, <3>2
          <6>2. EndsIn(Append(st.ring, e), d)
                  = EndsIn(st.ring, d) + (IF e.type = "closed" /\ e.conn = d THEN 1 ELSE 0)
            BY <1>1, EndsAppend
          <6> QED
            BY <3>0, <6>1, <6>2
        <5>2. nx.ring = st.ring \/ nx.ring = Append(st.ring, e)
          BY <1>5
        <5>3. EndsIn(Append(st.ring, e), d) = EndsIn(st.ring, d)
          BY <3>0, <5>1
        <5> QED
          BY <5>2, <5>3, Zenon
      <4>2. Ends(st, ev, d) = IF InUse(st, d) \/ st.app[d].lost THEN 0 ELSE 1
        BY <1>7, <2>1, <3>2 DEF Good, EndsExact
      <4>3. Ends(nx, ev, d) = Ends(st, ev, d)
        BY <3>1, <4>1, Zenon DEF Ends
      <4>4. nx.app[d].lost = st.app[d].lost /\ (InUse(nx, d) <=> InUse(st, d))
        BY <1>5, <1>7, <3>2
      <4> QED
        BY <4>2, <4>3, <4>4, Zenon
    <3>3. CASE d = c
      <4>0. ~nx.app[c].told
        BY <1>9, <3>1, <3>3
      <4>1. CASE Len(st.ring) = RingCap
        <5>1. EndsIn(nx.ring, c) = 0 /\ nx.app[c].lost
          BY <1>5, <1>5b, <1>9, <4>1
        <5>2. Ends(nx, ev, c) = 0
          BY <1>9, <4>0, <5>1 DEF Ends
        <5> QED
          BY <3>3, <5>1, <5>2
      <4>2. CASE Len(st.ring) # RingCap
        <5>1. EndsIn(nx.ring, c) = 1
          <6>1. EndsIn(Append(st.ring, e), c) = EndsIn(st.ring, c) + 1
            <7>1. EndsIn(Append(st.ring, e), c)
                    = EndsIn(st.ring, c) + (IF e.type = "closed" /\ e.conn = c THEN 1 ELSE 0)
              BY <1>1, EndsAppend
            <7> QED
              BY <1>4, <1>9, <7>1
          <6>2. nx.ring = Append(st.ring, e)
            BY <1>5, <4>2
          <6> QED
            BY <1>9, <6>1, <6>2
        <5>2. ~nx.app[c].lost
          BY <1>5b, <1>9, <4>2
        <5>3. Ends(nx, ev, c) = 1
          BY <1>9, <4>0, <5>1 DEF Ends
        <5> QED
          BY <1>6, <3>3, <5>2, <5>3
      <4> QED
        BY <4>1, <4>2
    <3> QED
      BY <3>2, <3>3
  <2> QED
    BY <2>1 DEF EndsExact
<1>15. EndsLast(nx.ring)
  <2>1. CASE Len(st.ring) = RingCap
    BY <1>5, <2>1 DEF Good
  <2>2. CASE Len(st.ring) # RingCap
    <3> SUFFICES ASSUME NEW k \in 1 .. n, NEW j \in 1 .. n, k < j,
                        nx.ring[k].conn = nx.ring[j].conn, nx.ring[k].type = "closed"
                 PROVE  nx.ring[j].type = "txready"
      BY <1>10, <2>2 DEF EndsLast
    <3>1. k \in 1 .. Len(st.ring)
      BY <1>1 DEF n
    <3>2. CASE j = n
      BY <1>4, <1>9, <1>10, <2>2, <3>1, <3>2
    <3>3. CASE j \in 1 .. Len(st.ring)
      BY <1>10, <2>2, <3>1, <3>3 DEF Good, EndsLast
    <3> QED
      BY <1>10, <2>2, <3>2, <3>3
  <2> QED
    BY <2>1, <2>2
<1>16. NothingAfter(nx, tr, ev)
  <2>0. \A d \in Conns : nx.app[d].told = st.app[d].told
    BY <1>5b
  <2>1. ASSUME NEW d \in Conns, nx.app[d].told \/ EndsIn(ev, d) > 0
        PROVE  Over(nx, tr, ev, d)
    <3>1. d # c
      BY <1>9, <2>0, <2>1
    <3>2. Over(st, tr, ev, d)
      BY <2>0, <2>1 DEF Good, NothingAfter
    <3> QED
      BY <1>4, <1>12, <3>1, <3>2 DEF Over
  <2>2. \A k \in 1 .. Len(ev) : ~nx.app[ev[k].conn].told
    <3>1. \A k \in 1 .. Len(ev) : ev[k] \in Event
      OBVIOUS
    <3>2. \A k \in 1 .. Len(ev) : ev[k].conn \in Conns
      BY <3>1 DEF Event
    <3> QED
      BY <2>0, <3>2 DEF Good, NothingAfter
  <2> QED
    BY <2>1, <2>2 DEF NothingAfter
<1>17. AppExact(nx)
  <2>1. \A d \in Conns \ {c} : /\ ~Allocated(nx, d) => nx.app[d] = Unknown
                               /\ InUse(nx, d) => ~nx.app[d].lost
    BY <1>5, <1>7 DEF Good, AppExact
  <2> QED
    BY <1>6, <2>1 DEF AppExact
<1>18. Good(nx, tr, ev)
  BY <1>5, <1>8, <1>11, <1>13, <1>14, <1>15, <1>16, <1>17 DEF Good
<1>19. HasTx(st.ring) => HasTx(nx.ring)
  <2>1. CASE Len(st.ring) = RingCap
    BY <1>5, <2>1
  <2>2. CASE Len(st.ring) # RingCap
    <3>1. 1 .. Len(st.ring) \subseteq 1 .. Len(nx.ring)
      BY <1>1, <1>10, <2>2 DEF n
    <3> QED
      BY <1>10, <2>2, <3>1 DEF HasTx
  <2> QED
    BY <2>1, <2>2
<1>20. \A d \in Conns : Asks(nx, d) => Asks(st, d)
  BY <1>5, <1>6, <1>7 DEF Asks
<1> QED
  BY <1>5, <1>5a, <1>6, <1>7, <1>18, <1>19, <1>20 DEF Keeps, Heard

\* An outcome of the endpoint that keeps the invariant and whatever was announced.
Stays(st, o, tr, ev) ==
    /\ o.st \in Endpoint /\ o.ok \in BOOLEAN
    /\ Keeps(st, o.st, tr, ev)
    /\ \A d \in Conns : Allocated(st, d) => Allocated(o.st, d)

LEMMA StaysBoth ==
    ASSUME NEW st, NEW o, NEW p, NEW tr, NEW ev, Stays(st, o, tr, ev), Stays(o.st, p, tr, ev)
    PROVE  Stays(st, p, tr, ev)
BY DEF Stays, Keeps

LEMMA DoneStays ==
    ASSUME NEW st \in Endpoint, NEW tr, NEW ev, Good(st, tr, ev)
    PROVE  /\ Stays(st, Done(st), tr, ev) /\ Stays(st, Failed(st), tr, ev)
           /\ Done(st).st = st /\ Failed(st).st = st
           /\ Done(st).ok = TRUE /\ Failed(st).ok = FALSE
BY DEF Stays, Keeps, Done, Failed

LEMMA PushStays ==
    ASSUME NEW st \in Endpoint, NEW tr \in Seq(EntryRec), NEW ev \in Seq(Event), Good(st, tr, ev),
           NEW c \in Conns, NEW type \in EventTypes \ {"closed"},
           Allocated(st, c), type = "txready" \/ InUse(st, c)
    PROVE  Stays(st, EventPush(st, type, c), tr, ev)
<1>1. /\ EventPush(st, type, c).st \in Endpoint /\ EventPush(st, type, c).ok \in BOOLEAN
      /\ Keeps(st, EventPush(st, type, c).st, tr, ev)
  BY PushKeeps DEF PushKept
<1>2. EventPush(st, type, c).st.conn = st.conn
  BY PushConn
<1> QED
  BY <1>1, <1>2 DEF Stays, Allocated

\* A request to transmit is announced, or the connection marked as not heard.
LEMMA TxReadyStays ==
    ASSUME NEW st \in Endpoint, NEW tr \in Seq(EntryRec), NEW ev \in Seq(Event), Good(st, tr, ev),
           NEW c \in Conns, Allocated(st, c)
    PROVE  /\ Stays(st, EventPush(st, "txready", c), tr, ev)
           /\ Heard(EventPush(st, "txready", c).st, {c})
           /\ EventPush(st, "txready", c).st.live = st.live
<1>1. "txready" \in EventTypes \ {"closed"} /\ "txready" \in EventTypes
  BY DEF EventTypes
<1> QED
  BY <1>1, PushStays, PushKeeps, PushLive DEF PushKept

LEMMA RequestCloseStays ==
    ASSUME NEW st \in Endpoint, NEW tr \in Seq(EntryRec), NEW ev \in Seq(Event), Good(st, tr, ev),
           NEW c \in Conns, Allocated(st, c)
    PROVE  /\ Stays(st, RequestClose(st, c), tr, ev)
           /\ Heard(RequestClose(st, c).st, {c})
           /\ RequestClose(st, c).st.live = st.live
BY RequestCloseKeeps DEF Stays, CloseKept

LEMMA MarkClosedStays ==
    ASSUME NEW st \in Endpoint, NEW tr \in Seq(EntryRec), NEW ev \in Seq(Event), Good(st, tr, ev),
           NEW c \in Conns, InUse(st, c)
    PROVE  Stays(st, MarkClosed(st, c), tr, ev)
<1>1. PICK nx : nx = MarkClosed(st, c).st
  OBVIOUS
<1>2. /\ nx \in Endpoint /\ MarkClosed(st, c).ok \in BOOLEAN
      /\ Keeps(st, nx, tr, ev)
      /\ \A d \in Conns : Allocated(st, d) => Allocated(nx, d)
  BY <1>1, MarkClosedKeeps
<1> QED
  BY <1>1, <1>2 DEF Stays

LEMMA HandshakeAllocated ==
    ASSUME NEW st \in Endpoint, NEW c \in Conns
    PROVE  \A d \in Conns : Allocated(st, d) => Allocated(HandshakeCompleted(st, c).st, d)
<1>1. PICK nx : nx = [st EXCEPT !.conn[c].st = "established", !.conn[c].fresh = FALSE]
  OBVIOUS
<1>2. /\ nx \in Endpoint /\ nx.conn[c].st = "established"
      /\ \A d \in Conns \ {c} : nx.conn[d] = st.conn[d]
  <2>1. PICK r : r = [st.conn[c] EXCEPT !.st = "established", !.fresh = FALSE]
    OBVIOUS
  <2>2. r \in ConnRec /\ r.st = "established"
    BY <2>1 DEF Endpoint, ConnRec
  <2>3. nx = [st EXCEPT !.conn[c] = r]
    BY <1>1, <2>1 DEF Endpoint, ConnRec
  <2> QED
    BY <2>2, <2>3 DEF Endpoint
<1>3. "established" \in EventTypes
  BY DEF EventTypes
<1>4. HandshakeCompleted(st, c) = EventPush(nx, "established", c)
  BY <1>1 DEF HandshakeCompleted
<1>5. EventPush(nx, "established", c).st.conn = nx.conn
  BY <1>2, <1>3, PushConn
<1>6. nx.conn[c] # NoObject
  BY <1>2 DEF NoObject
<1>7. HandshakeCompleted(st, c).st.conn = nx.conn
  BY <1>4, <1>5
<1> QED
  BY <1>2, <1>6, <1>7 DEF Allocated

LEMMA HandleConnErrorStays ==
    ASSUME NEW st \in Endpoint, NEW tr \in Seq(EntryRec), NEW ev \in Seq(Event), Good(st, tr, ev),
           NEW c \in Conns, InUse(st, c), NEW rv \in {"ok", "ends", "fails", "endpoint"}
    PROVE  /\ Stays(st, HandleConnError(st, c, rv), tr, ev)
           /\ rv # "ends" => HandleConnError(st, c, rv).st.live = st.live
<1>1. Allocated(st, c)
  BY InUseNotEnded
<1>2. CASE rv = "ok"
  <2>1. HandleConnError(st, c, rv) = Done(st)
    BY <1>2 DEF HandleConnError
  <2> QED
    BY <2>1, DoneStays
<1>3. CASE rv = "ends"
  <2>1. HandleConnError(st, c, rv) = MarkClosed(st, c)
    BY <1>3 DEF HandleConnError
  <2> QED
    BY <1>3, <2>1, MarkClosedStays
<1>4. CASE rv = "fails"
  <2>1. HandleConnError(st, c, rv) = RequestClose(st, c)
    BY <1>4 DEF HandleConnError
  <2> QED
    BY <1>1, <2>1, RequestCloseStays
<1>5. CASE rv = "endpoint"
  <2>1. HandleConnError(st, c, rv) = Failed(st)
    BY <1>5 DEF HandleConnError
  <2> QED
    BY <2>1, DoneStays
<1> QED
  BY <1>2, <1>3, <1>4, <1>5

LEMMA CallbackStays ==
    ASSUME NEW st \in Endpoint, NEW tr \in Seq(EntryRec), NEW ev \in Seq(Event), Good(st, tr, ev),
           NEW c \in Conns, InUse(st, c), NEW evs
    PROVE  Stays(st, Callback(st, c, evs), tr, ev) /\ InUse(Callback(st, c, evs).st, c)
<1>1. Allocated(st, c)
  BY InUseNotEnded
<1>2. PICK o : o = IF "established" \in evs THEN HandshakeCompleted(st, c) ELSE Done(st)
  OBVIOUS
<1>3. Stays(st, o, tr, ev) /\ InUse(o.st, c)
  <2>1. CASE "established" \in evs
    <3>1. o = HandshakeCompleted(st, c)
      BY <1>2, <2>1
    <3>2. /\ o.st \in Endpoint /\ o.ok \in BOOLEAN /\ Keeps(st, o.st, tr, ev) /\ InUse(o.st, c)
      BY <3>1, HandshakeKeeps
    <3>3. \A d \in Conns : Allocated(st, d) => Allocated(o.st, d)
      BY <3>1, HandshakeAllocated
    <3> QED
      BY <3>2, <3>3 DEF Stays
  <2>2. CASE "established" \notin evs
    <3>1. o = Done(st)
      BY <1>2, <2>2
    <3> QED
      BY <3>1, DoneStays
  <2> QED
    BY <2>1, <2>2
<1>4. Callback(st, c, evs) = IF o.ok /\ "stream" \in evs THEN StreamCallback(o.st, c) ELSE o
  BY <1>2, Zenon DEF Callback
<1>5. CASE o.ok /\ "stream" \in evs
  <2>1. Callback(st, c, evs) = EventPush(o.st, "stream", c)
    BY <1>4, <1>5 DEF StreamCallback
  <2>2. "stream" \in EventTypes \ {"closed"} /\ "stream" \in EventTypes
    BY DEF EventTypes
  <2>3. o.st \in Endpoint /\ Good(o.st, tr, ev) /\ Allocated(o.st, c)
    BY <1>1, <1>3 DEF Stays, Keeps
  <2>4. Stays(o.st, EventPush(o.st, "stream", c), tr, ev)
    BY <1>3, <2>2, <2>3, PushStays
  <2>5. EventPush(o.st, "stream", c).st.conn = o.st.conn
    BY <2>2, <2>3, PushConn
  <2>6. InUse(EventPush(o.st, "stream", c).st, c)
    BY <1>3, <2>5 DEF InUse
  <2> QED
    BY <1>3, <2>1, <2>4, <2>6, StaysBoth
<1>6. CASE ~(o.ok /\ "stream" \in evs)
  BY <1>3, <1>4, <1>6
<1> QED
  BY <1>5, <1>6

LEMMA RecvDatagramStays ==
    ASSUME NEW st \in Endpoint, NEW tr \in Seq(EntryRec), NEW ev \in Seq(Event), Good(st, tr, ev),
           NEW c \in Conns, InUse(st, c), NEW evs, NEW rv \in Results
    PROVE  Stays(st, RecvDatagram(st, c, evs, rv), tr, ev)
<1>1. PICK o : o = Callback(st, c, evs)
  OBVIOUS
<1>2. PICK failed : failed = IF o.ok THEN rv ELSE "fails"
  OBVIOUS
<1>3. Stays(st, o, tr, ev) /\ InUse(o.st, c) /\ Allocated(st, c)
  BY <1>1, CallbackStays, InUseNotEnded
<1>4. o.st \in Endpoint /\ Good(o.st, tr, ev) /\ Allocated(o.st, c)
  BY <1>3 DEF Stays, Keeps
<1>5. RecvDatagram(st, c, evs, rv) =
        IF failed = "ok" THEN Done(EventPush(o.st, "txready", c).st)
        ELSE IF failed = "late" THEN Failed(EventPush(o.st, "txready", c).st)
        ELSE HandleConnError(o.st, c, failed)
  BY <1>1, <1>2, Zenon DEF RecvDatagram, Announce
<1>6. PICK p : p = EventPush(o.st, "txready", c)
  OBVIOUS
<1>7. Stays(o.st, p, tr, ev)
  BY <1>4, <1>6, TxReadyStays
<1>8. Stays(st, p, tr, ev)
  BY <1>3, <1>7, StaysBoth
<1>9. Stays(st, Done(p.st), tr, ev) /\ Stays(st, Failed(p.st), tr, ev)
  BY <1>8 DEF Stays, Done, Failed
<1>10. CASE failed \in {"ok", "late"}
  BY <1>5, <1>6, <1>9, <1>10
<1>11. CASE failed \notin {"ok", "late"}
  <2>1. failed \in {"ok", "ends", "fails", "endpoint"}
    BY <1>2, <1>11 DEF Results
  <2>2. Stays(o.st, HandleConnError(o.st, c, failed), tr, ev)
    BY <1>3, <1>4, <2>1, HandleConnErrorStays
  <2>3. RecvDatagram(st, c, evs, rv) = HandleConnError(o.st, c, failed)
    BY <1>5, <1>11
  <2> QED
    BY <1>3, <2>2, <2>3, StaysBoth
<1> QED
  BY <1>10, <1>11

LEMMA ExpireStays ==
    ASSUME NEW st \in Endpoint, NEW tr \in Seq(EntryRec), NEW ev \in Seq(Event), Good(st, tr, ev),
           NEW c \in Conns, InUse(st, c), NEW rv \in Results \ {"late"}
    PROVE  Stays(st, Expire(st, c, rv), tr, ev)
<1>1. PICK o : o = HandleConnError(st, c, rv)
  OBVIOUS
<1>2. Stays(st, o, tr, ev) /\ Allocated(st, c)
  <2>1. rv \in {"ok", "ends", "fails", "endpoint"}
    BY DEF Results
  <2> QED
    BY <1>1, <2>1, HandleConnErrorStays, InUseNotEnded
<1>3. o.st \in Endpoint /\ Good(o.st, tr, ev) /\ Allocated(o.st, c)
  BY <1>2 DEF Stays, Keeps
<1>4. PICK p : p = EventPush(o.st, "txready", c)
  OBVIOUS
<1>5. Stays(o.st, p, tr, ev)
  BY <1>3, <1>4, TxReadyStays
<1>6. Stays(st, p, tr, ev)
  BY <1>2, <1>5, StaysBoth
<1>7. Stays(st, Done(p.st), tr, ev)
  BY <1>6 DEF Stays, Done
<1>8. Expire(st, c, rv) = IF o.ok THEN Done(p.st) ELSE o
  BY <1>1, <1>4, Zenon DEF Expire, Announce
<1> QED
  BY <1>2, <1>7, <1>8

\* A new connection at an address that is not allocated.
LEMMA AddedKeeps ==
    ASSUME NEW st \in Endpoint, NEW tr \in Seq(EntryRec), NEW ev \in Seq(Event), Good(st, tr, ev),
           NEW c \in Conns, ~Allocated(st, c), Len(st.live) < MaxConns,
           NEW role \in {"client", "server"}, NEW nx, nx = Added(st, c, role)
    PROVE  /\ nx \in Endpoint /\ Keeps(st, nx, tr, ev) /\ InUse(nx, c)
           /\ \A d \in Conns : Allocated(st, d) => Allocated(nx, d)
<1>1. PICK r : r = [st |-> "handshaking", role |-> role, fresh |-> TRUE, closeReq |-> FALSE]
  OBVIOUS
<1>2. /\ r \in ConnRec /\ r # NoObject /\ r.role # "none" /\ r.closeReq = FALSE
      /\ Unknown \in AppRec /\ Unknown.told = FALSE /\ Unknown.lost = FALSE
  BY <1>1 DEF ConnRec, NoObject, Roles, Unknown, AppRec
<1>3. nx = [st EXCEPT !.conn[c] = r, !.live = Append(st.live, c), !.app[c] = Unknown]
  BY <1>1, Zenon DEF Added
<1>4. /\ st.conn \in [Conns -> ConnRec] /\ st.app \in [Conns -> AppRec] /\ st.live \in Seq(Conns)
      /\ st.ring \in Seq(Event)
  BY DEF Endpoint
<1>5. Append(st.live, c) \in Seq(Conns)
  BY <1>4
<1>6. /\ nx \in Endpoint /\ nx.live = Append(st.live, c) /\ nx.cursor = st.cursor
      /\ nx.ring = st.ring /\ nx.conn[c] = r /\ nx.app[c] = Unknown
      /\ \A d \in Conns \ {c} : nx.conn[d] = st.conn[d] /\ nx.app[d] = st.app[d]
  <2>1. PICK cc : cc = [st.conn EXCEPT ![c] = r]
    OBVIOUS
  <2>2. PICK aa : aa = [st.app EXCEPT ![c] = Unknown]
    OBVIOUS
  <2>3. PICK ll : ll = Append(st.live, c)
    OBVIOUS
  <2>4. /\ cc \in [Conns -> ConnRec] /\ cc[c] = r /\ \A d \in Conns \ {c} : cc[d] = st.conn[d]
        /\ aa \in [Conns -> AppRec] /\ aa[c] = Unknown /\ \A d \in Conns \ {c} : aa[d] = st.app[d]
    BY <1>2, <1>4, <2>1, <2>2
  <2>5. nx = [st EXCEPT !.conn = cc, !.live = ll, !.app = aa]
    BY <1>3, <2>1, <2>2, <2>3
  <2>6. /\ nx \in Endpoint /\ nx.live = ll /\ nx.cursor = st.cursor /\ nx.ring = st.ring
        /\ nx.conn = cc /\ nx.app = aa
    BY <1>5, <2>3, <2>4, <2>5 DEF Endpoint
  <2> QED
    BY <2>3, <2>4, <2>6
<1>7. /\ st.app[c] = Unknown /\ ~InUse(st, c)
  BY DEF Good, AppExact, Allocated, InUse, NoObject
<1>8. \A d \in Conns : nx.app[d] = st.app[d]
  BY <1>6, <1>7
<1>9. InUse(nx, c) /\ Allocated(nx, c)
  BY <1>2, <1>6 DEF InUse, Allocated
<1>10. \A d \in Conns \ {c} : (InUse(nx, d) <=> InUse(st, d)) /\ (Allocated(nx, d) <=> Allocated(st, d))
  BY <1>6 DEF InUse, Allocated
<1>11. /\ \A k \in 1 .. Len(st.ring) : st.ring[k].conn \in Conns \ {c}
       /\ \A k \in 1 .. Len(tr) : tr[k].conn \in Conns \ {c}
       /\ \A k \in 1 .. Len(ev) : ev[k].conn \in Conns \ {c}
  <2>1. /\ \A k \in 1 .. Len(st.ring) : st.ring[k].conn \in Conns
        /\ \A k \in 1 .. Len(tr) : tr[k].conn \in Conns
        /\ \A k \in 1 .. Len(ev) : ev[k].conn \in Conns
    <3>1. \A k \in 1 .. Len(st.ring) : st.ring[k] \in Event
      BY <1>4
    <3>2. \A k \in 1 .. Len(tr) : tr[k] \in EntryRec
      OBVIOUS
    <3>3. \A k \in 1 .. Len(ev) : ev[k] \in Event
      OBVIOUS
    <3> QED
      BY <3>1, <3>2, <3>3 DEF Event, EntryRec
  <2> QED
    BY <2>1 DEF Good, Names
<1>12. LiveTable(nx) /\ Len(nx.live) <= MaxConns
  <2> DEFINE n == Len(st.live)
             new == nx.live
  <2>1. /\ n \in Nat /\ Len(new) = n + 1 /\ new[n + 1] = c
        /\ \A k \in 1 .. n : new[k] = st.live[k] /\ st.live[k] \in Conns
        /\ \A k \in 1 .. n + 1 : k = n + 1 \/ k \in 1 .. n
        /\ \A k \in 1 .. n : k \in 1 .. n + 1 /\ k # n + 1
    BY <1>4, <1>6
  <2>2. /\ \A k \in 1 .. n : InUse(st, st.live[k]) /\ st.live[k] # c
        /\ \A d \in Conns : InUse(st, d) => \E k \in 1 .. n : st.live[k] = d
        /\ \A j, k \in 1 .. n : st.live[j] = st.live[k] => j = k
        /\ st.cursor <= n /\ st.cursor \in Nat
    BY <1>7 DEF Good, LiveTable, Endpoint
  <2>3. n + 1 <= MaxConns /\ n + 1 \in 1 .. n + 1
    BY <2>1, Sizes
  <2> HIDE DEF n, new
  <2>4. \A k \in 1 .. n + 1 : InUse(nx, new[k])
    BY <1>9, <1>10, <2>1, <2>2
  <2>5. \A d \in Conns : InUse(nx, d) => \E k \in 1 .. n + 1 : new[k] = d
    BY <1>10, <2>1, <2>2, <2>3
  <2>6. \A j, k \in 1 .. n + 1 : new[j] = new[k] => j = k
    BY <2>1, <2>2
  <2>7. nx.cursor <= n + 1
    BY <1>6, <2>1, <2>2
  <2> QED
    BY <2>1, <2>3, <2>4, <2>5, <2>6, <2>7 DEF LiveTable, new
<1>13. Names(nx, nx.ring) /\ Names(nx, tr) /\ Names(nx, ev)
  BY <1>6, <1>10, <1>11 DEF Good, Names
<1>14. EndsIn(st.ring, c) = 0 /\ EndsIn(ev, c) = 0
  <2>1. \A k \in 1 .. Len(st.ring) : ~(st.ring[k].type = "closed" /\ st.ring[k].conn = c)
    BY <1>11
  <2>2. \A k \in 1 .. Len(ev) : ~(ev[k].type = "closed" /\ ev[k].conn = c)
    BY <1>11
  <2> QED
    BY <1>4, <2>1, <2>2, EndsZero
<1>15. EndsExact(nx, ev)
  <2>1. ASSUME NEW d \in Conns, Allocated(nx, d)
        PROVE  Ends(nx, ev, d) = IF InUse(nx, d) \/ nx.app[d].lost THEN 0 ELSE 1
    <3>1. Ends(nx, ev, d) = Ends(st, ev, d)
      BY <1>6, <1>8, Zenon DEF Ends
    <3>2. CASE d = c
      <4>1. Ends(st, ev, c) = 0
        BY <1>2, <1>7, <1>14 DEF Ends
      <4> QED
        BY <1>9, <3>1, <3>2, <4>1
    <3>3. CASE d # c
      BY <1>8, <1>10, <2>1, <3>1, <3>3 DEF Good, EndsExact
    <3> QED
      BY <3>2, <3>3
  <2> QED
    BY <2>1 DEF EndsExact
<1>16. NothingAfter(nx, tr, ev)
  <2>1. ASSUME NEW d \in Conns, nx.app[d].told \/ EndsIn(ev, d) > 0
        PROVE  Over(nx, tr, ev, d)
    <3>1. Over(st, tr, ev, d)
      BY <1>8, <2>1 DEF Good, NothingAfter
    <3> QED
      BY <1>6, <3>1 DEF Over
  <2>2. \A k \in 1 .. Len(ev) : ~nx.app[ev[k].conn].told
    BY <1>8, <1>11 DEF Good, NothingAfter
  <2> QED
    BY <2>1, <2>2 DEF NothingAfter
<1>17. AppExact(nx)
  <2>1. \A d \in Conns \ {c} : /\ ~Allocated(nx, d) => nx.app[d] = Unknown
                               /\ InUse(nx, d) => ~nx.app[d].lost
    BY <1>6, <1>10 DEF Good, AppExact
  <2>2. ~nx.app[c].lost
    BY <1>2, <1>6
  <2> QED
    BY <1>9, <2>1, <2>2 DEF AppExact
<1>18. Len(nx.ring) <= RingCap /\ EndsLast(nx.ring)
  BY <1>6 DEF Good
<1>19. Good(nx, tr, ev)
  BY <1>6, <1>12, <1>13, <1>15, <1>16, <1>17, <1>18 DEF Good
<1>20. \A d \in Conns : Asks(nx, d) => Asks(st, d)
  BY <1>2, <1>6, <1>10 DEF Asks
<1>21. \A S \in SUBSET Conns : Heard(st, S) => Heard(nx, S)
  BY <1>6, <1>20 DEF Heard
<1> QED
  BY <1>6, <1>9, <1>10, <1>19, <1>21 DEF Keeps

\* quic_backend_conn_client_new, quic_backend_conn_server_new
LEMMA NewStays ==
    ASSUME NEW st \in Endpoint, NEW tr \in Seq(EntryRec), NEW ev \in Seq(Event), Good(st, tr, ev),
           NEW c \in Conns, ~Allocated(st, c), Len(st.live) < MaxConns,
           NEW role \in {"client", "server"}, NEW type \in {"txready", "incoming"},
           NEW p, p = EventPush(Added(st, c, role), type, c)
    PROVE  Stays(st, p, tr, ev) /\ InUse(p.st, c)
<1>1. PICK nx : nx = Added(st, c, role)
  OBVIOUS
<1>2. /\ nx \in Endpoint /\ Keeps(st, nx, tr, ev) /\ InUse(nx, c)
      /\ \A d \in Conns : Allocated(st, d) => Allocated(nx, d)
  BY <1>1, AddedKeeps
<1>3. type \in EventTypes \ {"closed"} /\ type \in EventTypes
  BY DEF EventTypes
<1>4. Good(nx, tr, ev) /\ Allocated(nx, c) /\ p = EventPush(nx, type, c)
  BY <1>1, <1>2, InUseNotEnded DEF Keeps
<1>5. Stays(nx, p, tr, ev)
  BY <1>2, <1>3, <1>4, PushStays
<1>6. p.st.conn = nx.conn
  BY <1>2, <1>3, <1>4, PushConn
<1> QED
  BY <1>2, <1>5, <1>6 DEF Stays, Keeps, InUse

LEMMA RxNewStays ==
    ASSUME NEW st \in Endpoint, NEW tr \in Seq(EntryRec), NEW ev \in Seq(Event), Good(st, tr, ev),
           NEW c \in Conns, ~Allocated(st, c), Len(st.live) < MaxConns, NEW evs,
           NEW rv \in Results
    PROVE  Stays(st, RecvDatagram(ServerNew(st, c), c, evs, rv), tr, ev)
<1>1. PICK role : role = "server"
  OBVIOUS
<1>2. PICK type : type = "incoming"
  OBVIOUS
<1>3. PICK p : p = EventPush(Added(st, c, role), type, c)
  OBVIOUS
<1>4. Stays(st, p, tr, ev) /\ InUse(p.st, c)
  BY <1>1, <1>2, <1>3, NewStays
<1>5. ServerNew(st, c) = p.st
  BY <1>1, <1>2, <1>3, Zenon DEF ServerNew, Announce
<1>6. p.st \in Endpoint /\ Good(p.st, tr, ev)
  BY <1>4 DEF Stays, Keeps
<1>7. Stays(p.st, RecvDatagram(p.st, c, evs, rv), tr, ev)
  BY <1>4, <1>6, RecvDatagramStays
<1> QED
  BY <1>4, <1>5, <1>7, StaysBoth

\* quic_backend_endpoint_close
LEMMA EndpointCloseGood ==
    ASSUME NEW st \in Endpoint, NEW tr \in Seq(EntryRec), NEW ev \in Seq(Event), Good(st, tr, ev)
    PROVE  /\ EndpointClose(st) \in Endpoint /\ Good(EndpointClose(st), tr, ev)
           /\ \A d \in Conns : Allocated(st, d) => Allocated(EndpointClose(st), d)
<1>1. PICK cc : cc = [c \in Conns |-> IF c \in Range(st.live)
                                      THEN [st.conn[c] EXCEPT !.st = "closing", !.closeReq = TRUE]
                                      ELSE st.conn[c]]
  OBVIOUS
<1>2. EndpointClose(st) = [st EXCEPT !.conn = cc]
  BY <1>1, Zenon DEF EndpointClose
<1>3. st.conn \in [Conns -> ConnRec]
  BY DEF Endpoint
<1>4. ASSUME NEW c \in Conns
      PROVE  /\ cc[c] \in ConnRec /\ cc[c].role = st.conn[c].role
             /\ cc[c] = NoObject <=> st.conn[c] = NoObject
  <2>1. CASE c \in Range(st.live)
    <3>1. cc[c] = [st.conn[c] EXCEPT !.st = "closing", !.closeReq = TRUE]
      BY <1>1, <2>1
    <3>2. InUse(st, c)
      BY <2>1 DEF Good, LiveTable, Endpoint, Range
    <3>3. cc[c] \in ConnRec /\ cc[c].role = st.conn[c].role /\ cc[c].st = "closing"
      BY <1>3, <3>1 DEF ConnRec
    <3> QED
      BY <3>2, <3>3 DEF InUse, NoObject
  <2>2. CASE c \notin Range(st.live)
    BY <1>1, <1>3, <2>2
  <2> QED
    BY <2>1, <2>2
<1>5. PICK nx : nx = EndpointClose(st)
  OBVIOUS
<1>6. cc \in [Conns -> ConnRec]
  BY <1>1, <1>4
<1>7. /\ nx \in Endpoint /\ nx.conn = cc /\ nx.live = st.live /\ nx.cursor = st.cursor
      /\ nx.ring = st.ring /\ nx.app = st.app
  BY <1>2, <1>5, <1>6 DEF Endpoint
<1>8. \A d \in Conns : /\ InUse(nx, d) <=> InUse(st, d)
                       /\ Allocated(nx, d) <=> Allocated(st, d)
  BY <1>4, <1>7 DEF InUse, Allocated
<1>9. Good(nx, tr, ev)
  BY <1>7, <1>8, GoodFrame
<1> QED
  BY <1>5, <1>7, <1>8, <1>9

-----------------------------------------------------------------------------
(***************************************************************************)
(* Steps whose outcome is of the endpoint alone, outside the transmit      *)
(* phase.                                                                  *)
(***************************************************************************)

LEMMA BecomeIs ==
    ASSUME NEW st \in Endpoint, Become(st)
    PROVE  Now' = st
<1>1. st = [conn |-> st.conn, live |-> st.live, cursor |-> st.cursor, ring |-> st.ring, app |-> st.app]
  BY DEF Endpoint
<1> QED
  BY <1>1 DEF Become, Now

LEMMA NowIs ==
    /\ Now.conn = conn /\ Now.live = live /\ Now.cursor = cursor /\ Now.ring = ring /\ Now.app = app
BY DEF Now

DriveRec == [pc : {"idle", "rx", "poll", "write", "send"}, idx : Nat, start : Nat,
             sent : BOOLEAN, cut : BOOLEAN]

LEMMA PhaseIs ==
    /\ \A pc \in {"idle", "rx", "poll", "write", "send"} :
         Phase(pc) \in DriveRec /\ Phase(pc).pc = pc /\ Phase(pc).idx = 0
    /\ Idle \in DriveRec /\ Idle.pc = "idle"
BY DEF Phase, Idle, DriveRec

\* A step that leaves the service's tables alone and does not transmit.
LEMMA EndpointStep ==
    ASSUME IInv, NEW st \in Endpoint, Now' = st, Keeps(Now, st, tracked, events),
           \A d \in Conns : Allocated(Now, d) => Allocated(st, d),
           UNCHANGED <<tracked, events, pend>>, txPending' \in BOOLEAN,
           txPending => txPending',
           drive' \in DriveRec, drive'.pc \notin {"write", "send"}
    PROVE  IInv'
<1>1. Good(Now, tracked, events)'
  BY DEF Keeps
<1>2. TablesGood'
  BY DEF IInv, TablesGood
<1>3. ~txPending' => Heard(Now', Conns)
  <2>1. ~txPending' => Heard(Now, Conns)
    BY DEF IInv, DriveGood
  <2>2. Conns \in SUBSET Conns
    OBVIOUS
  <2> QED
    BY <2>1, <2>2 DEF Keeps
<1>4. (pend # None => pend \in Conns /\ Allocated(Now, pend) /\ txPending)'
  BY DEF IInv, DriveGood
<1>5. PassGood'
  BY DEF PassGood
<1> QED
  BY <1>1, <1>2, <1>3, <1>4, <1>5 DEF IInv, DriveGood, DriveRec

LEMMA OutcomeStep ==
    ASSUME IInv, NEW o, NEW next, Stays(Now, o, tracked, events), Outcome(o, next),
           next \in DriveRec, next.pc \notin {"write", "send"}
    PROVE  IInv'
<1>1. o.st \in Endpoint /\ Keeps(Now, o.st, tracked, events)
      /\ \A d \in Conns : Allocated(Now, d) => Allocated(o.st, d)
  BY DEF Stays
<1>2. Now' = o.st
  BY <1>1, BecomeIs DEF Outcome
<1>3. drive' \in DriveRec /\ drive'.pc \notin {"write", "send"}
  BY PhaseIs DEF Outcome
<1>4. UNCHANGED <<tracked, events, pend>> /\ txPending' = txPending /\ txPending \in BOOLEAN
  BY DEF Outcome, IInv, DriveGood
<1> QED
  BY <1>1, <1>2, <1>3, <1>4, EndpointStep

\* What the steps below use of the invariant.
LEMMA InvIs ==
    ASSUME IInv
    PROVE  /\ Now \in Endpoint /\ tracked \in Seq(EntryRec) /\ events \in Seq(Event)
           /\ Good(Now, tracked, events) /\ drive \in DriveRec /\ txPending \in BOOLEAN
           /\ \A c \in Conns : c \in Range(live) => InUse(Now, c)
<1>1. /\ Now \in Endpoint /\ tracked \in Seq(EntryRec) /\ events \in Seq(Event)
      /\ Good(Now, tracked, events) /\ drive \in DriveRec /\ txPending \in BOOLEAN
  BY DEF IInv, Good, TablesGood, DriveGood, DriveRec
<1>2. LiveTable(Now) /\ live \in Seq(Conns)
  BY <1>1, NowIs DEF Good, Endpoint
<1>3. ASSUME NEW c \in Range(live)
      PROVE  InUse(Now, c)
  <2>1. PICK i \in 1 .. Len(live) : c = live[i]
    BY <1>2 DEF Range
  <2> QED
    BY <1>2, <2>1, NowIs DEF LiveTable
<1> QED
  BY <1>1, <1>3

\* A step after which nothing transmits.
LEMMA QuietStep ==
    ASSUME Good(Now, tracked, events)', TablesGood', txPending' \in BOOLEAN,
           ~txPending' => Heard(Now', Conns),
           pend' # None => pend' \in Conns /\ Allocated(Now', pend') /\ txPending',
           drive' \in DriveRec, drive'.pc \notin {"write", "send"}
    PROVE  IInv'
BY DEF IInv, DriveGood, PassGood, DriveRec

LEMMA NextRound ==
    ASSUME NEW d \in DriveRec
    PROVE  /\ [d EXCEPT !.idx = @ + 1] \in DriveRec
           /\ [d EXCEPT !.idx = @ + 1].pc = d.pc
BY DEF DriveRec

LEMMA RxKnownStep ==
    ASSUME IInv, NEW c \in Conns, RxKnown(c)
    PROVE  IInv'
<1>1. PICK evs \in Callbacks(Now, c), rv \in Results :
        Outcome(RecvDatagram(Now, c, evs, rv), [drive EXCEPT !.idx = @ + 1])
  BY DEF RxKnown
<1>2. InUse(Now, c) /\ drive.pc = "rx"
  BY InvIs DEF RxKnown, Known
<1>3. Stays(Now, RecvDatagram(Now, c, evs, rv), tracked, events)
  BY <1>2, InvIs, RecvDatagramStays
<1>4. [drive EXCEPT !.idx = @ + 1] \in DriveRec /\ [drive EXCEPT !.idx = @ + 1].pc \notin {"write", "send"}
  BY <1>2, InvIs, NextRound
<1> QED
  BY <1>1, <1>3, <1>4, OutcomeStep

LEMMA RxNewStep ==
    ASSUME IInv, NEW c \in Conns, RxNew(c)
    PROVE  IInv'
<1>1. PICK next : next = [drive EXCEPT !.idx = @ + 1]
  OBVIOUS
<1>2. ~Allocated(Now, c) /\ drive.pc = "rx"
  BY NowIs DEF RxNew, Allocated
<1>3. next \in DriveRec /\ next.pc \notin {"write", "send"}
  BY <1>1, <1>2, InvIs, NextRound
<1>4. ASSUME MayAdd(Now, "server"), NEW evs \in {{}, {"established"}}, NEW rv \in Results,
             Outcome(RecvDatagram(ServerNew(Now, c), c, evs, rv), next)
      PROVE  IInv'
  <2>1. Len(Now.live) < MaxConns
    BY <1>4 DEF MayAdd
  <2>2. Stays(Now, RecvDatagram(ServerNew(Now, c), c, evs, rv), tracked, events)
    BY <1>2, <2>1, InvIs, RxNewStays
  <2> QED
    BY <1>3, <1>4, <2>2, OutcomeStep
<1>5. CASE Outcome(Failed(Now), next)
  <2>1. Stays(Now, Failed(Now), tracked, events)
    BY InvIs, DoneStays
  <2> QED
    BY <1>3, <1>5, <2>1, OutcomeStep
<1>6. \/ Outcome(Failed(Now), next)
      \/ /\ MayAdd(Now, "server")
         /\ \E evs \in {{}, {"established"}}, rv \in Results :
              Outcome(RecvDatagram(ServerNew(Now, c), c, evs, rv), next)
  BY <1>1, Zenon DEF RxNew
<1> QED
  BY <1>4, <1>5, <1>6

LEMMA PollStep ==
    ASSUME IInv, Poll
    PROVE  IInv'
<1>1. PICK c : c = live[drive.idx + 1]
  OBVIOUS
<1>2. PICK next : next = [drive EXCEPT !.idx = @ + 1]
  OBVIOUS
<1>3. drive.pc = "poll" /\ drive.idx < Len(live) /\ drive.idx \in Nat /\ live \in Seq(Conns)
  BY InvIs, NowIs DEF Poll, DriveRec, Endpoint
<1>4. next \in DriveRec /\ next.pc \notin {"write", "send"}
  BY <1>2, <1>3, InvIs, NextRound
<1>5. c \in Conns /\ InUse(Now, c)
  <2>1. drive.idx + 1 \in 1 .. Len(live)
    BY <1>3
  <2>2. c \in Range(live) /\ c \in Conns
    BY <1>1, <1>3, <2>1 DEF Range
  <2> QED
    BY <2>2, InvIs
<1>6. CASE Outcome(Done(Now), next)
  BY <1>4, <1>6, InvIs, DoneStays, OutcomeStep
<1>7. ASSUME NEW rv \in Results \ {"late"}, Outcome(Expire(Now, c, rv), next)
      PROVE  IInv'
  <2>1. Stays(Now, Expire(Now, c, rv), tracked, events)
    BY <1>5, InvIs, ExpireStays
  <2> QED
    BY <1>4, <1>7, <2>1, OutcomeStep
<1>8. Outcome(Done(Now), next) \/ \E rv \in Results \ {"late"} : Outcome(Expire(Now, c, rv), next)
  BY <1>1, <1>2, Zenon DEF Poll
<1> QED
  BY <1>6, <1>7, <1>8

\* Nothing but the service's wish to transmit, or where the drive is, changes.
LEMMA SameStep ==
    ASSUME IInv, Now' = Now, UNCHANGED <<tracked, events, pend>>, txPending' \in BOOLEAN,
           txPending => txPending', drive' \in DriveRec, drive'.pc \notin {"write", "send"}
    PROVE  IInv'
<1>1. Now \in Endpoint /\ Keeps(Now, Now, tracked, events)
  BY InvIs, KeepsItself
<1> QED
  BY <1>1, EndpointStep

LEMMA RxDoneStep ==
    ASSUME IInv, RxDone
    PROVE  IInv'
<1>1. Now' = Now
  BY DEF RxDone, Now
<1> QED
  BY <1>1, InvIs, PhaseIs, SameStep DEF RxDone

LEMMA OpenStreamStep ==
    ASSUME IInv, NEW c \in Conns, OpenStream(c)
    PROVE  IInv'
<1>1. Now' = Now
  BY DEF OpenStream, Now
<1> QED
  BY <1>1, InvIs, PhaseIs, SameStep DEF OpenStream, Calls

LEMMA CallStep ==
    ASSUME IInv, NEW c \in Conns, Calls(c), NEW o, Stays(Now, o, tracked, events),
           Become(o.st), txPending' = (txPending \/ o.ok), UNCHANGED <<tracked, events, pend, drive>>
    PROVE  IInv'
<1>1. o.st \in Endpoint /\ Keeps(Now, o.st, tracked, events) /\ o.ok \in BOOLEAN
      /\ \A d \in Conns : Allocated(Now, d) => Allocated(o.st, d)
  BY DEF Stays
<1>2. Now' = o.st
  BY <1>1, BecomeIs
<1>3. txPending' \in BOOLEAN /\ (txPending => txPending')
  BY <1>1, InvIs
<1>4. drive' \in DriveRec /\ drive'.pc \notin {"write", "send"}
  BY PhaseIs DEF Calls
<1> QED
  BY <1>1, <1>2, <1>3, <1>4, EndpointStep

LEMMA ConnCloseStep ==
    ASSUME IInv, NEW c \in Conns, ConnClose(c)
    PROVE  IInv'
<1>1. Calls(c) /\ Allocated(Now, c)
  BY NowIs DEF ConnClose, Calls, Allocated
<1>2. Stays(Now, RequestClose(Now, c), tracked, events)
  BY <1>1, InvIs, RequestCloseStays
<1>3. /\ Become(RequestClose(Now, c).st) /\ txPending' = (txPending \/ RequestClose(Now, c).ok)
      /\ UNCHANGED <<tracked, events, pend, drive>>
  BY Zenon DEF ConnClose
<1> QED
  BY <1>1, <1>2, <1>3, CallStep

LEMMA StreamCallStep ==
    ASSUME IInv, NEW c \in Conns, StreamCall(c)
    PROVE  IInv'
<1>1. Calls(c) /\ Allocated(Now, c)
  BY NowIs DEF StreamCall, Calls, Allocated
<1>2. Stays(Now, EventPush(Now, "txready", c), tracked, events)
  BY <1>1, InvIs, TxReadyStays
<1>3. /\ Become(EventPush(Now, "txready", c).st)
      /\ txPending' = (txPending \/ EventPush(Now, "txready", c).ok)
      /\ UNCHANGED <<tracked, events, pend, drive>>
  BY Zenon DEF StreamCall
<1> QED
  BY <1>1, <1>2, <1>3, CallStep

LEMMA ServiceCloseStep ==
    ASSUME IInv, ServiceClose
    PROVE  IInv'
<1>1. /\ EndpointClose(Now) \in Endpoint /\ Good(EndpointClose(Now), tracked, events)
      /\ \A d \in Conns : Allocated(Now, d) => Allocated(EndpointClose(Now), d)
  BY InvIs, EndpointCloseGood
<1>2. Now' = EndpointClose(Now)
  BY <1>1, BecomeIs DEF ServiceClose
<1>3. UNCHANGED <<tracked, events, pend, drive>> /\ txPending' = TRUE /\ drive = Idle
  BY DEF ServiceClose
<1>4. Good(Now, tracked, events)'
  BY <1>1, <1>2, <1>3
<1>5. TablesGood'
  BY <1>3 DEF IInv, TablesGood
<1>6. pend' # None => pend' \in Conns /\ Allocated(Now', pend')
  BY <1>1, <1>2, <1>3 DEF IInv, DriveGood
<1>7. drive' \in DriveRec /\ drive'.pc \notin {"write", "send"}
  BY <1>3, PhaseIs
<1> QED
  BY <1>3, <1>4, <1>5, <1>6, <1>7, QuietStep

-----------------------------------------------------------------------------
(***************************************************************************)
(* The service's table and its events.                                     *)
(***************************************************************************)

Table(t) == t \in Seq(EntryRec) /\ Len(t) <= MaxConns /\ Once(t)

LEMMA TableTypes ==
    ASSUME NEW t \in Seq(EntryRec)
    PROVE  Len(t) \in Nat /\ \A k \in 1 .. Len(t) : t[k] \in EntryRec /\ t[k].conn \in Conns
<1>1. \A k \in 1 .. Len(t) : t[k] \in EntryRec
  OBVIOUS
<1> QED
  BY <1>1 DEF EntryRec

LEMMA EventTypesOf ==
    ASSUME NEW q \in Seq(Event)
    PROVE  Len(q) \in Nat /\ \A k \in 1 .. Len(q) : q[k] \in Event /\ q[k].conn \in Conns /\ q[k].type \in EventTypes
<1>1. \A k \in 1 .. Len(q) : q[k] \in Event
  OBVIOUS
<1> QED
  BY <1>1 DEF Event

\* quic_service_track_conn
LEMMA TrackedIs ==
    ASSUME NEW t, Table(t), NEW c \in Conns, NEW mark, NEW u, u = Tracked(t, c, mark)
    PROVE  /\ Table(u)
           /\ \A k \in 1 .. Len(u) : u[k].conn = c \/ \E j \in 1 .. Len(t) : t[j].conn = u[k].conn
<1>1. PICK t1 : t1 = IF TrackedAt(t, c) = {} /\ Len(t) < MaxConns THEN Append(t, Entry(c)) ELSE t
  OBVIOUS
<1>2. PICK e : e = Entry(c)
  OBVIOUS
<1>3. e \in EntryRec /\ e.conn = c
  BY <1>2 DEF Entry, EntryRec
<1>4. t \in Seq(EntryRec) /\ Len(t) <= MaxConns /\ Once(t)
  BY DEF Table
<1>5. /\ t1 \in Seq(EntryRec) /\ Len(t1) \in Nat /\ Len(t1) <= MaxConns
      /\ Once(t1)
      /\ \A k \in 1 .. Len(t1) : t1[k].conn = c \/ \E j \in 1 .. Len(t) : t[j].conn = t1[k].conn
  <2>1. CASE TrackedAt(t, c) = {} /\ Len(t) < MaxConns
    <3>1. t1 = Append(t, e)
      BY <1>1, <1>2, <2>1
    <3>2. /\ t1 \in Seq(EntryRec) /\ Len(t1) = Len(t) + 1 /\ Len(t) \in Nat
          /\ t1[Len(t) + 1] = e /\ \A k \in 1 .. Len(t) : t1[k] = t[k]
          /\ \A k \in 1 .. Len(t) + 1 : k = Len(t) + 1 \/ k \in 1 .. Len(t)
      BY <1>3, <1>4, <3>1
    <3>3. \A k \in 1 .. Len(t) : t[k].conn # c
      BY <2>1 DEF TrackedAt
    <3>4. Once(t1)
      <4>1. SUFFICES ASSUME NEW k \in 1 .. Len(t) + 1, NEW j \in 1 .. Len(t) + 1, t1[k].conn = t1[j].conn
                     PROVE  k = j
        BY <3>2 DEF Once
      <4>2. CASE k \in 1 .. Len(t) /\ j \in 1 .. Len(t)
        BY <1>4, <3>2, <4>1, <4>2 DEF Once
      <4>3. CASE k = Len(t) + 1 /\ j \in 1 .. Len(t)
        BY <1>3, <3>2, <3>3, <4>1, <4>3
      <4>4. CASE k \in 1 .. Len(t) /\ j = Len(t) + 1
        BY <1>3, <3>2, <3>3, <4>1, <4>4
      <4> QED
        BY <3>2, <4>2, <4>3, <4>4
    <3>5. Len(t1) <= MaxConns
      BY <2>1, <3>2, Sizes
    <3> QED
      BY <1>3, <3>2, <3>4, <3>5
  <2>2. CASE ~(TrackedAt(t, c) = {} /\ Len(t) < MaxConns)
    <3>1. t1 = t
      BY <1>1, <2>2
    <3> QED
      BY <1>4, <3>1
  <2> QED
    BY <2>1, <2>2
<1>6. u = [i \in DOMAIN t1 |->
             IF t1[i].conn # c THEN t1[i]
             ELSE [t1[i] EXCEPT !.incoming = @ \/ mark = "incoming",
                                !.established = @ \/ mark = "established"]]
  BY <1>1, Zenon DEF Tracked
<1>7. DOMAIN t1 = 1 .. Len(t1)
  BY <1>5
<1>8. \A k \in 1 .. Len(t1) : u[k] \in EntryRec /\ u[k].conn = t1[k].conn
  <2>1. SUFFICES ASSUME NEW k \in 1 .. Len(t1)
                 PROVE  u[k] \in EntryRec /\ u[k].conn = t1[k].conn
    OBVIOUS
  <2>2. t1[k] \in EntryRec
    BY <1>5
  <2>3. CASE t1[k].conn # c
    BY <1>6, <1>7, <2>2, <2>3
  <2>4. CASE t1[k].conn = c
    <3>1. u[k] = [t1[k] EXCEPT !.incoming = @ \/ mark = "incoming",
                               !.established = @ \/ mark = "established"]
      BY <1>6, <1>7, <2>4
    <3> QED
      BY <2>2, <3>1 DEF EntryRec
  <2> QED
    BY <2>3, <2>4
<1>9. u \in Seq(EntryRec) /\ Len(u) = Len(t1)
  <2>1. u \in [1 .. Len(t1) -> EntryRec]
    BY <1>6, <1>7, <1>8
  <2>2. u \in Seq(EntryRec)
    BY <1>5, <2>1, SeqDef
  <2>3. DOMAIN u = 1 .. Len(t1) /\ DOMAIN u = 1 .. Len(u) /\ Len(u) \in Nat
    BY <2>1, <2>2
  <2> QED
    BY <1>5, <2>2, <2>3
<1>10. Once(u)
  BY <1>5, <1>8, <1>9 DEF Once
<1> QED
  BY <1>5, <1>8, <1>9, <1>10 DEF Table

\* quic_service_forget_conn
LEMMA ForgottenIs ==
    ASSUME NEW t, Table(t), NEW c \in Conns, NEW u, u = Forgotten(t, c)
    PROVE  /\ Table(u)
           /\ \A k \in 1 .. Len(u) : u[k].conn # c /\ \E j \in 1 .. Len(t) : t[j] = u[k]
<1>1. t \in Seq(EntryRec) /\ Len(t) <= MaxConns /\ Once(t) /\ Len(t) \in Nat
  BY DEF Table
<1>2. CASE TrackedAt(t, c) = {}
  <2>1. u = t
    BY <1>2 DEF Forgotten
  <2> QED
    BY <1>1, <1>2, <2>1 DEF TrackedAt, Table
<1>3. CASE TrackedAt(t, c) # {}
  <2>1. PICK i : i = CHOOSE k \in TrackedAt(t, c) : TRUE
    OBVIOUS
  <2>2. i \in 1 .. Len(t) /\ t[i].conn = c
    BY <1>3, <2>1 DEF TrackedAt
  <2>3. u = SwapOut(t, i)
    BY <1>3, <2>1 DEF Forgotten
  <2> DEFINE n == Len(t)
  <2>4. /\ u \in Seq(EntryRec) /\ Len(u) = n - 1
        /\ \A k \in 1 .. n - 1 : u[k] = IF k = i THEN t[n] ELSE t[k]
    <3>1. PICK T : T = EntryRec
      OBVIOUS
    <3>2. t \in Seq(T)
      BY <1>1, <3>1
    <3>3. /\ SwapOut(t, i) \in Seq(T) /\ Len(SwapOut(t, i)) = Len(t) - 1
          /\ \A k \in 1 .. Len(t) - 1 : SwapOut(t, i)[k] = IF k = i THEN t[Len(t)] ELSE t[k]
      BY <2>2, <3>2, SwapOutIs
    <3> QED
      BY <2>3, <3>1, <3>3
  <2> HIDE DEF n
  <2>5. \A k \in 1 .. n - 1 : \E j \in 1 .. n : /\ u[k] = t[j] /\ j # i
                                                /\ (k = i => j = n) /\ (k # i => j = k)
    <3>1. SUFFICES ASSUME NEW k \in 1 .. n - 1
                   PROVE  \E j \in 1 .. n : /\ u[k] = t[j] /\ j # i
                                            /\ (k = i => j = n) /\ (k # i => j = k)
      OBVIOUS
    <3>2. n \in Nat
      BY <1>1 DEF n
    <3>3. CASE k = i
      <4>1. n \in 1 .. n /\ n # i /\ u[k] = t[n]
        BY <2>4, <3>2, <3>3
      <4> QED
        BY <3>3, <4>1
    <3>4. CASE k # i
      <4>1. k \in 1 .. n /\ u[k] = t[k]
        BY <2>4, <3>2, <3>4
      <4> QED
        BY <3>4, <4>1
    <3> QED
      BY <3>3, <3>4
  <2>6. \A j \in 1 .. n : j # i => t[j].conn # c
    BY <1>1, <2>2 DEF Once, n
  <2>7. \A k \in 1 .. Len(u) : u[k].conn # c /\ \E j \in 1 .. Len(t) : t[j] = u[k]
    <3>1. SUFFICES ASSUME NEW k \in 1 .. n - 1
                   PROVE  u[k].conn # c /\ \E j \in 1 .. n : t[j] = u[k]
      BY <2>4 DEF n
    <3>2. PICK j \in 1 .. n : u[k] = t[j] /\ j # i
      BY <2>5
    <3> QED
      BY <2>6, <3>2
  <2>8. Once(u)
    <3>1. SUFFICES ASSUME NEW k \in 1 .. n - 1, NEW l \in 1 .. n - 1, u[k].conn = u[l].conn
                   PROVE  k = l
      BY <2>4 DEF Once
    <3>2. PICK j \in 1 .. n : u[k] = t[j] /\ (k = i => j = n) /\ (k # i => j = k)
      BY <2>5
    <3>3. PICK m \in 1 .. n : u[l] = t[m] /\ (l = i => m = n) /\ (l # i => m = l)
      BY <2>5
    <3>4. j = m
      BY <1>1, <3>1, <3>2, <3>3 DEF Once, n
    <3>5. n \in Nat
      BY <1>1 DEF n
    <3> QED
      BY <3>2, <3>3, <3>4, <3>5
  <2>9. Len(u) <= MaxConns
    BY <1>1, <2>4, Sizes DEF n
  <2> QED
    BY <2>4, <2>7, <2>8, <2>9 DEF Table
<1> QED
  BY <1>2, <1>3

\* Another table, of connections it had already or whose end is not reported.
LEMMA GoodTable ==
    ASSUME NEW st, NEW tr \in Seq(EntryRec), NEW u \in Seq(EntryRec), NEW ev, Good(st, tr, ev),
           \A k \in 1 .. Len(u) :
             \/ \E j \in 1 .. Len(tr) : tr[j].conn = u[k].conn
             \/ /\ Allocated(st, u[k].conn) /\ ~st.app[u[k].conn].told
                /\ ~(EndsIn(ev, u[k].conn) > 0)
    PROVE  Good(st, u, ev)
<1>1. Names(st, u)
  BY DEF Good, Names
<1>2. NothingAfter(st, u, ev)
  <2>1. ASSUME NEW c \in Conns, st.app[c].told \/ EndsIn(ev, c) > 0
        PROVE  Over(st, u, ev, c)
    <3>1. Over(st, tr, ev, c)
      BY <2>1 DEF Good, NothingAfter
    <3> QED
      BY <2>1, <3>1 DEF Over
  <2> QED
    BY <2>1 DEF Good, NothingAfter
<1> QED
  BY <1>1, <1>2 DEF Good

InOrder(ev) == EndsLast(ev) /\ \A k \in 1 .. Len(ev) : ev[k].type # "txready"

\* nx is st after the application has heard of the last of the first n events.
Consumes(st, nx, ev, n) ==
    /\ \A j \in 1 .. n - 1 : ev[j].type # "closed"
    /\ nx.conn = st.conn /\ nx.live = st.live /\ nx.cursor = st.cursor /\ nx.ring = st.ring
    /\ \A d \in Conns : nx.app[d].lost = st.app[d].lost
    /\ \A d \in Conns \ {ev[n].conn} : nx.app[d] = st.app[d]
    /\ nx.app[ev[n].conn].told = (st.app[ev[n].conn].told \/ ev[n].type = "closed")

LEMMA ConsumeGood ==
    ASSUME NEW st \in Endpoint, NEW nx \in Endpoint, NEW tr \in Seq(EntryRec), NEW ev \in Seq(Event),
           Good(st, tr, ev), InOrder(ev), NEW n \in 1 .. Len(ev), Consumes(st, nx, ev, n),
           NEW rest, rest = SubSeq(ev, n + 1, Len(ev))
    PROVE  Good(nx, tr, rest) /\ rest \in Seq(Event) /\ InOrder(rest) /\ Len(rest) <= Len(ev)
<1>0. /\ EndsLast(ev) /\ \A k \in 1 .. Len(ev) : ev[k].type # "txready"
      /\ \A j \in 1 .. n - 1 : ev[j].type # "closed"
      /\ nx.conn = st.conn /\ nx.live = st.live /\ nx.cursor = st.cursor /\ nx.ring = st.ring
      /\ \A d \in Conns : nx.app[d].lost = st.app[d].lost
      /\ \A d \in Conns \ {ev[n].conn} : nx.app[d] = st.app[d]
      /\ nx.app[ev[n].conn].told = (st.app[ev[n].conn].told \/ ev[n].type = "closed")
  BY DEF InOrder, Consumes
<1> DEFINE m == Len(ev) - n
<1>1. m \in Nat /\ n \in Nat /\ Len(ev) \in Nat /\ m <= Len(ev) /\ n \in 1 .. Len(ev)
  OBVIOUS
<1>2. rest \in Seq(Event) /\ Len(rest) = m /\ \A k \in 1 .. m : rest[k] = ev[n + k]
  OBVIOUS
<1>3. \A k \in 1 .. m : n + k \in 1 .. Len(ev) /\ n < n + k
  BY <1>1
<1> HIDE DEF m
<1>4. PICK e : e = ev[n]
  OBVIOUS
<1>5. e \in Event /\ e.conn \in Conns /\ Allocated(st, e.conn) /\ ~st.app[e.conn].told
  BY <1>1, <1>4, EventTypesOf DEF Good, Names, NothingAfter
<1>6. \A d \in Conns : InUse(nx, d) = InUse(st, d) /\ Allocated(nx, d) = Allocated(st, d)
  BY <1>0 DEF InUse, Allocated
<1>7. ASSUME NEW d \in Conns
      PROVE  /\ EndsIn(ev, d) \in Nat /\ EndsIn(rest, d) \in Nat
             /\ EndsIn(ev, d) = EndsIn(rest, d) + (IF e.type = "closed" /\ e.conn = d THEN 1 ELSE 0)
  <2>1. EndsIn(ev, d) \in Nat /\ EndsIn(rest, d) \in Nat
    BY <1>2, EndsZero
  <2>2. \A j \in 1 .. n - 1 : ~(ev[j].type = "closed" /\ ev[j].conn = d)
    BY <1>0
  <2>3. EndsIn(ev, d) = EndsIn(SubSeq(ev, n + 1, Len(ev)), d)
                          + (IF ev[n].type = "closed" /\ ev[n].conn = d THEN 1 ELSE 0)
    BY <2>2, EndsRest
  <2> QED
    BY <1>4, <2>1, <2>3, Zenon
<1>8. LiveTable(nx)
  BY <1>0 DEF Good, LiveTable, InUse
<1>9. Names(nx, nx.ring) /\ Names(nx, tr) /\ Names(nx, rest)
  BY <1>0, <1>2, <1>3 DEF Good, Names, Allocated
<1>10. EndsExact(nx, rest)
  <2>1. ASSUME NEW d \in Conns, Allocated(nx, d)
        PROVE  Ends(nx, rest, d) = IF InUse(nx, d) \/ nx.app[d].lost THEN 0 ELSE 1
    <3>1. Ends(st, ev, d) = IF InUse(nx, d) \/ nx.app[d].lost THEN 0 ELSE 1
      BY <1>0, <1>6, <2>1 DEF Good, EndsExact
    <3>2. EndsIn(st.ring, d) \in Nat /\ nx.ring = st.ring
      BY <1>0, EndsZero DEF Endpoint
    <3>3. CASE e.type = "closed" /\ e.conn = d
      <4>1. nx.app[d].told /\ ~st.app[d].told
        BY <1>0, <1>4, <1>5, <3>3
      <4>2. Ends(nx, rest, d) = EndsIn(st.ring, d) + EndsIn(rest, d) + 1
        BY <3>2, <4>1 DEF Ends
      <4>3. Ends(st, ev, d) = EndsIn(st.ring, d) + EndsIn(ev, d) + 0
        BY <4>1 DEF Ends
      <4>4. EndsIn(ev, d) = EndsIn(rest, d) + 1
        BY <1>7, <3>3
      <4>5. Ends(nx, rest, d) = Ends(st, ev, d)
        BY <1>7, <3>2, <4>2, <4>3, <4>4
      <4> QED
        BY <3>1, <4>5, Zenon
    <3>4. CASE ~(e.type = "closed" /\ e.conn = d)
      <4>1. EndsIn(ev, d) = EndsIn(rest, d)
        BY <1>7, <3>4
      <4>2. nx.app[d].told <=> st.app[d].told
        BY <1>0, <1>4, <3>4
      <4>3. (IF nx.app[d].told THEN 1 ELSE 0) = (IF st.app[d].told THEN 1 ELSE 0)
        BY <4>2
      <4>4. Ends(nx, rest, d) = Ends(st, ev, d)
        BY <3>2, <4>1, <4>3, Zenon DEF Ends
      <4> QED
        BY <3>1, <4>4, Zenon
    <3> QED
      BY <3>3, <3>4
  <2> QED
    BY <2>1 DEF EndsExact
<1>11. ASSUME NEW d \in Conns, nx.app[d].told \/ EndsIn(rest, d) > 0
       PROVE  Over(nx, tr, rest, d)
  <2>1. st.app[d].told \/ EndsIn(ev, d) > 0
    <3>1. CASE e.type = "closed" /\ e.conn = d
      BY <1>7, <3>1
    <3>2. CASE ~(e.type = "closed" /\ e.conn = d)
      <4>1. EndsIn(ev, d) = EndsIn(rest, d)
        BY <1>7, <3>2
      <4>2. nx.app[d].told => st.app[d].told
        BY <1>0, <1>4, <3>2
      <4> QED
        BY <1>11, <4>1, <4>2
    <3> QED
      BY <3>1, <3>2
  <2> QED
    BY <1>0, <2>1, ZenonT(60) DEF Good, NothingAfter, Over
<1>12. ASSUME NEW k \in 1 .. Len(rest)
       PROVE  ~nx.app[rest[k].conn].told
  <2>1. n + k \in 1 .. Len(ev) /\ n < n + k /\ rest[k] = ev[n + k]
    BY <1>2, <1>3
  <2>2. ~st.app[rest[k].conn].told /\ rest[k].conn \in Conns
    BY <2>1, EventTypesOf DEF Good, NothingAfter
  <2>3. CASE rest[k].conn # e.conn
    BY <1>0, <1>4, <2>2, <2>3
  <2>4. CASE rest[k].conn = e.conn
    <3>1. ev[n].type # "closed"
      BY <1>0, <1>1, <1>4, <2>1, <2>4, SMTT(30) DEF EndsLast
    <3> QED
      BY <1>0, <1>4, <2>2, <2>4, <3>1
  <2> QED
    BY <2>3, <2>4
<1>13. NothingAfter(nx, tr, rest)
  BY <1>11, <1>12 DEF NothingAfter
<1>14. AppExact(nx)
  <2>1. \A d \in Conns : ~Allocated(nx, d) => nx.app[d] = Unknown
    BY <1>0, <1>4, <1>5, <1>6 DEF Good, AppExact
  <2> QED
    BY <1>0, <1>6, <2>1 DEF Good, AppExact
<1>15. EndsLast(rest)
  <2>1. SUFFICES ASSUME NEW i \in 1 .. m, NEW j \in 1 .. m, i < j,
                        rest[i].conn = rest[j].conn, rest[i].type = "closed"
                 PROVE  rest[j].type = "txready"
    BY <1>2 DEF EndsLast
  <2>2. n + i < n + j
    <3>1. i \in Nat /\ j \in Nat /\ n \in Nat /\ i < j
      BY <1>1, <2>1
    <3> QED
      BY <3>1
  <2> QED
    BY <1>0, <1>2, <1>3, <2>1, <2>2 DEF EndsLast
<1>16. \A k \in 1 .. Len(rest) : rest[k].type # "txready"
  BY <1>0, <1>2, <1>3
<1>17. /\ Len(nx.live) <= MaxConns /\ Len(nx.ring) <= RingCap /\ EndsLast(nx.ring)
  BY <1>0 DEF Good
<1>18. Good(nx, tr, rest)
  BY <1>8, <1>9, <1>10, <1>13, <1>14, <1>17 DEF Good
<1> QED
  BY <1>1, <1>2, <1>15, <1>16, <1>18 DEF InOrder

\* What the application learns with event e.
LEMMA ToldIs ==
    ASSUME app \in [Conns -> AppRec], NEW e \in Event, Told(e)
    PROVE  /\ app' \in [Conns -> AppRec]
           /\ \A d \in Conns : app'[d].lost = app[d].lost /\ app'[d].unheard = app[d].unheard
           /\ \A d \in Conns \ {e.conn} : app'[d] = app[d]
           /\ app'[e.conn].told = (app[e.conn].told \/ e.type = "closed")
<1>1. e.conn \in Conns /\ app[e.conn] \in AppRec
  BY DEF Event
<1>2. PICK c \in Conns : c = e.conn
  BY <1>1
<1>3. PICK closed \in BOOLEAN : closed = (e.type = "closed")
  OBVIOUS
<1>4. PICK r : r = [app[c] EXCEPT !.known = TRUE, !.told = @ \/ closed]
  OBVIOUS
<1>5. /\ r \in AppRec /\ r.lost = app[c].lost /\ r.unheard = app[c].unheard
      /\ r.told = (app[c].told \/ closed)
  BY <1>1, <1>2, <1>4 DEF AppRec
<1>6. app' = [app EXCEPT ![c] = r]
  BY <1>1, <1>2, <1>3, <1>4 DEF Told, AppRec
<1> QED
  BY <1>2, <1>3, <1>5, <1>6

\* A step of the application that consumes events keeps what was announced.
LEMMA ConsumeStep ==
    ASSUME IInv, drive = Idle, UNCHANGED <<conn, live, cursor, ring, tracked, pend, txPending, drive>>,
           NEW n \in 1 .. Len(events), \A j \in 1 .. n - 1 : events[j].type # "closed",
           app' \in [Conns -> AppRec],
           \A d \in Conns : app'[d].lost = app[d].lost /\ app'[d].unheard = app[d].unheard,
           \A d \in Conns \ {events[n].conn} : app'[d] = app[d],
           app'[events[n].conn].told = (app[events[n].conn].told \/ events[n].type = "closed"),
           events' = SubSeq(events, n + 1, Len(events))
    PROVE  IInv'
<1>1. PICK nx : nx = Now'
  OBVIOUS
<1>2. /\ nx.conn = conn /\ nx.live = live /\ nx.cursor = cursor /\ nx.ring = ring /\ nx.app = app'
      /\ nx = [conn |-> conn, live |-> live, cursor |-> cursor, ring |-> ring, app |-> app']
  BY <1>1 DEF Now
<1>3. /\ conn \in [Conns -> ConnRec] /\ live \in Seq(Conns) /\ cursor \in Nat /\ ring \in Seq(Event)
  BY InvIs, NowIs DEF Endpoint
<1>4. nx \in Endpoint
  BY <1>2, <1>3 DEF Endpoint
<1>5. Good(Now, tracked, events) /\ InOrder(events)
  BY DEF IInv, TablesGood, InOrder
<1>6. PICK rest : rest = SubSeq(events, n + 1, Len(events))
  OBVIOUS
<1>7. Good(nx, tracked, rest) /\ rest \in Seq(Event) /\ InOrder(rest) /\ Len(rest) <= Len(events)
  <2>1. Consumes(Now, nx, events, n)
    BY <1>2, NowIs DEF Consumes
  <2> QED
    BY <1>4, <1>5, <1>6, <2>1, InvIs, ConsumeGood
<1>8. TablesGood'
  <2>1. Len(events) <= EventCap /\ Len(events) \in Nat /\ Len(rest) \in Nat
    BY <1>7, InvIs DEF IInv, TablesGood
  <2> QED
    BY <1>6, <1>7, <2>1, Sizes DEF IInv, TablesGood, InOrder
<1>9. \A d \in Conns : /\ Asks(nx, d) => Asks(Now, d)
                       /\ Allocated(nx, d) = Allocated(Now, d)
  BY <1>2, NowIs DEF Asks, InUse, Allocated
<1>10. ~txPending' => Heard(nx, Conns)
  BY <1>2, <1>9, NowIs DEF IInv, DriveGood, Heard
<1>11. pend' # None => pend' \in Conns /\ Allocated(nx, pend') /\ txPending'
  BY <1>9 DEF IInv, DriveGood
<1>12. drive' \in DriveRec /\ drive'.pc \notin {"write", "send"} /\ txPending' \in BOOLEAN
  BY PhaseIs, InvIs
<1> QED
  BY <1>1, <1>6, <1>7, <1>8, <1>10, <1>11, <1>12, QuietStep

LEMMA NextEventStep ==
    ASSUME IInv, NextEvent
    PROVE  IInv'
<1>1. app \in [Conns -> AppRec] /\ events \in Seq(Event)
  BY InvIs, NowIs DEF Endpoint
<1>2. events # <<>> /\ Told(Head(events)) /\ events' = Tail(events)
  BY DEF NextEvent
<1>3. 1 \in 1 .. Len(events) /\ Head(events) = events[1] /\ Tail(events) = SubSeq(events, 1 + 1, Len(events))
  BY <1>1, <1>2
<1>4. events[1] \in Event
  BY <1>1, <1>3
<1>5. /\ app' \in [Conns -> AppRec]
      /\ \A d \in Conns : app'[d].lost = app[d].lost /\ app'[d].unheard = app[d].unheard
      /\ \A d \in Conns \ {events[1].conn} : app'[d] = app[d]
      /\ app'[events[1].conn].told = (app[events[1].conn].told \/ events[1].type = "closed")
  BY <1>1, <1>2, <1>3, <1>4, ToldIs
<1>6. \A j \in 1 .. 1 - 1 : events[j].type # "closed"
  OBVIOUS
<1>7. drive = Idle /\ UNCHANGED <<conn, live, cursor, ring, tracked, pend, txPending, drive>>
  BY DEF NextEvent
<1>8. events' = SubSeq(events, 1 + 1, Len(events))
  BY <1>2, <1>3
<1>9. PICK n \in 1 .. Len(events) : n = 1
  BY <1>3
<1> QED
  BY <1>5, <1>6, <1>7, <1>8, <1>9, ConsumeStep

LEMMA HostNextEventStep ==
    ASSUME IInv, HostNextEvent
    PROVE  IInv'
<1>1. app \in [Conns -> AppRec] /\ events \in Seq(Event) /\ events # <<>> /\ Len(events) \in Nat
  BY InvIs, NowIs DEF Endpoint, HostNextEvent
<1>2. drive = Idle /\ UNCHANGED <<conn, live, cursor, ring, tracked, pend, txPending, drive>>
  BY DEF HostNextEvent
<1>3. PICK seen : seen = {i \in 1 .. Len(events) : HostSees(events[i])}
  OBVIOUS
<1>4. IF seen = {} THEN events' = <<>> /\ UNCHANGED app
      ELSE LET i == CHOOSE k \in seen : \A j \in seen : k <= j
           IN events' = SubSeq(events, i + 1, Len(events)) /\ Told(events[i])
  BY <1>3, Zenon DEF HostNextEvent
<1>5. \A j \in (1 .. Len(events)) \ seen : events[j].type # "closed"
  BY <1>3 DEF HostSees
<1>6. CASE seen = {}
  <2>1. PICK n \in 1 .. Len(events) : n = Len(events)
    BY <1>1
  <2>2. events' = SubSeq(events, n + 1, Len(events)) /\ app' = app
    <3>1. SubSeq(events, Len(events) + 1, Len(events)) = <<>>
      BY <1>1
    <3> QED
      BY <1>4, <1>6, <2>1, <3>1
  <2>3. \A j \in 1 .. n : j \in (1 .. Len(events)) \ seen
    BY <1>6, <2>1
  <2>4. (\A j \in 1 .. n - 1 : events[j].type # "closed") /\ events[n].type # "closed"
    BY <1>5, <2>1, <2>3
  <2>5. app[events[n].conn].told \in BOOLEAN
    BY <1>1, EventTypesOf DEF AppRec
  <2>6. app'[events[n].conn].told = (app[events[n].conn].told \/ events[n].type = "closed")
    BY <2>2, <2>4, <2>5
  <2> QED
    BY <1>1, <1>2, <2>2, <2>4, <2>6, ConsumeStep
<1>7. CASE seen # {}
  <2>1. PICK i : i = CHOOSE k \in seen : \A j \in seen : k <= j
    OBVIOUS
  <2>2. seen \subseteq Nat
    BY <1>3
  <2>3. i \in seen /\ \A j \in seen : i <= j
    BY <1>7, <2>1, <2>2, LeastNumber
  <2>4. i \in 1 .. Len(events) /\ events[i] \in Event
    BY <1>1, <1>3, <2>3
  <2>5. events' = SubSeq(events, i + 1, Len(events)) /\ Told(events[i])
    BY <1>4, <1>7, <2>1, Zenon
  <2>6. \A j \in 1 .. i - 1 : events[j].type # "closed"
    <3>1. \A j \in 1 .. i - 1 : j \in 1 .. Len(events) /\ ~(i <= j)
      BY <1>1, <2>4
    <3> QED
      BY <1>5, <2>3, <3>1
  <2>7. /\ app' \in [Conns -> AppRec]
        /\ \A d \in Conns : app'[d].lost = app[d].lost /\ app'[d].unheard = app[d].unheard
        /\ \A d \in Conns \ {events[i].conn} : app'[d] = app[d]
        /\ app'[events[i].conn].told = (app[events[i].conn].told \/ events[i].type = "closed")
    BY <1>1, <2>4, <2>5, ToldIs
  <2> QED
    BY <1>2, <2>4, <2>5, <2>6, <2>7, ConsumeStep
<1> QED
  BY <1>6, <1>7

\* Another view of the application, which still agrees about the ends.
LEMMA ViewStep ==
    ASSUME IInv, drive = Idle, UNCHANGED <<conn, live, cursor, ring, events, pend, txPending, drive>>,
           app' \in [Conns -> AppRec],
           \A d \in Conns : /\ app'[d].told = app[d].told /\ app'[d].lost = app[d].lost
                            /\ app'[d].unheard = app[d].unheard
                            /\ ~Allocated(Now, d) => app'[d] = app[d],
           Table(tracked'), Good(Now', tracked, events) => Good(Now', tracked', events)
    PROVE  IInv'
<1>1. PICK nx : nx = Now'
  OBVIOUS
<1>2. /\ nx.conn = conn /\ nx.live = live /\ nx.cursor = cursor /\ nx.ring = ring /\ nx.app = app'
      /\ nx = [conn |-> conn, live |-> live, cursor |-> cursor, ring |-> ring, app |-> app']
  BY <1>1 DEF Now
<1>3. /\ conn \in [Conns -> ConnRec] /\ live \in Seq(Conns) /\ cursor \in Nat /\ ring \in Seq(Event)
  BY InvIs, NowIs DEF Endpoint
<1>4. nx \in Endpoint
  BY <1>2, <1>3 DEF Endpoint
<1>5. \A d \in Conns : /\ InUse(nx, d) <=> InUse(Now, d)
                       /\ Allocated(nx, d) <=> Allocated(Now, d)
                       /\ Asks(nx, d) => Asks(Now, d)
  BY <1>2, NowIs DEF Asks, InUse, Allocated
<1>6. Good(nx, tracked, events)
  <2>1. PICK st : st = Now
    OBVIOUS
  <2>2. /\ nx.live = st.live /\ nx.cursor = st.cursor /\ nx.ring = st.ring
    BY <1>2, <2>1, NowIs
  <2>3. \A d \in Conns :
          /\ InUse(nx, d) <=> InUse(st, d)
          /\ Allocated(nx, d) <=> Allocated(st, d)
          /\ nx.app[d].told = st.app[d].told /\ nx.app[d].lost = st.app[d].lost
          /\ ~Allocated(st, d) => nx.app[d] = st.app[d]
    BY <1>2, <1>5, <2>1, NowIs
  <2>4. tracked \in Seq(EntryRec) /\ events \in Seq(Event) /\ Good(st, tracked, events)
    BY <2>1, InvIs
  <2> QED
    BY <1>4, <2>2, <2>3, <2>4, GoodFrame
<1>7. Good(Now, tracked, events)'
  BY <1>1, <1>6
<1>8. TablesGood'
  BY DEF IInv, TablesGood, Table
<1>9. ~txPending' => Heard(nx, Conns)
  BY <1>2, <1>5, NowIs DEF IInv, DriveGood, Heard
<1>10. pend' # None => pend' \in Conns /\ Allocated(nx, pend') /\ txPending'
  BY <1>5 DEF IInv, DriveGood
<1>11. drive' \in DriveRec /\ drive'.pc \notin {"write", "send"} /\ txPending' \in BOOLEAN
  BY PhaseIs, InvIs
<1> QED
  BY <1>1, <1>7, <1>8, <1>9, <1>10, <1>11, QuietStep

LEMMA AcceptConnStep ==
    ASSUME IInv, AcceptConn
    PROVE  IInv'
<1>1. PICK ready : ready = {i \in 1 .. Len(tracked) : /\ tracked[i].incoming /\ tracked[i].established
                                                      /\ ~tracked[i].accepted}
  OBVIOUS
<1>2. PICK i : i = CHOOSE k \in ready : \A j \in ready : k <= j
  OBVIOUS
<1>3. /\ ready # {} /\ tracked' = [tracked EXCEPT ![i].accepted = TRUE]
      /\ app' = [app EXCEPT ![tracked[i].conn].known = TRUE]
      /\ drive = Idle /\ UNCHANGED <<conn, live, cursor, ring, events, pend, txPending, drive>>
  BY <1>1, <1>2, Zenon DEF AcceptConn
<1>4. i \in 1 .. Len(tracked)
  <2>1. ready \subseteq Nat /\ ready \subseteq 1 .. Len(tracked)
    BY <1>1
  <2>2. i \in ready
    BY <1>2, <1>3, <2>1, LeastNumber
  <2> QED
    BY <2>1, <2>2
<1>5. tracked \in Seq(EntryRec) /\ Len(tracked) <= MaxConns /\ Once(tracked) /\ app \in [Conns -> AppRec]
  BY InvIs, NowIs DEF IInv, TablesGood, Endpoint
<1>6. PICK c : c = tracked[i].conn
  OBVIOUS
<1>7. tracked[i] \in EntryRec /\ c \in Conns /\ Allocated(Now, c) /\ app[c] \in AppRec
  BY <1>4, <1>5, <1>6, TableTypes, InvIs DEF Good, Names
<1>8. PICK r : r = [app[c] EXCEPT !.known = TRUE]
  OBVIOUS
<1>9. r \in AppRec /\ r.told = app[c].told /\ r.lost = app[c].lost /\ r.unheard = app[c].unheard
  BY <1>7, <1>8 DEF AppRec
<1>10. app' = [app EXCEPT ![c] = r]
  BY <1>3, <1>6, <1>8, Zenon
<1>11. app' \in [Conns -> AppRec] /\ app'[c] = r /\ \A d \in Conns \ {c} : app'[d] = app[d]
  BY <1>5, <1>7, <1>9, <1>10
<1>12. \A d \in Conns : /\ app'[d].told = app[d].told /\ app'[d].lost = app[d].lost
                        /\ app'[d].unheard = app[d].unheard
                        /\ ~Allocated(Now, d) => app'[d] = app[d]
  BY <1>7, <1>9, <1>11
<1>13. PICK e : e = [tracked[i] EXCEPT !.accepted = TRUE]
  OBVIOUS
<1>14. e \in EntryRec /\ e.conn = c
  BY <1>6, <1>7, <1>13 DEF EntryRec
<1>15. PICK u : u = tracked'
  OBVIOUS
<1>16. u = [tracked EXCEPT ![i] = e]
  BY <1>3, <1>13, <1>15, Zenon
<1>17. /\ u \in Seq(EntryRec) /\ Len(u) = Len(tracked) /\ \A k \in 1 .. Len(tracked) : u[k].conn = tracked[k].conn
  <2>1. u \in Seq(EntryRec) /\ Len(u) = Len(tracked) /\ u[i] = e
        /\ \A k \in (1 .. Len(tracked)) \ {i} : u[k] = tracked[k]
    BY <1>4, <1>5, <1>14, <1>16
  <2> QED
    BY <1>6, <1>14, <2>1
<1>18. Table(u)
  BY <1>5, <1>17 DEF Table, Once
<1>19. Good(Now', tracked, events) => Good(Now', u, events)
  BY <1>5, <1>17, GoodTable
<1> QED
  BY <1>3, <1>11, <1>12, <1>15, <1>18, <1>19, ViewStep

LEMMA DialStep ==
    ASSUME IInv, NEW c \in Conns, Dial(c)
    PROVE  IInv'
<1>1. PICK role : role = "client"
  OBVIOUS
<1>2. PICK type : type = "txready"
  OBVIOUS
<1>3. PICK p : p = EventPush(Added(Now, c, role), type, c)
  OBVIOUS
<1>4. PICK t : t = Tracked(tracked, c, "outgoing")
  OBVIOUS
<1>5. PICK ok \in BOOLEAN : ok = (TrackedAt(t, c) # {})
  OBVIOUS
<1>6. /\ Become([p.st EXCEPT !.app[c].known = ok]) /\ tracked' = t
      /\ txPending' = (txPending \/ ok) /\ UNCHANGED <<events, pend, drive>>
      /\ drive = Idle /\ conn[c] = NoObject /\ MayAdd(Now, "client")
  BY <1>1, <1>2, <1>3, <1>4, <1>5, Zenon DEF Dial, ClientNew, Announce
<1>7. Stays(Now, p, tracked, events) /\ InUse(p.st, c)
  <2>1. ~Allocated(Now, c) /\ Len(Now.live) < MaxConns
    BY <1>6, NowIs DEF Allocated, MayAdd
  <2>2. role \in {"client", "server"} /\ type \in {"txready", "incoming"}
    BY <1>1, <1>2
  <2> QED
    BY <1>3, <2>1, <2>2, InvIs, NewStays
<1>8. PICK st : st = p.st
  OBVIOUS
<1>9. /\ st \in Endpoint /\ Good(st, tracked, events) /\ InUse(st, c)
      /\ \A S \in SUBSET Conns : Heard(Now, S) => Heard(st, S)
      /\ \A d \in Conns : Allocated(Now, d) => Allocated(st, d)
  BY <1>7, <1>8 DEF Stays, Keeps
<1>10. Allocated(st, c) /\ st.app \in [Conns -> AppRec]
  BY <1>9, InvIs, InUseNotEnded DEF Endpoint
<1>11. PICK r : r = [st.app[c] EXCEPT !.known = ok]
  OBVIOUS
<1>12. /\ r \in AppRec /\ r.told = st.app[c].told /\ r.lost = st.app[c].lost
       /\ r.unheard = st.app[c].unheard
  BY <1>10, <1>11 DEF AppRec
<1>13. PICK nx : nx = [st EXCEPT !.app[c].known = ok]
  OBVIOUS
<1>14. nx = [st EXCEPT !.app[c] = r]
  BY <1>11, <1>13, Zenon
<1>15. /\ nx \in Endpoint /\ nx.conn = st.conn /\ nx.live = st.live /\ nx.cursor = st.cursor
       /\ nx.ring = st.ring /\ nx.app[c] = r /\ \A d \in Conns \ {c} : nx.app[d] = st.app[d]
  BY <1>9, <1>12, <1>14 DEF Endpoint
<1>16. \A d \in Conns : /\ InUse(nx, d) <=> InUse(st, d)
                        /\ Allocated(nx, d) <=> Allocated(st, d)
                        /\ Asks(nx, d) => Asks(st, d)
  BY <1>12, <1>15 DEF InUse, Allocated, Asks
<1>17. Good(nx, tracked, events)
  <2>1. \A d \in Conns :
          /\ nx.app[d].told = st.app[d].told /\ nx.app[d].lost = st.app[d].lost
          /\ ~Allocated(st, d) => nx.app[d] = st.app[d]
    BY <1>10, <1>12, <1>15
  <2> QED
    BY <1>9, <1>15, <1>16, <2>1, InvIs, GoodFrame
<1>18. Table(t) /\ \A k \in 1 .. Len(t) : t[k].conn = c \/ \E j \in 1 .. Len(tracked) : tracked[j].conn = t[k].conn
  <2>1. Table(tracked)
    BY DEF IInv, TablesGood, Table
  <2> QED
    BY <1>4, <2>1, TrackedIs
<1>19. Good(nx, t, events)
  <2>1. Allocated(nx, c) /\ ~nx.app[c].told /\ ~(EndsIn(events, c) > 0)
    BY <1>9, <1>15, <1>16, <1>17, InvIs, InUseNotEnded
  <2>2. t \in Seq(EntryRec)
    BY <1>18 DEF Table
  <2> QED
    BY <1>17, <1>18, <2>1, <2>2, InvIs, GoodTable
<1>20. Now' = nx
  BY <1>6, <1>8, <1>13, <1>15, BecomeIs
<1>21. Good(Now, tracked, events)'
  BY <1>6, <1>19, <1>20
<1>22. TablesGood'
  BY <1>6, <1>18 DEF IInv, TablesGood, Table
<1>23. ~txPending' => Heard(nx, Conns)
  <2>1. ~txPending' => Heard(st, Conns)
    BY <1>6, <1>9 DEF IInv, DriveGood
  <2> QED
    BY <1>15, <1>16, <2>1 DEF Heard
<1>24. pend' # None => pend' \in Conns /\ Allocated(nx, pend') /\ txPending'
  BY <1>6, <1>9, <1>16 DEF IInv, DriveGood
<1>25. drive' \in DriveRec /\ drive'.pc \notin {"write", "send"} /\ txPending' \in BOOLEAN
  BY <1>6, PhaseIs, InvIs
<1> QED
  BY <1>20, <1>21, <1>22, <1>23, <1>24, <1>25, QuietStep

LEMMA ReleaseStep ==
    ASSUME IInv, NEW c \in Conns, Release(c)
    PROVE  IInv'
<1>1. /\ drive = Idle /\ app[c].told /\ Releasable(c)
      /\ conn' = [conn EXCEPT ![c] = NoObject] /\ app' = [app EXCEPT ![c] = Unknown]
      /\ UNCHANGED <<live, cursor, ring, tracked, events, pend, txPending, drive>>
  BY DEF Release
<1>2. /\ pend # c /\ ~InUse(Now, c)
      /\ \A k \in 1 .. Len(tracked) : tracked[k].conn # c
      /\ \A k \in 1 .. Len(events) : events[k].conn # c
      /\ \A k \in 1 .. Len(ring) : ring[k].conn # c
  BY <1>1, NowIs DEF Releasable, TrackedAt, ServiceRefs, EndpointReleasable, EndpointRefs, RefsIn,
     Registered, InUse
<1>3. PICK st : st = Now
  OBVIOUS
<1>4. PICK nx : nx = Now'
  OBVIOUS
<1>5. /\ st \in Endpoint /\ Good(st, tracked, events) /\ tracked \in Seq(EntryRec) /\ events \in Seq(Event)
      /\ st.conn \in [Conns -> ConnRec] /\ st.app \in [Conns -> AppRec]
  BY <1>3, InvIs DEF Endpoint
<1>6. NoObject \in ConnRec /\ Unknown \in AppRec /\ NoObject.role = "none"
  BY DEF NoObject, Unknown, ConnRec, AppRec, Roles
<1>7. /\ st.conn = conn /\ st.live = live /\ st.cursor = cursor /\ st.ring = ring /\ st.app = app
      /\ nx = [conn |-> conn', live |-> live, cursor |-> cursor, ring |-> ring, app |-> app']
  BY <1>1, <1>3, <1>4, NowIs DEF Now
<1>8. /\ conn' \in [Conns -> ConnRec] /\ conn'[c] = NoObject
      /\ \A d \in Conns \ {c} : conn'[d] = conn[d]
      /\ app' \in [Conns -> AppRec] /\ app'[c] = Unknown
      /\ \A d \in Conns \ {c} : app'[d] = app[d]
  BY <1>1, <1>5, <1>6, <1>7
<1>9. /\ nx \in Endpoint /\ nx.live = st.live /\ nx.cursor = st.cursor /\ nx.ring = st.ring
      /\ nx.conn[c] = NoObject /\ \A d \in Conns \ {c} : nx.conn[d] = st.conn[d]
      /\ nx.app[c] = Unknown /\ \A d \in Conns \ {c} : nx.app[d] = st.app[d]
  BY <1>5, <1>7, <1>8 DEF Endpoint
<1>10. /\ ~InUse(st, c) /\ ~InUse(nx, c) /\ ~Allocated(nx, c)
       /\ \A d \in Conns : InUse(nx, d) <=> InUse(st, d)
       /\ \A d \in Conns \ {c} : Allocated(nx, d) <=> Allocated(st, d)
  BY <1>2, <1>3, <1>6, <1>9 DEF InUse, Allocated
<1>11. /\ \A k \in 1 .. Len(st.ring) : st.ring[k].conn \in Conns \ {c}
       /\ \A k \in 1 .. Len(tracked) : tracked[k].conn \in Conns \ {c}
       /\ \A k \in 1 .. Len(events) : events[k].conn \in Conns \ {c}
  <2>1. st.ring \in Seq(Event)
    BY <1>5 DEF Endpoint
  <2> QED
    BY <1>2, <1>5, <1>7, <2>1, TableTypes, EventTypesOf
<1>12. LiveTable(nx)
  <2>1. \A k \in 1 .. Len(st.live) : st.live[k] \in Conns
    BY <1>5 DEF Endpoint
  <2> QED
    BY <1>5, <1>9, <1>10, <2>1 DEF Good, LiveTable
<1>13. Names(nx, nx.ring) /\ Names(nx, tracked) /\ Names(nx, events)
  BY <1>5, <1>9, <1>10, <1>11 DEF Good, Names
<1>14. EndsExact(nx, events)
  <2>1. ASSUME NEW d \in Conns, Allocated(nx, d)
        PROVE  Ends(nx, events, d) = IF InUse(nx, d) \/ nx.app[d].lost THEN 0 ELSE 1
    <3>1. d # c
      BY <1>10, <2>1
    <3>2. nx.app[d] = st.app[d] /\ Allocated(st, d) /\ (InUse(nx, d) <=> InUse(st, d))
      BY <1>9, <1>10, <2>1, <3>1
    <3>3. Ends(nx, events, d) = Ends(st, events, d)
      BY <1>9, <3>2, Zenon DEF Ends
    <3>4. Ends(st, events, d) = IF InUse(st, d) \/ st.app[d].lost THEN 0 ELSE 1
      BY <1>5, <3>2 DEF Good, EndsExact
    <3> QED
      BY <3>2, <3>3, <3>4, Zenon
  <2> QED
    BY <2>1 DEF EndsExact
<1>15. NothingAfter(nx, tracked, events)
  <2>1. EndsIn(events, c) = 0
    <3>1. \A k \in 1 .. Len(events) : ~(events[k].type = "closed" /\ events[k].conn = c)
      BY <1>2
    <3> QED
      BY <1>5, <3>1, EndsZero
  <2>2. ASSUME NEW d \in Conns, nx.app[d].told \/ EndsIn(events, d) > 0
        PROVE  Over(nx, tracked, events, d)
    <3>1. d # c
      BY <1>9, <2>1, <2>2 DEF Unknown
    <3>2. Over(st, tracked, events, d)
      BY <1>5, <1>9, <2>2, <3>1 DEF Good, NothingAfter
    <3> QED
      BY <1>9, <3>2 DEF Over
  <2>3. \A k \in 1 .. Len(events) : ~nx.app[events[k].conn].told
    BY <1>5, <1>9, <1>11 DEF Good, NothingAfter
  <2> QED
    BY <2>2, <2>3 DEF NothingAfter
<1>16. AppExact(nx)
  <2>1. \A d \in Conns \ {c} : /\ ~Allocated(nx, d) => nx.app[d] = Unknown
                               /\ InUse(nx, d) => ~nx.app[d].lost
    BY <1>5, <1>9, <1>10 DEF Good, AppExact
  <2> QED
    BY <1>9, <1>10, <2>1 DEF AppExact
<1>17. Len(nx.live) <= MaxConns /\ Len(nx.ring) <= RingCap /\ EndsLast(nx.ring)
  BY <1>5, <1>9 DEF Good
<1>18. Good(nx, tracked, events)
  BY <1>9, <1>12, <1>13, <1>14, <1>15, <1>16, <1>17 DEF Good
<1>19. Good(Now, tracked, events)' /\ TablesGood'
  BY <1>1, <1>4, <1>18 DEF IInv, TablesGood
<1>20. ~txPending' => Heard(nx, Conns)
  <2>1. \A d \in Conns : Asks(nx, d) => Asks(st, d)
    BY <1>9, <1>10 DEF Asks
  <2>2. ~txPending' => Heard(st, Conns)
    BY <1>1, <1>3 DEF IInv, DriveGood
  <2> QED
    BY <1>9, <2>1, <2>2 DEF Heard
<1>21. pend' # None => pend' \in Conns /\ Allocated(nx, pend') /\ txPending'
  BY <1>1, <1>2, <1>3, <1>10 DEF IInv, DriveGood
<1>22. drive' \in DriveRec /\ drive'.pc \notin {"write", "send"} /\ txPending' \in BOOLEAN
  BY <1>1, PhaseIs, InvIs
<1> QED
  BY <1>4, <1>19, <1>20, <1>21, <1>22, QuietStep

-----------------------------------------------------------------------------
(***************************************************************************)
(* The drain: one event leaves the endpoint's ring, and then the fold.     *)
(***************************************************************************)

\* q is e followed by rest.
Splits(q, e, rest) ==
    /\ e \in Event /\ e = q[1] /\ 1 \in 1 .. Len(q)
    /\ rest \in Seq(Event) /\ Len(rest) = Len(q) - 1 /\ Len(q) \in Nat
    /\ \A k \in 1 .. Len(rest) : k + 1 \in 1 .. Len(q) /\ 1 < k + 1 /\ rest[k] = q[k + 1]
    /\ \A d \in Conns : EndsIn(q, d) = EndsIn(rest, d)
                          + (IF e.type = "closed" /\ e.conn = d THEN 1 ELSE 0)

LEMMA TailIs ==
    ASSUME NEW q \in Seq(Event), q # <<>>, NEW e, e = Head(q), NEW rest, rest = Tail(q)
    PROVE  Splits(q, e, rest)
<1>1. /\ e \in Event /\ e = q[1] /\ 1 \in 1 .. Len(q)
      /\ rest \in Seq(Event) /\ Len(rest) = Len(q) - 1 /\ Len(q) \in Nat
      /\ rest = SubSeq(q, 1 + 1, Len(q))
  OBVIOUS
<1>2. \A k \in 1 .. Len(rest) : k + 1 \in 1 .. Len(q) /\ 1 < k + 1 /\ rest[k] = q[k + 1]
  OBVIOUS
<1>3. ASSUME NEW d \in Conns
      PROVE  EndsIn(q, d) = EndsIn(rest, d) + (IF e.type = "closed" /\ e.conn = d THEN 1 ELSE 0)
  <2>1. PICK n \in 1 .. Len(q) : n = 1
    BY <1>1
  <2>2. \A j \in 1 .. n - 1 : ~(q[j].type = "closed" /\ q[j].conn = d)
    BY <2>1
  <2>3. EndsIn(q, d) = EndsIn(SubSeq(q, n + 1, Len(q)), d)
                         + (IF q[n].type = "closed" /\ q[n].conn = d THEN 1 ELSE 0)
    BY <2>2, EndsRest
  <2> QED
    BY <1>1, <2>1, <2>3, Zenon
<1> QED
  BY <1>1, <1>2, <1>3 DEF Splits

\* nx is st after e, the first event of its ring, has been translated: b says whether the
\* service had room for it.
Takes(st, nx, tr, tr2, ev, ev2, e, b) ==
    /\ nx.conn = st.conn /\ nx.live = st.live /\ nx.cursor = st.cursor
    /\ st.ring # <<>> /\ e = Head(st.ring) /\ nx.ring = Tail(st.ring)
    /\ \A d \in Conns \ {e.conn} : nx.app[d] = st.app[d]
    /\ nx.app[e.conn].told = st.app[e.conn].told
    /\ nx.app[e.conn].lost = (st.app[e.conn].lost \/ (e.type = "closed" /\ ~b))
    /\ ev2 = IF b THEN Append(ev, e) ELSE ev
    /\ b => e.type # "txready"
    /\ \A k \in 1 .. Len(tr2) :
         \/ \E j \in 1 .. Len(tr) : tr[j].conn = tr2[k].conn
         \/ tr2[k].conn = e.conn /\ e.type \in {"incoming", "established"}
    /\ e.type = "closed" => \A k \in 1 .. Len(tr2) : tr2[k].conn # e.conn

LEMMA TakesGood ==
    ASSUME NEW st \in Endpoint, NEW nx \in Endpoint, NEW tr \in Seq(EntryRec),
           NEW tr2 \in Seq(EntryRec), NEW ev \in Seq(Event), NEW ev2, NEW e, NEW b \in BOOLEAN,
           Good(st, tr, ev), Takes(st, nx, tr, tr2, ev, ev2, e, b)
    PROVE  Good(nx, tr2, ev2) /\ ev2 \in Seq(Event) /\ (InOrder(ev) => InOrder(ev2))
<1>1. /\ nx.conn = st.conn /\ nx.live = st.live /\ nx.cursor = st.cursor
      /\ st.ring # <<>> /\ e = Head(st.ring) /\ nx.ring = Tail(st.ring)
      /\ st.ring \in Seq(Event)
  BY DEF Takes, Endpoint
<1>2. PICK q \in Seq(Event) : q = st.ring
  BY <1>1
<1>3. PICK rest : rest = nx.ring
  OBVIOUS
<1>4. /\ e \in Event /\ e = q[1] /\ 1 \in 1 .. Len(q)
      /\ rest \in Seq(Event) /\ Len(rest) = Len(q) - 1 /\ Len(q) \in Nat
      /\ \A k \in 1 .. Len(rest) : k + 1 \in 1 .. Len(q) /\ 1 < k + 1 /\ rest[k] = q[k + 1]
      /\ \A d \in Conns : EndsIn(q, d) = EndsIn(rest, d)
                            + (IF e.type = "closed" /\ e.conn = d THEN 1 ELSE 0)
  <2>1. q # <<>> /\ e = Head(q) /\ rest = Tail(q)
    BY <1>1, <1>2, <1>3
  <2>2. Splits(q, e, rest)
    BY <2>1, TailIs
  <2> QED
    BY <2>2 DEF Splits
<1>5. PICK c \in Conns : c = e.conn
  BY <1>4 DEF Event
<1>6. /\ \A d \in Conns \ {c} : nx.app[d] = st.app[d]
      /\ nx.app[c].told = st.app[c].told
      /\ nx.app[c].lost = (st.app[c].lost \/ (e.type = "closed" /\ ~b))
      /\ b => ev2 = Append(ev, e) /\ e.type # "txready"
      /\ ~b => ev2 = ev
  BY <1>5 DEF Takes
<1>7. /\ \A k \in 1 .. Len(tr2) :
           \/ \E j \in 1 .. Len(tr) : tr[j].conn = tr2[k].conn
           \/ tr2[k].conn = c /\ e.type \in {"incoming", "established"}
      /\ e.type = "closed" => \A k \in 1 .. Len(tr2) : tr2[k].conn # c
  BY <1>5 DEF Takes
<1>8. Allocated(st, c)
  BY <1>2, <1>4, <1>5 DEF Good, Names
<1>9. \A d \in Conns : EndsIn(q, d) \in Nat /\ EndsIn(rest, d) \in Nat /\ EndsIn(ev, d) \in Nat
  BY <1>4, EndsZero
<1>10. e.type # "txready" => ~st.app[c].told /\ EndsIn(ev, c) = 0
  <2>1. SUFFICES ASSUME e.type # "txready", st.app[c].told \/ EndsIn(ev, c) > 0
                 PROVE  FALSE
    BY <1>9
  <2>2. Over(st, tr, ev, c)
    BY <2>1 DEF Good, NothingAfter
  <2> QED
    BY <1>2, <1>4, <1>5, <2>1, <2>2 DEF Over
<1>11. e.type = "closed" => EndsIn(q, c) = 1 /\ EndsIn(rest, c) = 0 /\ ~InUse(st, c) /\ ~st.app[c].lost
  <2>1. SUFFICES ASSUME e.type = "closed"
                 PROVE  EndsIn(q, c) = 1 /\ EndsIn(rest, c) = 0 /\ ~InUse(st, c) /\ ~st.app[c].lost
    OBVIOUS
  <2>2. EndsIn(q, c) = EndsIn(rest, c) + 1
    BY <1>4, <1>5, <2>1
  <2>3. ~st.app[c].told /\ EndsIn(ev, c) = 0
    BY <1>10, <2>1
  <2>4. Ends(st, ev, c) = EndsIn(q, c)
    BY <1>2, <1>9, <2>3 DEF Ends
  <2>5. Ends(st, ev, c) = IF InUse(st, c) \/ st.app[c].lost THEN 0 ELSE 1
    BY <1>8 DEF Good, EndsExact
  <2> QED
    BY <1>9, <2>2, <2>4, <2>5
<1>12. /\ \A d \in Conns : InUse(nx, d) = InUse(st, d) /\ Allocated(nx, d) = Allocated(st, d)
       /\ \A d \in Conns : nx.app[d].told = st.app[d].told
  BY <1>1, <1>6 DEF InUse, Allocated
<1>13. /\ ev2 \in Seq(Event)
       /\ \A k \in 1 .. Len(ev2) : \/ b /\ k = Len(ev) + 1 /\ ev2[k] = e
                                   \/ k \in 1 .. Len(ev) /\ ev2[k] = ev[k]
       /\ \A k \in 1 .. Len(ev) : ev[k] \in Event /\ ev[k].conn \in Conns
  <2>1. CASE b
    <3>1. ev2 = Append(ev, e) /\ e \in Event
      BY <1>4, <1>6, <2>1
    <3>2. /\ ev2 \in Seq(Event) /\ Len(ev2) = Len(ev) + 1 /\ ev2[Len(ev) + 1] = e
          /\ \A k \in 1 .. Len(ev) : ev2[k] = ev[k]
          /\ \A k \in 1 .. Len(ev) + 1 : k = Len(ev) + 1 \/ k \in 1 .. Len(ev)
      BY <3>1, AppendIs
    <3>3. \A k \in 1 .. Len(ev) : ev[k] \in Event /\ ev[k].conn \in Conns
      BY EventTypesOf
    <3>4. \A k \in 1 .. Len(ev2) : \/ b /\ k = Len(ev) + 1 /\ ev2[k] = e
                                   \/ k \in 1 .. Len(ev) /\ ev2[k] = ev[k]
      BY <2>1, <3>2, Zenon
    <3> QED
      BY <3>2, <3>3, <3>4
  <2>2. CASE ~b
    BY <1>6, <2>2, EventTypesOf
  <2> QED
    BY <2>1, <2>2
<1>14. \A d \in Conns : EndsIn(ev2, d) = EndsIn(ev, d)
                          + (IF b /\ e.type = "closed" /\ c = d THEN 1 ELSE 0)
  <2>1. SUFFICES ASSUME NEW d \in Conns
                 PROVE  EndsIn(ev2, d) = EndsIn(ev, d)
                          + (IF b /\ e.type = "closed" /\ c = d THEN 1 ELSE 0)
    OBVIOUS
  <2>2. CASE b
    <3>1. EndsIn(Append(ev, e), d) = EndsIn(ev, d) + (IF e.type = "closed" /\ e.conn = d THEN 1 ELSE 0)
      BY <1>4, EndsAppend
    <3>2. ev2 = Append(ev, e)
      BY <1>6, <2>2
    <3>3. CASE e.type = "closed" /\ c = d
      BY <1>5, <1>9, <2>2, <3>1, <3>2, <3>3
    <3>4. CASE ~(e.type = "closed" /\ c = d)
      BY <1>5, <1>9, <2>2, <3>1, <3>2, <3>4
    <3> QED
      BY <3>3, <3>4
  <2>3. CASE ~b
    BY <1>6, <1>9, <2>3
  <2> QED
    BY <2>2, <2>3
<1>15. LiveTable(nx)
  BY <1>1 DEF Good, LiveTable, InUse
<1>16. Names(nx, nx.ring) /\ Names(nx, tr2) /\ Names(nx, ev2)
  <2>1. \A k \in 1 .. Len(q) : q[k].conn \in Conns /\ Allocated(st, q[k].conn)
    BY <1>2, EventTypesOf DEF Good, Names
  <2>2. Names(nx, nx.ring)
    BY <1>3, <1>4, <1>12, <2>1 DEF Names
  <2>3. \A k \in 1 .. Len(tr) : tr[k].conn \in Conns /\ Allocated(st, tr[k].conn)
    BY TableTypes DEF Good, Names
  <2>4. Names(nx, tr2)
    BY <1>7, <1>8, <1>12, <2>3 DEF Names
  <2>5. Names(nx, ev2)
    BY <1>5, <1>8, <1>12, <1>13 DEF Good, Names
  <2> QED
    BY <2>2, <2>4, <2>5
<1>17. ASSUME NEW d \in Conns, Allocated(nx, d)
       PROVE  Ends(nx, ev2, d) = IF InUse(nx, d) \/ nx.app[d].lost THEN 0 ELSE 1
  <2>1. Ends(st, ev, d) = IF InUse(nx, d) \/ st.app[d].lost THEN 0 ELSE 1
    BY <1>12, <1>17 DEF Good, EndsExact
  <2>2. Ends(nx, ev2, d) = EndsIn(rest, d) + EndsIn(ev2, d) + (IF st.app[d].told THEN 1 ELSE 0)
    <3>1. nx.app[d].told = st.app[d].told
      BY <1>12
    <3> QED
      BY <1>3, <3>1, Zenon DEF Ends
  <2>3. Ends(st, ev, d) = EndsIn(q, d) + EndsIn(ev, d) + (IF st.app[d].told THEN 1 ELSE 0)
    BY <1>2, Zenon DEF Ends
  <2>4. CASE e.type = "closed" /\ d = c
    <3>1. ~st.app[c].told /\ EndsIn(ev, c) = 0 /\ EndsIn(rest, c) = 0 /\ ~InUse(nx, c) /\ ~st.app[c].lost
      BY <1>10, <1>11, <1>12, <2>4
    <3>2. EndsIn(ev2, c) = IF b THEN 1 ELSE 0
      BY <1>14, <2>4, <3>1
    <3>3. Ends(nx, ev2, c) = IF b THEN 1 ELSE 0
      BY <2>2, <2>4, <3>1, <3>2
    <3>4. nx.app[c].lost = ~b
      BY <1>6, <2>4, <3>1
    <3> QED
      BY <2>4, <3>1, <3>3, <3>4
  <2>5. CASE ~(e.type = "closed" /\ d = c)
    <3>1. EndsIn(q, d) = EndsIn(rest, d)
      BY <1>4, <1>5, <1>9, <2>5
    <3>2. EndsIn(ev2, d) = EndsIn(ev, d)
      BY <1>9, <1>14, <2>5
    <3>3. nx.app[d].lost <=> st.app[d].lost
      BY <1>6, <2>5
    <3>4. Ends(nx, ev2, d) = Ends(st, ev, d)
      <4>1. PICK n : n = IF st.app[d].told THEN 1 ELSE 0
        OBVIOUS
      <4>2. Ends(nx, ev2, d) = EndsIn(rest, d) + EndsIn(ev2, d) + n
        BY <2>2, <4>1
      <4>3. Ends(st, ev, d) = EndsIn(q, d) + EndsIn(ev, d) + n
        BY <2>3, <4>1
      <4> QED
        BY <3>1, <3>2, <4>2, <4>3
    <3>5. (IF InUse(nx, d) \/ st.app[d].lost THEN 0 ELSE 1)
            = (IF InUse(nx, d) \/ nx.app[d].lost THEN 0 ELSE 1)
      BY <3>3
    <3> QED
      BY <2>1, <3>4, <3>5, Zenon
  <2> QED
    BY <2>4, <2>5
<1>18. EndsExact(nx, ev2)
  BY <1>17 DEF EndsExact
<1>19. EndsLast(nx.ring)
  <2>1. SUFFICES ASSUME NEW i \in 1 .. Len(rest), NEW j \in 1 .. Len(rest), i < j,
                        rest[i].conn = rest[j].conn, rest[i].type = "closed"
                 PROVE  rest[j].type = "txready"
    BY <1>3 DEF EndsLast
  <2>2. i + 1 < j + 1
    <3>1. i \in Nat /\ j \in Nat /\ i < j
      BY <1>4, <2>1
    <3> QED
      BY <3>1
  <2>3. /\ i + 1 \in 1 .. Len(q) /\ rest[i] = q[i + 1]
        /\ j + 1 \in 1 .. Len(q) /\ rest[j] = q[j + 1]
    BY <1>4
  <2>4. EndsLast(q)
    BY <1>2 DEF Good
  <2> QED
    BY <2>1, <2>2, <2>3, <2>4 DEF EndsLast
<1>20. ASSUME NEW d \in Conns, nx.app[d].told \/ EndsIn(ev2, d) > 0
       PROVE  Over(nx, tr2, ev2, d)
  <2>1. CASE st.app[d].told \/ EndsIn(ev, d) > 0
    <3>1. Over(st, tr, ev, d)
      BY <2>1 DEF Good, NothingAfter
    <3>2. \A k \in 1 .. Len(rest) : rest[k].conn = d => rest[k].type = "txready"
      BY <1>2, <1>4, <3>1 DEF Over
    <3>3. c = d => e.type = "txready"
      BY <1>9, <1>10, <2>1
    <3>4. \A k \in 1 .. Len(tr2) : tr2[k].conn # d
      BY <1>7, <3>1, <3>3 DEF Over
    <3> QED
      BY <1>3, <3>2, <3>4 DEF Over
  <2>2. CASE ~(st.app[d].told \/ EndsIn(ev, d) > 0)
    <3>1. b /\ e.type = "closed" /\ c = d
      BY <1>9, <1>12, <1>14, <1>20, <2>2
    <3>2. \A k \in 1 .. Len(rest) : rest[k].conn = d => rest[k].type = "txready"
      BY <1>2, <1>4, <1>5, <3>1 DEF Good, EndsLast
    <3> QED
      BY <1>3, <1>7, <3>1, <3>2 DEF Over
  <2> QED
    BY <2>1, <2>2
<1>21. NothingAfter(nx, tr2, ev2)
  <2>1. \A k \in 1 .. Len(ev2) : ~nx.app[ev2[k].conn].told
    <3>1. \A k \in 1 .. Len(ev) : ~st.app[ev[k].conn].told
      BY DEF Good, NothingAfter
    <3>2. b => ~st.app[c].told
      BY <1>6, <1>10
    <3> QED
      BY <1>5, <1>12, <1>13, <3>1, <3>2
  <2> QED
    BY <1>20, <2>1 DEF NothingAfter
<1>22. AppExact(nx)
  <2>1. \A d \in Conns \ {c} : /\ ~Allocated(nx, d) => nx.app[d] = Unknown
                               /\ InUse(nx, d) => ~nx.app[d].lost
    BY <1>6, <1>12 DEF Good, AppExact
  <2>2. InUse(nx, c) => ~nx.app[c].lost
    BY <1>6, <1>11, <1>12 DEF Good, AppExact
  <2> QED
    BY <1>8, <1>12, <2>1, <2>2 DEF AppExact
<1>23. Len(nx.live) <= MaxConns /\ Len(nx.ring) <= RingCap
  <2>1. Len(q) <= RingCap
    BY <1>2 DEF Good
  <2>2. Len(rest) <= RingCap
    BY <1>4, <2>1, Sizes
  <2> QED
    BY <1>1, <1>3, <2>2 DEF Good
<1>24. Good(nx, tr2, ev2)
  BY <1>15, <1>16, <1>18, <1>19, <1>21, <1>22, <1>23 DEF Good
<1>25. ASSUME InOrder(ev)
       PROVE  InOrder(ev2)
  <2>1. EndsLast(ev) /\ \A k \in 1 .. Len(ev) : ev[k].type # "txready"
    BY <1>25 DEF InOrder
  <2>2. \A k \in 1 .. Len(ev2) : ev2[k].type # "txready"
    BY <1>6, <1>13, <2>1
  <2>3. EndsLast(ev2)
    <3>1. SUFFICES ASSUME NEW i \in 1 .. Len(ev2), NEW j \in 1 .. Len(ev2), i < j,
                          ev2[i].conn = ev2[j].conn, ev2[i].type = "closed"
                   PROVE  ev2[j].type = "txready"
      BY DEF EndsLast
    <3>2. CASE j \in 1 .. Len(ev) /\ ev2[j] = ev[j]
      <4>1. i \in 1 .. Len(ev) /\ ev2[i] = ev[i]
        <5>1. Len(ev) \in Nat /\ i # Len(ev) + 1
          BY <3>1, <3>2
        <5> QED
          BY <1>13, <5>1
      <4> QED
        BY <2>1, <3>1, <3>2, <4>1 DEF EndsLast
    <3>3. CASE b /\ j = Len(ev) + 1 /\ ev2[j] = e
      <4>1. i \in 1 .. Len(ev) /\ ev2[i] = ev[i]
        BY <1>13, <3>1, <3>3
      <4>2. ev[i].type = "closed" /\ ev[i].conn = c
        BY <1>5, <3>1, <3>3, <4>1
      <4>3. EndsIn(ev, c) # 0
        BY <4>1, <4>2, EndsZero
      <4> QED
        BY <1>6, <1>10, <3>3, <4>3
    <3> QED
      BY <1>13, <3>2, <3>3
  <2> QED
    BY <2>2, <2>3 DEF InOrder
<1> QED
  BY <1>13, <1>24, <1>25

\* The record of quic_service_drain_endpoint_events.
DrainShape(d) ==
    /\ d = [ring |-> d.ring, tracked |-> d.tracked, events |-> d.events, app |-> d.app,
            tx |-> d.tx, ok |-> d.ok]
    /\ d.app \in [Conns -> AppRec] /\ d.tx \in BOOLEAN /\ d.ok \in BOOLEAN

\* The table that quic_service_translate_event leaves.
TableAfter(t, e) ==
    IF e.type \in {"incoming", "established"} THEN Tracked(t, e.conn, e.type)
    ELSE IF e.type = "closed" THEN Forgotten(t, e.conn) ELSE t

\* f is d after event e; b says whether the service had room for it.
Translates(d, f, e, b) ==
    /\ DrainShape(f)
    /\ f.ring = Tail(d.ring) /\ f.tracked = TableAfter(d.tracked, e)
    /\ f.events = IF b THEN Append(d.events, e) ELSE d.events
    /\ f.tx = (d.tx \/ e.type = "txready")
    /\ b => e.type # "txready" /\ Len(d.events) < EventCap
    /\ \A x \in Conns \ {e.conn} : f.app[x] = d.app[x]
    /\ f.app[e.conn].told = d.app[e.conn].told /\ f.app[e.conn].unheard = d.app[e.conn].unheard
    /\ f.app[e.conn].lost = (d.app[e.conn].lost \/ (e.type = "closed" /\ ~b))

LEMMA TranslateIs ==
    ASSUME NEW d, DrainShape(d), d.ok, NEW e \in Event, NEW f, f = Translate(d, e)
    PROVE  \E b \in BOOLEAN : Translates(d, f, e, b)
<1>1. PICK t : t = TableAfter(d.tracked, e)
  OBVIOUS
<1>2. PICK enters \in BOOLEAN : enters <=> e.type \in {"incoming", "established"}
  <2>1. TRUE \in BOOLEAN /\ FALSE \in BOOLEAN
    OBVIOUS
  <2> QED
    BY <2>1, Zenon
<1>3. PICK taken : taken = [d EXCEPT !.ring = Tail(@), !.tracked = t]
  OBVIOUS
<1>4. PICK pushed : pushed = ServicePush(taken, e)
  OBVIOUS
<1>5. f = IF e.type = "txready" THEN [taken EXCEPT !.tx = TRUE]
          ELSE IF enters /\ TrackedAt(t, e.conn) = {} THEN [taken EXCEPT !.ok = FALSE]
          ELSE [pushed EXCEPT !.app[e.conn].lost = @ \/ (e.type = "closed" /\ ~pushed.ok)]
  <2>1. t = IF enters THEN Tracked(d.tracked, e.conn, e.type)
            ELSE IF e.type = "closed" THEN Forgotten(d.tracked, e.conn) ELSE d.tracked
    BY <1>1, <1>2 DEF TableAfter
  <2> QED
    BY <1>2, <1>3, <1>4, <2>1, Zenon DEF Translate
<1>6. PICK c \in Conns : c = e.conn
  BY DEF Event
<1>7. /\ d = [ring |-> d.ring, tracked |-> d.tracked, events |-> d.events, app |-> d.app,
              tx |-> d.tx, ok |-> d.ok]
      /\ d.app \in [Conns -> AppRec] /\ d.tx \in BOOLEAN /\ d.ok = TRUE
  BY DEF DrainShape
<1>8. taken = [ring |-> Tail(d.ring), tracked |-> t, events |-> d.events, app |-> d.app,
               tx |-> d.tx, ok |-> TRUE]
  BY <1>3, <1>7
<1>9. CASE e.type = "txready"
  <2>1. f = [ring |-> Tail(d.ring), tracked |-> t, events |-> d.events, app |-> d.app,
             tx |-> TRUE, ok |-> TRUE]
    BY <1>5, <1>8, <1>9
  <2>2. DrainShape(f)
    BY <1>7, <2>1 DEF DrainShape
  <2>3. f.app = d.app /\ f.events = d.events /\ f.ring = Tail(d.ring) /\ f.tracked = t /\ f.tx = TRUE
    BY <2>1
  <2>4. d.app[c].lost \in BOOLEAN
    BY <1>6, <1>7 DEF AppRec
  <2> QED
    BY <1>1, <1>6, <1>9, <2>2, <2>3, <2>4 DEF Translates
<1>10. CASE e.type # "txready" /\ enters /\ TrackedAt(t, e.conn) = {}
  <2>1. f = [ring |-> Tail(d.ring), tracked |-> t, events |-> d.events, app |-> d.app,
             tx |-> d.tx, ok |-> FALSE]
    BY <1>5, <1>8, <1>10
  <2>2. DrainShape(f)
    BY <1>7, <2>1 DEF DrainShape
  <2>3. f.app = d.app /\ f.events = d.events /\ f.ring = Tail(d.ring) /\ f.tracked = t /\ f.tx = d.tx
    BY <2>1
  <2>4. d.app[c].lost \in BOOLEAN /\ e.type # "closed"
    BY <1>2, <1>6, <1>7, <1>10 DEF AppRec
  <2> QED
    BY <1>1, <1>6, <1>7, <1>10, <2>2, <2>3, <2>4 DEF Translates
<1>11. CASE e.type # "txready" /\ ~(enters /\ TrackedAt(t, e.conn) = {})
  <2>1. PICK b \in BOOLEAN : b <=> Len(d.events) < EventCap
    <3>1. TRUE \in BOOLEAN /\ FALSE \in BOOLEAN
      OBVIOUS
    <3> QED
      BY <3>1, Zenon
  <2>2. pushed = [ring |-> Tail(d.ring), tracked |-> t,
                  events |-> IF b THEN Append(d.events, e) ELSE d.events,
                  app |-> d.app, tx |-> d.tx, ok |-> b]
    <3>1. CASE b
      BY <1>4, <1>8, <2>1, <3>1 DEF ServicePush
    <3>2. CASE ~b
      BY <1>4, <1>8, <2>1, <3>2 DEF ServicePush
    <3> QED
      BY <3>1, <3>2
  <2>3. PICK x \in BOOLEAN : x = (e.type = "closed" /\ ~b)
    OBVIOUS
  <2>4. PICK r : r = [d.app[c] EXCEPT !.lost = @ \/ x]
    OBVIOUS
  <2>5. d.app[c] \in AppRec
    BY <1>7
  <2>6. /\ r \in AppRec /\ r.told = d.app[c].told /\ r.unheard = d.app[c].unheard
        /\ r.lost = (d.app[c].lost \/ x)
    BY <2>4, <2>5 DEF AppRec
  <2>7. PICK aa : aa = [d.app EXCEPT ![c] = r]
    OBVIOUS
  <2>8. aa \in [Conns -> AppRec] /\ aa[c] = r /\ \A y \in Conns \ {c} : aa[y] = d.app[y]
    BY <1>7, <2>6, <2>7
  <2>9. f = [pushed EXCEPT !.app[c].lost = @ \/ x]
    <3>1. pushed.ok = b
      BY <2>2
    <3> QED
      BY <1>5, <1>6, <1>11, <2>3, <3>1
  <2>10. f = [pushed EXCEPT !.app = aa]
    <3>1. pushed.app = d.app
      BY <2>2
    <3> QED
      BY <2>4, <2>7, <2>9, <3>1
  <2>11. f = [ring |-> Tail(d.ring), tracked |-> t,
              events |-> IF b THEN Append(d.events, e) ELSE d.events,
              app |-> aa, tx |-> d.tx, ok |-> b]
    BY <2>2, <2>10
  <2>12. /\ f.ring = Tail(d.ring) /\ f.tracked = t /\ f.app = aa /\ f.tx = d.tx
         /\ f.events = IF b THEN Append(d.events, e) ELSE d.events
    BY <2>11
  <2>13. DrainShape(f)
    BY <1>7, <2>8, <2>11 DEF DrainShape
  <2>14. f.tx = (d.tx \/ e.type = "txready")
    BY <1>7, <1>11, <2>12
  <2>15. b => e.type # "txready" /\ Len(d.events) < EventCap
    BY <1>11, <2>1
  <2>16. f.app[c].lost = (d.app[c].lost \/ (e.type = "closed" /\ ~b))
    BY <2>3, <2>6, <2>8, <2>12
  <2>17. Translates(d, f, e, b)
    BY <1>1, <1>6, <2>6, <2>8, <2>12, <2>13, <2>14, <2>15, <2>16, Zenon DEF Translates
  <2> QED
    BY <2>17
<1> QED
  BY <1>9, <1>10, <1>11

\* The endpoint in the middle of a drain.
DrainSt(d) == [conn |-> conn, live |-> live, cursor |-> cursor, ring |-> d.ring, app |-> d.app]

\* What holds of a drain after each event; U are the connections heard when it began.
DrainGood(d, U) ==
    /\ DrainShape(d)
    /\ DrainSt(d) \in Endpoint /\ Good(DrainSt(d), d.tracked, d.events)
    /\ Table(d.tracked)
    /\ d.events \in Seq(Event) /\ Len(d.events) <= EventCap /\ InOrder(d.events)
    /\ ~d.tx => Heard(DrainSt(d), U)

LEMMA DrainStIs ==
    ASSUME NEW d
    PROVE  /\ DrainSt(d).conn = conn /\ DrainSt(d).live = live /\ DrainSt(d).cursor = cursor
           /\ DrainSt(d).ring = d.ring /\ DrainSt(d).app = d.app
BY DEF DrainSt

\* The tables that one event can leave.
Leaves(t, u, e) ==
    /\ Table(u)
    /\ \A k \in 1 .. Len(u) :
         \/ \E j \in 1 .. Len(t) : t[j].conn = u[k].conn
         \/ u[k].conn = e.conn /\ e.type \in {"incoming", "established"}
    /\ e.type = "closed" => \A k \in 1 .. Len(u) : u[k].conn # e.conn

LEMMA TableAfterIs ==
    ASSUME NEW t, Table(t), NEW e \in Event, NEW u, u = TableAfter(t, e)
    PROVE  Leaves(t, u, e)
<1>1. PICK c \in Conns : c = e.conn
  BY DEF Event
<1>2. PICK mark : mark = e.type
  OBVIOUS
<1>3. CASE e.type \in {"incoming", "established"}
  <2>1. u = Tracked(t, c, mark)
    BY <1>1, <1>2, <1>3 DEF TableAfter
  <2>2. /\ Table(u)
        /\ \A k \in 1 .. Len(u) : u[k].conn = c \/ \E j \in 1 .. Len(t) : t[j].conn = u[k].conn
    BY <2>1, TrackedIs
  <2> QED
    BY <1>1, <1>3, <2>2 DEF Leaves
<1>4. CASE e.type = "closed"
  <2>1. u = Forgotten(t, c)
    BY <1>1, <1>4 DEF TableAfter
  <2>2. /\ Table(u)
        /\ \A k \in 1 .. Len(u) : u[k].conn # c /\ \E j \in 1 .. Len(t) : t[j] = u[k]
    BY <2>1, ForgottenIs
  <2> QED
    BY <1>1, <1>4, <2>2 DEF Leaves
<1>5. CASE e.type \notin {"incoming", "established", "closed"}
  <2>1. u = t
    BY <1>5 DEF TableAfter
  <2> QED
    BY <1>5, <2>1 DEF Leaves
<1> QED
  BY <1>3, <1>4, <1>5
LEMMA TranslateGood ==
    ASSUME NEW U \in SUBSET Conns, NEW d, DrainGood(d, U), d.ok, d.ring # <<>>,
           NEW e, e = Head(d.ring), NEW f, f = Translate(d, e)
    PROVE  DrainGood(f, U) /\ f.ring = Tail(d.ring) /\ (d.tx => f.tx)
<1>1. PICK st : st = DrainSt(d)
  OBVIOUS
<1>2. PICK nx : nx = DrainSt(f)
  OBVIOUS
<1>3. /\ st.conn = conn /\ st.live = live /\ st.cursor = cursor /\ st.ring = d.ring /\ st.app = d.app
      /\ nx.conn = conn /\ nx.live = live /\ nx.cursor = cursor /\ nx.ring = f.ring /\ nx.app = f.app
  BY <1>1, <1>2, DrainStIs
<1>4. PICK tr : tr = d.tracked
  OBVIOUS
<1>5. PICK ev : ev = d.events
  OBVIOUS
<1>6. /\ st \in Endpoint /\ Good(st, tr, ev) /\ Table(tr) /\ tr \in Seq(EntryRec)
      /\ ev \in Seq(Event) /\ Len(ev) <= EventCap /\ InOrder(ev) /\ DrainShape(d)
      /\ ~d.tx => Heard(st, U)
  BY <1>1, <1>4, <1>5 DEF DrainGood, Table
<1>7. d.ring \in Seq(Event)
  BY <1>3, <1>6 DEF Endpoint
<1>8. PICK q \in Seq(Event) : q = d.ring
  BY <1>7
<1>9. PICK rest : rest = Tail(q)
  OBVIOUS
<1>10. Splits(q, e, rest)
  <2>1. q # <<>> /\ e = Head(q)
    BY <1>8
  <2> QED
    BY <1>9, <2>1, TailIs
<1>11. /\ e \in Event /\ e = q[1] /\ 1 \in 1 .. Len(q) /\ rest \in Seq(Event) /\ Len(q) \in Nat
       /\ Len(rest) = Len(q) - 1
  BY <1>10 DEF Splits
<1>12. PICK b \in BOOLEAN : Translates(d, f, e, b)
  <2>1. \E b \in BOOLEAN : Translates(d, f, e, b)
    BY <1>6, <1>11, TranslateIs
  <2> QED
    BY <2>1
<1>13. PICK tr2 : tr2 = f.tracked
  OBVIOUS
<1>14. PICK ev2 : ev2 = f.events
  OBVIOUS
<1>15. /\ DrainShape(f) /\ f.ring = rest /\ tr2 = TableAfter(tr, e)
       /\ ev2 = IF b THEN Append(ev, e) ELSE ev
       /\ f.tx = (d.tx \/ e.type = "txready")
       /\ b => e.type # "txready" /\ Len(ev) < EventCap
       /\ \A x \in Conns \ {e.conn} : f.app[x] = d.app[x]
       /\ f.app[e.conn].told = d.app[e.conn].told /\ f.app[e.conn].unheard = d.app[e.conn].unheard
       /\ f.app[e.conn].lost = (d.app[e.conn].lost \/ (e.type = "closed" /\ ~b))
  BY <1>4, <1>5, <1>8, <1>9, <1>12, <1>13, <1>14, Zenon DEF Translates
<1>16. /\ Table(tr2)
       /\ \A k \in 1 .. Len(tr2) :
            \/ \E j \in 1 .. Len(tr) : tr[j].conn = tr2[k].conn
            \/ tr2[k].conn = e.conn /\ e.type \in {"incoming", "established"}
       /\ e.type = "closed" => \A k \in 1 .. Len(tr2) : tr2[k].conn # e.conn
  <2>1. Leaves(tr, tr2, e)
    BY <1>6, <1>11, <1>15, TableAfterIs
  <2> QED
    BY <2>1 DEF Leaves
<1>17. nx \in Endpoint
  <2>1. f.app \in [Conns -> AppRec]
    BY <1>15 DEF DrainShape
  <2>2. conn \in [Conns -> ConnRec] /\ live \in Seq(Conns) /\ cursor \in Nat
    BY <1>3, <1>6 DEF Endpoint
  <2> QED
    BY <1>2, <1>11, <1>15, <2>1, <2>2 DEF DrainSt, Endpoint
<1>18. Takes(st, nx, tr, tr2, ev, ev2, e, b)
  <2>1. nx.conn = st.conn /\ nx.live = st.live /\ nx.cursor = st.cursor
    BY <1>3
  <2>2. st.ring # <<>> /\ e = Head(st.ring) /\ nx.ring = Tail(st.ring)
    BY <1>3, <1>8, <1>9, <1>15
  <2>3. /\ \A x \in Conns \ {e.conn} : nx.app[x] = st.app[x]
        /\ nx.app[e.conn].told = st.app[e.conn].told
        /\ nx.app[e.conn].lost = (st.app[e.conn].lost \/ (e.type = "closed" /\ ~b))
    BY <1>3, <1>15, ZenonT(60)
  <2>4. ev2 = (IF b THEN Append(ev, e) ELSE ev) /\ (b => e.type # "txready")
    BY <1>15, Zenon
  <2> QED
    BY <1>16, <2>1, <2>2, <2>3, <2>4, Zenon DEF Takes
<1>19. tr2 \in Seq(EntryRec)
  BY <1>16 DEF Table
<1>20. Good(nx, tr2, ev2) /\ ev2 \in Seq(Event) /\ InOrder(ev2)
  BY <1>6, <1>17, <1>18, <1>19, TakesGood
<1>21. Len(ev2) <= EventCap
  <2>1. CASE b
    <3>1. Len(ev2) = Len(ev) + 1 /\ Len(ev) < EventCap
      BY <1>6, <1>11, <1>15, <2>1, AppendIs
    <3>2. Len(ev) \in Nat
      BY <1>6
    <3> QED
      BY <3>1, <3>2, Sizes
  <2>2. CASE ~b
    BY <1>6, <1>15, <2>2
  <2> QED
    BY <2>1, <2>2
<1>22. ~f.tx => Heard(nx, U)
  <2>1. SUFFICES ASSUME ~f.tx, NEW x \in U, Asks(nx, x)
                 PROVE  HasTx(nx.ring)
    BY DEF Heard
  <2>2. ~d.tx /\ e.type # "txready" /\ Heard(st, U)
    BY <1>6, <1>15, <2>1
  <2>3. x \in Conns /\ nx.app[x].unheard = st.app[x].unheard
    <3>1. CASE x = e.conn
      BY <1>3, <1>15, <3>1
    <3>2. CASE x # e.conn
      BY <1>3, <1>15, <3>2
    <3> QED
      BY <3>1, <3>2
  <2>4. Asks(st, x)
    BY <1>3, <2>1, <2>3 DEF Asks, InUse
  <2>5. PICK i \in 1 .. Len(q) : q[i].type = "txready"
    BY <1>3, <1>8, <2>2, <2>4 DEF Heard, HasTx
  <2>6. i # 1 /\ i \in Nat /\ 1 <= i /\ i <= Len(q)
    BY <1>11, <2>2, <2>5
  <2>7. i - 1 \in 1 .. Len(rest) /\ (i - 1) + 1 = i
    BY <1>11, <2>6
  <2>8. rest[i - 1] = q[i]
    <3>1. PICK k \in 1 .. Len(rest) : k = i - 1
      BY <2>7
    <3>2. rest[k] = q[k + 1]
      BY <1>10 DEF Splits
    <3> QED
      BY <2>7, <3>1, <3>2
  <2>9. PICK k \in 1 .. Len(rest) : k = i - 1
    BY <2>7
  <2>10. rest[k].type = "txready" /\ nx.ring = rest
    BY <1>3, <1>15, <2>5, <2>8, <2>9
  <2> QED
    BY <2>10 DEF HasTx
<1>23. d.tx => f.tx
  BY <1>15, ZenonT(60)
<1>24. DrainGood(f, U)
  BY <1>2, <1>13, <1>14, <1>15, <1>16, <1>17, <1>20, <1>21, <1>22, ZenonT(60) DEF DrainGood
<1> QED
  BY <1>8, <1>9, <1>15, <1>23, <1>24

\* An error ends the drain: the events that are left stay where they are.
LEMMA TranslateFailed ==
    ASSUME NEW d, ~d.ok, NEW e
    PROVE  Translate(d, e) = d
BY Zenon DEF Translate

\* What every event leaves of the ring.
DrainRuns(d, U, q, k, tx) ==
    /\ DrainGood(d, U)
    /\ d.ok => d.ring = SubSeq(q, k + 1, Len(q))
    /\ tx => d.tx

LEMMA DrainRound ==
    ASSUME NEW U \in SUBSET Conns, NEW q \in Seq(Event), NEW k \in 1 .. Len(q), NEW tx, NEW d, NEW f,
           DrainRuns(d, U, q, k - 1, tx), f = Translate(d, q[k])
    PROVE  DrainRuns(f, U, q, k, tx)
<1>1. CASE ~d.ok
  <2>1. f = d
    BY <1>1, TranslateFailed
  <2> QED
    BY <1>1, <2>1 DEF DrainRuns
<1>2. CASE d.ok
  <2>0. Len(q) \in Nat /\ k \in Nat /\ (k - 1) + 1 = k
    OBVIOUS
  <2>1. d.ring = SubSeq(q, k, Len(q)) /\ DrainGood(d, U) /\ (tx => d.tx)
    BY <1>2, <2>0 DEF DrainRuns
  <2>2. /\ SubSeq(q, k, Len(q)) # <<>> /\ Head(SubSeq(q, k, Len(q))) = q[k]
        /\ Tail(SubSeq(q, k, Len(q))) = SubSeq(q, k + 1, Len(q))
    <3>1. k \in 1 .. Len(q) /\ Len(q) \in k .. Len(q) /\ SubSeq(q, k, Len(q)) # <<>>
      BY <2>0
    <3> QED
      BY <3>1, HeadTailOfSubSeq
  <2>3. PICK e : e = q[k]
    OBVIOUS
  <2>4. d.ring # <<>> /\ e = Head(d.ring) /\ f = Translate(d, e)
    BY <2>1, <2>2, <2>3
  <2>5. DrainGood(f, U) /\ f.ring = Tail(d.ring) /\ (d.tx => f.tx)
    BY <1>2, <2>1, <2>4, TranslateGood
  <2> QED
    BY <2>1, <2>2, <2>5 DEF DrainRuns
<1> QED
  BY <1>1, <1>2

\* quic_service_drain_endpoint_events
LEMMA DrainIs ==
    ASSUME IInv, NEW U \in SUBSET Conns, NEW tx \in BOOLEAN, ~tx => Heard(Now, U),
           NEW d, d = Drain(tx)
    PROVE  DrainGood(d, U) /\ (tx => d.tx)
<1>1. PICK q \in Seq(Event) : q = ring
  BY InvIs, NowIs DEF Endpoint
<1>2. PICK base : base = [ring |-> ring, tracked |-> tracked, events |-> events, app |-> app,
                          tx |-> tx, ok |-> TRUE]
  OBVIOUS
<1>3. PICK p : Runs(p, base, q)
  BY FoldRuns
<1>4. /\ p[0] = base
      /\ \A k \in 1 .. Len(q) : p[k] = Translate(p[k - 1], q[k])
      /\ FoldLeft(Translate, base, q) = p[Len(q)]
  BY <1>3 DEF Runs
<1>5. d = p[Len(q)]
  BY <1>1, <1>2, <1>4, Zenon DEF Drain
<1>6. DrainRuns(base, U, q, 0, tx)
  <2>1. /\ base.ring = ring /\ base.tracked = tracked /\ base.events = events /\ base.app = app
        /\ base.tx = tx /\ base.ok = TRUE
    BY <1>2
  <2>2. DrainSt(base) = Now
    BY <2>1 DEF DrainSt, Now
  <2>3. app \in [Conns -> AppRec]
    BY InvIs, NowIs DEF Endpoint
  <2>4. DrainShape(base)
    BY <1>2, <2>1, <2>3 DEF DrainShape
  <2>5. Table(tracked) /\ InOrder(events) /\ events \in Seq(Event) /\ Len(events) <= EventCap
    BY DEF IInv, TablesGood, Table, InOrder
  <2>6. DrainGood(base, U)
    BY <2>1, <2>2, <2>4, <2>5, InvIs DEF DrainGood
  <2>7. ring = SubSeq(q, 0 + 1, Len(q))
    BY <1>1
  <2> QED
    BY <2>1, <2>6, <2>7 DEF DrainRuns
<1> DEFINE Bad == {k \in 0 .. Len(q) : ~DrainRuns(p[k], U, q, k, tx)}
<1>7. Bad = {}
  <2>1. SUFFICES ASSUME Bad # {} PROVE FALSE
    OBVIOUS
  <2>2. Bad \subseteq Nat /\ Len(q) \in Nat
    OBVIOUS
  <2>3. PICK k \in Bad : \A j \in Bad : k <= j
    BY <2>1, <2>2, LeastNumber
  <2>4. k \in 0 .. Len(q) /\ ~DrainRuns(p[k], U, q, k, tx)
    OBVIOUS
  <2>5. k # 0
    BY <1>4, <1>6, <2>4
  <2>6. k \in 1 .. Len(q) /\ k - 1 \in 0 .. Len(q) /\ ~(k <= k - 1)
    BY <2>2, <2>4, <2>5
  <2>7. DrainRuns(p[k - 1], U, q, k - 1, tx)
    BY <2>3, <2>6
  <2>8. p[k] = Translate(p[k - 1], q[k])
    BY <1>4, <2>6
  <2>9. PICK d1 : d1 = p[k - 1]
    OBVIOUS
  <2>10. PICK d2 : d2 = p[k]
    OBVIOUS
  <2>11. DrainRuns(d2, U, q, k, tx)
    BY <2>6, <2>7, <2>8, <2>9, <2>10, DrainRound
  <2> QED
    BY <2>4, <2>10, <2>11
<1>8. DrainRuns(p[Len(q)], U, q, Len(q), tx)
  <2>1. Len(q) \in 0 .. Len(q)
    OBVIOUS
  <2> QED
    BY <1>7, <2>1
<1> QED
  BY <1>5, <1>8 DEF DrainRuns
-----------------------------------------------------------------------------
(***************************************************************************)
(* The drains of a drive.                                                  *)
(***************************************************************************)

\* The endpoint and the tables after a drain that leaves the application's view to nx.
LEMMA DrainedTables ==
    ASSUME IInv, NEW U \in SUBSET Conns, NEW tx \in BOOLEAN, ~tx => Heard(Now, U),
           NEW d, d = Drain(tx), tracked' = d.tracked, events' = d.events, txPending' = d.tx
    PROVE  /\ DrainSt(d) \in Endpoint /\ Good(DrainSt(d), tracked', events')
           /\ TablesGood' /\ txPending' \in BOOLEAN /\ (tx => txPending')
           /\ ~txPending' => Heard(DrainSt(d), U)
           /\ tracked' \in Seq(EntryRec) /\ events' \in Seq(Event)
<1>1. DrainGood(d, U) /\ (tx => d.tx)
  BY DrainIs
<1>2. /\ DrainSt(d) \in Endpoint /\ Good(DrainSt(d), d.tracked, d.events)
      /\ Table(d.tracked)
      /\ d.events \in Seq(Event) /\ Len(d.events) <= EventCap /\ InOrder(d.events)
      /\ ~d.tx => Heard(DrainSt(d), U)
      /\ d.tx \in BOOLEAN
  BY <1>1 DEF DrainGood, DrainShape
<1>3. TablesGood'
  BY <1>2 DEF TablesGood, Table, InOrder
<1> QED
  BY <1>1, <1>2, <1>3 DEF Table

\* A drain with nothing else.
LEMMA DrainedIs ==
    ASSUME IInv, NEW d, d = Drain(txPending), Drained(d), UNCHANGED <<conn, live, cursor, pend>>
    PROVE  /\ Good(Now, tracked, events)' /\ TablesGood' /\ txPending' \in BOOLEAN
           /\ ~txPending' => Heard(Now', Conns)
           /\ pend' # None => pend' \in Conns /\ Allocated(Now', pend') /\ txPending'
<1>1. PICK U \in SUBSET Conns : U = Conns
  OBVIOUS
<1>2. PICK tx \in BOOLEAN : tx = txPending
  BY InvIs
<1>3. /\ tracked' = d.tracked /\ events' = d.events /\ txPending' = d.tx
      /\ ring' = d.ring /\ app' = d.app
  BY DEF Drained
<1>4. ~tx => Heard(Now, U)
  BY <1>1, <1>2 DEF IInv, DriveGood
<1>5. /\ DrainSt(d) \in Endpoint /\ Good(DrainSt(d), tracked', events')
      /\ TablesGood' /\ txPending' \in BOOLEAN /\ (tx => txPending')
      /\ ~txPending' => Heard(DrainSt(d), U)
  BY <1>2, <1>3, <1>4, DrainedTables
<1>6. Now' = DrainSt(d)
  BY <1>3 DEF Now, DrainSt
<1>7. pend' # None => pend' \in Conns /\ Allocated(Now', pend') /\ txPending'
  BY <1>2, <1>5 DEF IInv, DriveGood, Allocated, Now
<1> QED
  BY <1>1, <1>5, <1>6, <1>7

LEMMA DriveStartStep ==
    ASSUME IInv, DriveStart
    PROVE  IInv'
<1>1. PICK d : d = Drain(txPending)
  OBVIOUS
<1>2. Drained(d) /\ drive' = (IF d.ok THEN Phase("rx") ELSE Idle) /\ UNCHANGED <<conn, live, cursor, pend>>
  BY <1>1, Zenon DEF DriveStart
<1>3. /\ Good(Now, tracked, events)' /\ TablesGood' /\ txPending' \in BOOLEAN
      /\ ~txPending' => Heard(Now', Conns)
      /\ pend' # None => pend' \in Conns /\ Allocated(Now', pend') /\ txPending'
  BY <1>1, <1>2, DrainedIs
<1>4. drive' \in DriveRec /\ drive'.pc \notin {"write", "send"}
  BY <1>2, PhaseIs
<1> QED
  BY <1>3, <1>4, QuietStep

\* A step after which a pass may begin.
LEMMA NextTxIs ==
    ASSUME NEW sent \in BOOLEAN, cursor \in Nat, UNCHANGED <<live, cursor>>, drive' = NextTx(sent)
    PROVE  /\ drive' \in DriveRec /\ drive'.sent = sent /\ drive'.cut = FALSE /\ drive'.idx = 0
           /\ drive'.pc = (IF pend' # None THEN "send" ELSE "write")
           /\ drive'.start = (IF cursor < Len(live) THEN cursor ELSE 0)
BY DEF NextTx, Idle, DriveRec

LEMMA PassBegins ==
    ASSUME drive' \in DriveRec, drive'.idx = 0, live' \in Seq(Conns), txPending',
           drive'.pc = "write" => pend' = None,
           drive'.start = 0 \/ drive'.start < Len(live')
    PROVE  PassGood'
<1>1. Visited(Now, drive)' = {}
  <2>1. 0 .. drive'.idx - 1 = {}
    OBVIOUS
  <2> QED
    BY <2>1 DEF Visited
<1>2. Heard(Now, Visited(Now, drive))'
  BY <1>1 DEF Heard
<1>3. (live # <<>> => drive.start < Len(live))'
  <2>1. PICK s \in Seq(Conns) : s = live'
    OBVIOUS
  <2>2. s # <<>> => 0 < Len(s)
    OBVIOUS
  <2>3. live' # <<>> => drive'.start < Len(live')
    BY <2>1, <2>2
  <2> QED
    BY <2>3
<1>4. drive'.idx <= Len(live')
  OBVIOUS
<1> QED
  BY <1>2, <1>3, <1>4 DEF PassGood
LEMMA PollDoneStep ==
    ASSUME IInv, PollDone
    PROVE  IInv'
<1>1. PICK d : d = Drain(txPending)
  OBVIOUS
<1>2. /\ Drained(d) /\ UNCHANGED <<conn, live, cursor, pend>>
      /\ drive' = (IF d.ok /\ (d.tx \/ pend # None) THEN NextTx(FALSE) ELSE Idle)
  BY <1>1, Zenon DEF PollDone
<1>3. /\ Good(Now, tracked, events)' /\ TablesGood' /\ txPending' \in BOOLEAN
      /\ ~txPending' => Heard(Now', Conns)
      /\ pend' # None => pend' \in Conns /\ Allocated(Now', pend') /\ txPending'
  BY <1>1, <1>2, DrainedIs
<1>4. CASE ~(d.ok /\ (d.tx \/ pend # None))
  <2>1. drive' \in DriveRec /\ drive'.pc \notin {"write", "send"}
    BY <1>2, <1>4, PhaseIs
  <2> QED
    BY <1>3, <2>1, QuietStep
<1>5. CASE d.ok /\ (d.tx \/ pend # None)
  <2>1. cursor \in Nat /\ live \in Seq(Conns)
    BY InvIs, NowIs DEF Endpoint
  <2>2. PICK sent \in BOOLEAN : sent = FALSE
    OBVIOUS
  <2>3. /\ drive' \in DriveRec /\ drive'.idx = 0
        /\ drive'.start = (IF cursor < Len(live) THEN cursor ELSE 0)
        /\ drive'.pc = (IF pend' # None THEN "send" ELSE "write")
    BY <1>2, <1>5, <2>1, <2>2, NextTxIs
  <2>4. txPending'
    BY <1>2, <1>3, <1>5 DEF Drained
  <2>5. live' \in Seq(Conns) /\ (drive'.start = 0 \/ drive'.start < Len(live'))
    BY <1>2, <2>1, <2>3
  <2>6. PassGood'
    BY <2>3, <2>4, <2>5, PassBegins
  <2> QED
    BY <1>3, <2>3, <2>6 DEF IInv, DriveGood, DriveRec
<1> QED
  BY <1>4, <1>5

\* A step of the endpoint after which a pass may go on.
LEMMA PassStep ==
    ASSUME IInv, NEW st \in Endpoint, Now' = st, Good(st, tracked, events),
           UNCHANGED <<tracked, events>>, txPending',
           pend' # None => pend' \in Conns /\ Allocated(st, pend'),
           drive' \in DriveRec, PassGood'
    PROVE  IInv'
<1>1. TablesGood'
  BY DEF IInv, TablesGood
<1>2. Good(Now, tracked, events)'
  OBVIOUS
<1>3. txPending' \in BOOLEAN
  BY InvIs
<1> QED
  BY <1>1, <1>2, <1>3 DEF IInv, DriveGood, DriveRec
-----------------------------------------------------------------------------
(***************************************************************************)
(* The rounds of a pass.                                                   *)
(***************************************************************************)

LEMMA ModRange ==
    ASSUME NEW a \in Nat, NEW n \in Nat, 0 < n
    PROVE  a % n \in 0 .. n - 1
OBVIOUS

LEMMA ModIs ==
    ASSUME NEW n \in Nat, NEW a \in 0 .. n - 1
    PROVE  a % n = a /\ (a + n) % n = a
OBVIOUS

\* The connection a round visits is in use.
LEMMA RoundIs ==
    ASSUME IInv, drive.idx < Len(live), NEW at, at = (drive.start + drive.idx) % Len(live),
           NEW c, c = live[at + 1]
    PROVE  /\ c \in Conns /\ InUse(Now, c) /\ c = At(Now, drive, drive.idx)
           /\ at \in 0 .. Len(live) - 1 /\ Len(live) \in Nat /\ drive.idx \in Nat
<1>1. /\ live \in Seq(Conns) /\ Len(live) \in Nat /\ drive.idx \in Nat /\ drive.start \in Nat
  BY InvIs, NowIs DEF Endpoint, DriveRec
<1>2. at \in 0 .. Len(live) - 1
  <2>1. PICK n \in Nat : n = Len(live)
    BY <1>1
  <2>2. PICK a \in Nat : a = drive.start + drive.idx
    BY <1>1
  <2>3. a % n \in 0 .. n - 1
    BY <1>1, <2>1, ModRange
  <2> QED
    BY <2>1, <2>2, <2>3
<1>3. at + 1 \in 1 .. Len(live)
  BY <1>1, <1>2
<1>4. c \in Conns /\ c \in Range(live)
  BY <1>1, <1>3 DEF Range
<1> QED
  BY <1>1, <1>2, <1>4, InvIs, NowIs DEF At

\* A round that adds one connection to those visited.
LEMMA VisitedNext ==
    ASSUME NEW st, NEW nx, nx.live = st.live, NEW d \in DriveRec, NEW e, e.idx = d.idx + 1, e.start = d.start
    PROVE  \A x \in Visited(nx, e) : x \in Visited(st, d) \/ x = At(st, d, d.idx)
<1>1. SUFFICES ASSUME NEW k \in 0 .. e.idx - 1
               PROVE  At(nx, e, k) \in Visited(st, d) \/ At(nx, e, k) = At(st, d, d.idx)
  BY DEF Visited
<1>2. d.idx \in Nat
  BY DEF DriveRec
<1>3. At(nx, e, k) = At(st, d, k)
  BY DEF At
<1>4. k \in 0 .. d.idx - 1 \/ k = d.idx
  BY <1>2
<1> QED
  BY <1>3, <1>4 DEF Visited

LEMMA VisitedIn ==
    ASSUME IInv, drive.idx <= Len(live)
    PROVE  Visited(Now, drive) \in SUBSET Conns
<1>1. SUFFICES ASSUME NEW k \in 0 .. drive.idx - 1
               PROVE  At(Now, drive, k) \in Conns
  BY DEF Visited
<1>2. /\ live \in Seq(Conns) /\ Len(live) \in Nat /\ drive.idx \in Nat /\ drive.start \in Nat
  BY InvIs, NowIs DEF Endpoint, DriveRec
<1>3. PICK n \in Nat : n = Len(live) /\ 0 < n
  BY <1>2
<1>4. PICK a \in Nat : a = drive.start + k
  BY <1>2
<1>5. a % n \in 0 .. n - 1
  BY <1>3, ModRange
<1>6. (a % n) + 1 \in 1 .. Len(live)
  BY <1>3, <1>5
<1> QED
  BY <1>2, <1>3, <1>4, <1>6, NowIs DEF At

\* An outcome of a round that leaves the datagram in hand alone.
LEMMA RoundStep ==
    ASSUME IInv, drive.pc = "write", drive.idx < Len(live), NEW c \in Conns,
           c = At(Now, drive, drive.idx),
           NEW o, Stays(Now, o, tracked, events), NEW next \in DriveRec,
           next.pc = "write", next.idx = drive.idx + 1, next.start = drive.start,
           next.sent = drive.sent, drive.cut => next.cut,
           (o.ok /\ ~next.cut) => (o.st.live = live /\ Heard(o.st, {c})),
           Outcome(o, next)
    PROVE  IInv'
<1>1. /\ o.st \in Endpoint /\ Keeps(Now, o.st, tracked, events) /\ o.ok \in BOOLEAN
      /\ \A d \in Conns : Allocated(Now, d) => Allocated(o.st, d)
  BY DEF Stays
<1>2. Now' = o.st
  BY <1>1, BecomeIs DEF Outcome
<1>3. drive' = (IF o.ok THEN next ELSE Idle) /\ UNCHANGED <<tracked, events, pend, txPending>>
  BY Zenon DEF Outcome
<1>4. txPending /\ txPending'
  BY <1>3 DEF IInv, DriveGood, PassGood
<1>5. CASE ~o.ok
  <2>1. drive' \in DriveRec /\ drive'.pc \notin {"write", "send"}
    BY <1>3, <1>5, PhaseIs
  <2>2. txPending' \in BOOLEAN /\ (txPending => txPending')
    BY <1>3, InvIs
  <2> QED
    BY <1>1, <1>2, <1>3, <2>1, <2>2, EndpointStep
<1>6. CASE o.ok
  <2>1. drive' = next
    BY <1>3, <1>6
  <2>2. ASSUME ~next.sent, ~next.cut
        PROVE  /\ next.idx <= Len(live')
               /\ live' # <<>> => next.start < Len(live')
               /\ Heard(Now', Visited(Now', next))
    <3>1. o.st.live = live /\ Heard(o.st, {c}) /\ live' = live
      BY <1>2, <1>6, <2>2, NowIs DEF Now
    <3>2. /\ drive.idx <= Len(live) /\ (live # <<>> => drive.start < Len(live))
          /\ Heard(Now, Visited(Now, drive))
      BY <2>2 DEF IInv, DriveGood, PassGood
    <3>3. Len(live) \in Nat /\ drive.idx \in Nat
      BY InvIs, NowIs DEF Endpoint, DriveRec
    <3>4. next.idx <= Len(live')
      BY <3>1, <3>3
    <3>5. Visited(Now, drive) \in SUBSET Conns
      BY <3>2, VisitedIn
    <3>6. Heard(o.st, Visited(Now, drive))
      BY <1>1, <3>2, <3>5 DEF Keeps
    <3>7. \A x \in Visited(o.st, next) : x \in Visited(Now, drive) \/ x = c
      <4>1. PICK nx : nx = o.st
        OBVIOUS
      <4>2. PICK st : st = Now
        OBVIOUS
      <4>3. PICK d \in DriveRec : d = drive
        BY InvIs
      <4>4. nx.live = st.live /\ next.idx = d.idx + 1 /\ next.start = d.start
        BY <3>1, <4>1, <4>2, <4>3, NowIs
      <4>5. \A x \in Visited(nx, next) : x \in Visited(st, d) \/ x = At(st, d, d.idx)
        BY <4>4, VisitedNext
      <4> QED
        BY <4>1, <4>2, <4>3, <4>5
    <3>8. Heard(o.st, Visited(o.st, next))
      BY <3>1, <3>6, <3>7 DEF Heard
    <3> QED
      BY <1>2, <3>1, <3>2, <3>4, <3>8
  <2>3. PassGood'
    <3>1. drive'.pc \in {"write", "send"} => txPending'
      BY <1>4
    <3>2. (drive'.pc = "write" /\ ~drive'.sent /\ ~drive'.cut) =>
             /\ drive'.idx <= Len(live')
             /\ live' # <<>> => drive'.start < Len(live')
             /\ Heard(Now', Visited(Now', drive'))
      BY <2>1, <2>2
    <3>3. drive'.pc = "write" => pend' = None
      BY <1>3 DEF IInv, DriveGood, PassGood
    <3> QED
      BY <3>1, <3>2, <3>3, Zenon DEF PassGood
  <2>4. pend' # None => pend' \in Conns /\ Allocated(o.st, pend')
    BY <1>1, <1>3 DEF IInv, DriveGood
  <2>5. Good(o.st, tracked, events)
    BY <1>1 DEF Keeps
  <2> QED
    BY <1>1, <1>2, <1>3, <1>4, <2>1, <2>3, <2>4, <2>5, PassStep
<1> QED
  BY <1>1, <1>5, <1>6
\* A round that ends with a datagram in hand.
LEMMA PreparedStep ==
    ASSUME IInv, drive.pc = "write", NEW c \in Conns, NEW st \in Endpoint,
           Good(st, tracked, events), Allocated(st, c), Become(st), Prepared(c)
    PROVE  IInv'
<1>1. Now' = st
  BY BecomeIs
<1>2. /\ pend' = c /\ drive' = [Phase("send") EXCEPT !.sent = drive.sent]
      /\ UNCHANGED <<tracked, events, txPending>>
  BY DEF Prepared
<1>3. txPending'
  BY <1>2 DEF IInv, DriveGood, PassGood
<1>4. drive' \in DriveRec /\ drive'.pc = "send"
  BY <1>2, InvIs DEF Phase, Idle, DriveRec
<1>5. PassGood'
  BY <1>3, <1>4 DEF PassGood
<1> QED
  BY <1>1, <1>2, <1>3, <1>4, <1>5, PassStep

\* The round robin's place alone.
LEMMA CursorGood ==
    ASSUME NEW st \in Endpoint, NEW tr, NEW ev, Good(st, tr, ev), NEW k \in Nat, k <= Len(st.live),
           NEW nx, nx = [st EXCEPT !.cursor = k]
    PROVE  nx \in Endpoint /\ Good(nx, tr, ev) /\ nx.conn = st.conn
<1>1. /\ nx \in Endpoint /\ nx.conn = st.conn /\ nx.live = st.live /\ nx.ring = st.ring
      /\ nx.app = st.app /\ nx.cursor = k
  BY DEF Endpoint
<1>2. \A c \in Conns : /\ InUse(nx, c) = InUse(st, c) /\ Allocated(nx, c) = Allocated(st, c)
                       /\ Ends(nx, ev, c) = Ends(st, ev, c)
  BY <1>1 DEF InUse, Allocated, Ends
<1>3. LiveTable(nx)
  BY <1>1 DEF Good, LiveTable, InUse
<1>4. Names(nx, nx.ring) /\ Names(nx, tr) /\ Names(nx, ev)
  BY <1>1 DEF Good, Names, Allocated
<1>5. EndsExact(nx, ev) /\ AppExact(nx)
  BY <1>1, <1>2 DEF Good, EndsExact, AppExact
<1>6. NothingAfter(nx, tr, ev)
  BY <1>1 DEF Good, NothingAfter, Over
<1> QED
  BY <1>1, <1>3, <1>4, <1>5, <1>6 DEF Good

LEMMA WriteCloseStep ==
    ASSUME IInv, drive.pc = "write", drive.idx < Len(live), NEW c \in Conns, InUse(Now, c),
           c = At(Now, drive, drive.idx), NEW again, again = [drive EXCEPT !.idx = @ + 1],
           WriteClose(c, again)
    PROVE  IInv'
<1>1. /\ again \in DriveRec /\ again.pc = "write" /\ again.idx = drive.idx + 1
      /\ again.start = drive.start /\ again.sent = drive.sent /\ again.cut = drive.cut
  BY InvIs DEF DriveRec
<1>2. CASE Become(MarkClosed(Now, c).st) /\ Prepared(c)
  <2>1. Stays(Now, MarkClosed(Now, c), tracked, events) /\ Allocated(Now, c)
    BY InvIs, MarkClosedStays, InUseNotEnded
  <2>2. PICK st : st = MarkClosed(Now, c).st
    OBVIOUS
  <2>3. st \in Endpoint /\ Good(st, tracked, events) /\ Allocated(st, c)
    BY <2>1, <2>2 DEF Stays, Keeps
  <2> QED
    BY <1>2, <2>2, <2>3, PreparedStep
<1>3. CASE Outcome(Done(Now), [again EXCEPT !.cut = TRUE])
  <2>1. PICK next : next = [again EXCEPT !.cut = TRUE]
    OBVIOUS
  <2>2. /\ next \in DriveRec /\ next.pc = "write" /\ next.idx = drive.idx + 1
        /\ next.start = drive.start /\ next.sent = drive.sent /\ next.cut = TRUE
    BY <1>1, <2>1 DEF DriveRec
  <2>3. PICK o : o = Done(Now)
    OBVIOUS
  <2>4. Stays(Now, o, tracked, events) /\ Outcome(o, next)
    BY <1>3, <2>1, <2>3, InvIs, DoneStays
  <2> QED
    BY <2>2, <2>4, RoundStep
<1>4. CASE Outcome(Failed(Now), again)
  <2>1. PICK o : o = Failed(Now)
    OBVIOUS
  <2>2. Stays(Now, o, tracked, events) /\ Outcome(o, again) /\ o.ok = FALSE
    BY <1>4, <2>1, InvIs, DoneStays
  <2> QED
    BY <1>1, <2>2, RoundStep
<1> QED
  BY <1>2, <1>3, <1>4, Zenon DEF WriteClose

LEMMA WriteDataStep ==
    ASSUME IInv, drive.pc = "write", drive.idx < Len(live), NEW c \in Conns, InUse(Now, c),
           c = At(Now, drive, drive.idx), NEW at \in 0 .. Len(live) - 1,
           NEW again, again = [drive EXCEPT !.idx = @ + 1], WriteData(c, at, again)
    PROVE  IInv'
<1>1. /\ again \in DriveRec /\ again.pc = "write" /\ again.idx = drive.idx + 1
      /\ again.start = drive.start /\ again.sent = drive.sent /\ again.cut = drive.cut
  BY InvIs DEF DriveRec
<1>2. Allocated(Now, c) /\ ~conn[c].closeReq
  BY NowIs DEF WriteData, InUse, Allocated, NoObject
<1>3. CASE Become([Now EXCEPT !.cursor = (at + 1) % Len(live)]) /\ Prepared(c)
  <2>1. PICK k : k = (at + 1) % Len(live)
    OBVIOUS
  <2>2. k \in Nat /\ k <= Len(Now.live)
    <3>1. Len(live) \in Nat /\ at \in Nat /\ 0 < Len(live)
      BY InvIs, NowIs DEF Endpoint
    <3>2. PICK n \in Nat : n = Len(live) /\ 0 < n
      BY <3>1
    <3>3. PICK a \in Nat : a = at + 1
      BY <3>1
    <3>4. a % n \in 0 .. n - 1
      BY <3>2, ModRange
    <3> QED
      BY <2>1, <3>2, <3>3, <3>4, NowIs
  <2>3. PICK st : st = Now
    OBVIOUS
  <2>4. PICK nx : nx = [st EXCEPT !.cursor = k]
    OBVIOUS
  <2>5. nx \in Endpoint /\ Good(nx, tracked, events) /\ nx.conn = st.conn
    BY <2>2, <2>3, <2>4, InvIs, CursorGood
  <2>6. Become(nx) /\ Allocated(nx, c)
    BY <1>2, <1>3, <2>1, <2>3, <2>4, <2>5 DEF Allocated
  <2> QED
    BY <1>3, <2>5, <2>6, PreparedStep
<1>4. CASE Outcome(Done(Now), again)
  <2>1. PICK o : o = Done(Now)
    OBVIOUS
  <2>2. Stays(Now, o, tracked, events) /\ Outcome(o, again) /\ o.st = Now
    BY <1>4, <2>1, InvIs, DoneStays
  <2>3. o.st.live = live /\ Heard(o.st, {c})
    BY <1>2, <2>2, NowIs DEF Heard, Asks
  <2> QED
    BY <1>1, <2>2, <2>3, RoundStep
<1>5. ASSUME NEW rv \in {"ends", "fails", "endpoint"},
             Outcome(HandleConnError(Now, c, rv), [again EXCEPT !.cut = @ \/ rv = "ends"])
      PROVE  IInv'
  <2>1. PICK next : next = [again EXCEPT !.cut = @ \/ rv = "ends"]
    OBVIOUS
  <2>2. /\ next \in DriveRec /\ next.pc = "write" /\ next.idx = drive.idx + 1
        /\ next.start = drive.start /\ next.sent = drive.sent
        /\ next.cut = (drive.cut \/ rv = "ends")
    BY <1>1, <2>1 DEF DriveRec
  <2>3. PICK o : o = HandleConnError(Now, c, rv)
    OBVIOUS
  <2>4. Stays(Now, o, tracked, events)
    BY <2>3, InvIs, HandleConnErrorStays
  <2>5. (o.ok /\ ~next.cut) => (o.st.live = live /\ Heard(o.st, {c}))
    <3>1. SUFFICES ASSUME o.ok, ~next.cut
                   PROVE  o.st.live = live /\ Heard(o.st, {c})
      OBVIOUS
    <3>2. rv # "ends"
      BY <2>2, <3>1
    <3>3. CASE rv = "fails"
      <4>1. o = RequestClose(Now, c)
        BY <2>3, <3>3 DEF HandleConnError
      <4> QED
        BY <1>2, <4>1, InvIs, NowIs, RequestCloseStays
    <3>4. CASE rv = "endpoint"
      <4>1. o = Failed(Now)
        BY <2>3, <3>4 DEF HandleConnError
      <4>2. o.ok = FALSE
        BY <4>1, InvIs, DoneStays
      <4> QED
        BY <3>1, <4>2
    <3> QED
      BY <3>2, <3>3, <3>4
  <2>6. Outcome(o, next)
    BY <1>5, <2>1, <2>3
  <2>7. drive.cut => next.cut
    BY <2>2
  <2> QED
    BY <2>2, <2>4, <2>5, <2>6, <2>7, RoundStep
<1> QED
  BY <1>3, <1>4, <1>5, Zenon DEF WriteData

LEMMA WriteStep ==
    ASSUME IInv, Write
    PROVE  IInv'
<1>1. PICK at : at = (drive.start + drive.idx) % Len(live)
  OBVIOUS
<1>2. PICK c : c = live[at + 1]
  OBVIOUS
<1>3. PICK again : again = [drive EXCEPT !.idx = @ + 1]
  OBVIOUS
<1>4. /\ drive.pc = "write" /\ drive.idx < Len(live)
      /\ WriteClose(c, again) \/ WriteData(c, at, again)
  BY <1>1, <1>2, <1>3, Zenon DEF Write
<1>5. /\ c \in Conns /\ InUse(Now, c) /\ c = At(Now, drive, drive.idx)
      /\ at \in 0 .. Len(live) - 1
  BY <1>1, <1>2, <1>4, RoundIs
<1>6. CASE WriteClose(c, again)
  BY <1>3, <1>4, <1>5, <1>6, WriteCloseStep
<1>7. CASE WriteData(c, at, again)
  BY <1>3, <1>4, <1>5, <1>7, WriteDataStep
<1> QED
  BY <1>4, <1>6, <1>7
-----------------------------------------------------------------------------
(***************************************************************************)
(* The end of the transmit phase.                                          *)
(***************************************************************************)

\* A pass that came to its end visited every connection.
LEMMA AllVisited ==
    ASSUME IInv, drive.pc = "write", ~drive.sent, ~drive.cut, drive.idx >= Len(live)
    PROVE  Heard(Now, Conns)
<1>1. /\ drive.idx <= Len(live)
      /\ live # <<>> => drive.start < Len(live)
      /\ Heard(Now, Visited(Now, drive))
  BY DEF IInv, DriveGood, PassGood
<1>2. SUFFICES ASSUME NEW c \in Conns, Asks(Now, c)
               PROVE  c \in Visited(Now, drive)
  BY <1>1 DEF Heard
<1>3. /\ live \in Seq(Conns) /\ Len(live) \in Nat /\ drive.idx \in Nat /\ drive.start \in Nat
  BY InvIs, NowIs DEF Endpoint, DriveRec
<1>4. PICK i \in 1 .. Len(live) : live[i] = c
  BY <1>2, InvIs, NowIs DEF Good, LiveTable, Asks
<1>5. PICK n \in Nat : n = Len(live) /\ n = drive.idx
  BY <1>1, <1>3
<1>6. drive.start < n /\ i - 1 \in 0 .. n - 1
  <2>1. live # <<>>
    BY <1>3, <1>4
  <2> QED
    BY <1>1, <1>4, <1>5, <2>1
<1>7. PICK a \in 0 .. n - 1 : a = i - 1
  BY <1>6
<1>8. PICK s \in 0 .. n - 1 : s = drive.start
  BY <1>3, <1>6
<1>9. \E k \in 0 .. n - 1 : s + k = a \/ s + k = a + n
  <2>1. CASE s <= a
    <3>1. a - s \in 0 .. n - 1 /\ s + (a - s) = a
      BY <2>1
    <3> QED
      BY <3>1
  <2>2. CASE ~(s <= a)
    <3>1. a + n - s \in 0 .. n - 1 /\ s + (a + n - s) = a + n
      BY <2>2
    <3> QED
      BY <3>1
  <2> QED
    BY <2>1, <2>2
<1>10. PICK k \in 0 .. n - 1 : s + k = a \/ s + k = a + n
  BY <1>9
<1>11. (s + k) % n = a
  <2>1. a % n = a /\ (a + n) % n = a
    BY ModIs
  <2> QED
    BY <1>10, <2>1, Zenon
<1>12. At(Now, drive, k) = live[a + 1]
  BY <1>5, <1>8, <1>11, NowIs DEF At
<1>13. live[a + 1] = c /\ k \in 0 .. drive.idx - 1
  BY <1>3, <1>4, <1>5, <1>7
<1> QED
  BY <1>12, <1>13 DEF Visited

\* nx is the endpoint after the drain d and after a pass that may have been cut short.
CutTo(d, nx) ==
    /\ nx \in Endpoint
    /\ nx.conn = conn /\ nx.live = live /\ nx.cursor = cursor /\ nx.ring = d.ring
    /\ nx.app = PassedOver(d.app)
    /\ \A c \in Conns :
         /\ nx.app[c].told = d.app[c].told /\ nx.app[c].lost = d.app[c].lost
         /\ (~drive.cut \/ ~Registered(c)) => nx.app[c] = d.app[c]
         /\ (drive.cut /\ Registered(c) /\ conn[c].closeReq) => nx.app[c].unheard

LEMMA CutAppIs ==
    ASSUME NEW d, DrainSt(d) \in Endpoint, NEW nx, nx = [DrainSt(d) EXCEPT !.app = PassedOver(d.app)],
           drive.cut \in BOOLEAN
    PROVE  CutTo(d, nx)
<1>1. PICK st : st = DrainSt(d)
  OBVIOUS
<1>2. PICK aa : aa = PassedOver(d.app)
  OBVIOUS
<1>3. st.app = d.app /\ st.conn = conn /\ st.live = live /\ st.cursor = cursor /\ st.ring = d.ring
  BY <1>1, DrainStIs
<1>4. d.app \in [Conns -> AppRec] /\ conn \in [Conns -> ConnRec] /\ st \in Endpoint
  BY <1>1, <1>3 DEF Endpoint
<1>5. ASSUME NEW c \in Conns
      PROVE  /\ aa[c] \in AppRec /\ aa[c].told = d.app[c].told /\ aa[c].lost = d.app[c].lost
             /\ (~drive.cut \/ ~Registered(c)) => aa[c] = d.app[c]
             /\ (drive.cut /\ Registered(c) /\ conn[c].closeReq) => aa[c].unheard
  <2>1. PICK x \in BOOLEAN : x <=> (drive.cut /\ Registered(c) /\ conn[c].closeReq)
    <3>1. TRUE \in BOOLEAN /\ FALSE \in BOOLEAN
      OBVIOUS
    <3> QED
      BY <3>1, Zenon
  <2>2. PICK y \in BOOLEAN : y = (drive.cut /\ Registered(c) /\ conn[c].closeReq)
    <3>1. conn[c].closeReq \in BOOLEAN /\ Registered(c) \in BOOLEAN
      BY <1>4 DEF ConnRec, Registered
    <3> QED
      BY <3>1
  <2>3. aa[c] = [d.app[c] EXCEPT !.unheard = @ \/ y]
    BY <1>2, <2>2 DEF PassedOver
  <2>4. d.app[c] \in AppRec
    BY <1>4
  <2> QED
    BY <2>2, <2>3, <2>4 DEF AppRec
<1>6. aa \in [Conns -> AppRec]
  <2>1. aa = [c \in Conns |-> aa[c]]
    BY <1>2, Zenon DEF PassedOver
  <2> QED
    BY <1>5, <2>1
<1>7. nx = [st EXCEPT !.app = aa]
  BY <1>1, <1>2
<1>8. /\ nx \in Endpoint /\ nx.app = aa /\ nx.conn = conn /\ nx.live = live /\ nx.cursor = cursor
      /\ nx.ring = d.ring
  BY <1>3, <1>4, <1>6, <1>7 DEF Endpoint
<1> QED
  BY <1>2, <1>5, <1>8 DEF CutTo

LEMMA TxDoneStep ==
    ASSUME IInv, NEW wants \in BOOLEAN, ~wants => drive.cut \/ Heard(Now, Conns), TxDone(wants),
           pend' # None => pend' = pend /\ wants
    PROVE  IInv'
<1>1. PICK d : d = Drain(wants)
  OBVIOUS
<1>2. PICK e : e = [d EXCEPT !.app = PassedOver(d.app)]
  OBVIOUS
<1>3. Drained(e) /\ drive' = Idle /\ UNCHANGED <<conn, live, cursor>>
  <2>1. TxDone(wants)
    OBVIOUS
  <2> QED
    BY <1>1, <1>2, <2>1, Zenon DEF TxDone
<1>4. PICK U \in SUBSET Conns : U = IF drive.cut THEN {} ELSE Conns
  OBVIOUS
<1>5. ~wants => Heard(Now, U)
  BY <1>4 DEF Heard
<1>6. DrainGood(d, U)
  BY <1>1, <1>5, DrainIs
<1>7. /\ e.ring = d.ring /\ e.tracked = d.tracked /\ e.events = d.events /\ e.tx = d.tx
      /\ e.app = PassedOver(d.app)
  BY <1>2, <1>6 DEF DrainGood, DrainShape
<1>8. /\ ring' = d.ring /\ tracked' = d.tracked /\ events' = d.events /\ txPending' = d.tx
      /\ app' = PassedOver(d.app)
  BY <1>3, <1>7 DEF Drained
<1>9. /\ DrainSt(d) \in Endpoint /\ Good(DrainSt(d), tracked', events')
      /\ TablesGood' /\ txPending' \in BOOLEAN /\ (wants => txPending')
      /\ ~txPending' => Heard(DrainSt(d), U)
      /\ tracked' \in Seq(EntryRec) /\ events' \in Seq(Event)
  BY <1>1, <1>5, <1>8, DrainedTables
<1>10. PICK nx : nx = [DrainSt(d) EXCEPT !.app = PassedOver(d.app)]
  OBVIOUS
<1>11. drive.cut \in BOOLEAN
  BY InvIs DEF DriveRec
<1>12. /\ nx \in Endpoint
       /\ nx.conn = conn /\ nx.live = live /\ nx.cursor = cursor /\ nx.ring = d.ring
       /\ nx.app = PassedOver(d.app)
       /\ \A c \in Conns :
            /\ nx.app[c].told = d.app[c].told /\ nx.app[c].lost = d.app[c].lost
            /\ (~drive.cut \/ ~Registered(c)) => nx.app[c] = d.app[c]
            /\ (drive.cut /\ Registered(c) /\ conn[c].closeReq) => nx.app[c].unheard
  <2>1. CutTo(d, nx)
    BY <1>9, <1>10, <1>11, CutAppIs
  <2> QED
    BY <2>1 DEF CutTo
<1>13. Now' = nx
  <2>1. nx = [conn |-> conn, live |-> live, cursor |-> cursor, ring |-> d.ring, app |-> PassedOver(d.app)]
    BY <1>10 DEF DrainSt
  <2> QED
    BY <1>3, <1>8, <2>1 DEF Now
<1>14. Good(nx, tracked', events')
  <2>1. PICK st \in Endpoint : st = DrainSt(d)
    BY <1>9
  <2>2. /\ st.conn = conn /\ st.live = live /\ st.cursor = cursor /\ st.ring = d.ring /\ st.app = d.app
    BY <2>1, DrainStIs
  <2>3. PICK tr \in Seq(EntryRec) : tr = tracked'
    BY <1>9
  <2>4. PICK ev \in Seq(Event) : ev = events'
    BY <1>9
  <2>5. \A c \in Conns :
             /\ InUse(nx, c) <=> InUse(st, c)
             /\ Allocated(nx, c) <=> Allocated(st, c)
             /\ nx.app[c].told = st.app[c].told /\ nx.app[c].lost = st.app[c].lost
             /\ ~Allocated(st, c) => nx.app[c] = st.app[c]
    BY <1>12, <2>2 DEF InUse, Allocated, Registered, NoObject
  <2>6. nx.live = st.live /\ nx.cursor = st.cursor /\ nx.ring = st.ring /\ Good(st, tr, ev)
    BY <1>9, <1>12, <2>1, <2>2, <2>3, <2>4
  <2>7. Good(nx, tr, ev)
    BY <1>12, <2>5, <2>6, GoodFrame
  <2> QED
    BY <2>3, <2>4, <2>7
<1>15. ~txPending' => Heard(nx, Conns)
  <2>1. CASE drive.cut
    BY <1>12, <2>1 DEF Heard, Asks, InUse, Registered
  <2>2. CASE ~drive.cut
    <3>1. \A c \in Conns : nx.app[c] = d.app[c]
      BY <1>12, <2>2
    <3>2. \A c \in Conns : Asks(nx, c) => Asks(DrainSt(d), c)
      BY <1>12, <3>1, DrainStIs DEF Asks, InUse
    <3> QED
      BY <1>4, <1>9, <1>12, <2>2, <3>2, DrainStIs DEF Heard
  <2> QED
    BY <2>1, <2>2
<1>16. pend' # None => pend' \in Conns /\ Allocated(nx, pend') /\ txPending'
  BY <1>9, <1>12, NowIs DEF IInv, DriveGood, Allocated
<1>17. drive' \in DriveRec /\ drive'.pc \notin {"write", "send"}
  BY <1>3, PhaseIs
<1>18. Good(Now, tracked, events)'
  BY <1>13, <1>14
<1> QED
  BY <1>9, <1>13, <1>15, <1>16, <1>17, <1>18, QuietStep

LEMMA WriteDoneStep ==
    ASSUME IInv, WriteDone
    PROVE  IInv'
<1>1. drive.pc = "write" /\ drive.idx >= Len(live) /\ TxDone(drive.sent) /\ UNCHANGED pend
  BY DEF WriteDone
<1>2. PICK wants \in BOOLEAN : wants = drive.sent
  BY InvIs DEF DriveRec
<1>3. ~wants => drive.cut \/ Heard(Now, Conns)
  BY <1>1, <1>2, AllVisited
<1>4. pend' = None
  BY <1>1 DEF IInv, DriveGood, PassGood
<1> QED
  BY <1>1, <1>2, <1>3, <1>4, TxDoneStep

LEMMA SendStep ==
    ASSUME IInv, Send
    PROVE  IInv'
<1>1. drive.pc = "send"
  BY DEF Send
<1>2. CASE /\ pend' = None /\ txPending' = TRUE
           /\ drive' = NextTx(TRUE)
           /\ UNCHANGED <<conn, live, cursor, ring, tracked, events, app>>
  <2>1. PICK sent \in BOOLEAN : sent = TRUE
    OBVIOUS
  <2>2. cursor \in Nat
    BY InvIs, NowIs DEF Endpoint
  <2>3. drive' \in DriveRec /\ drive'.sent = TRUE
    BY <1>2, <2>1, <2>2, NextTxIs
  <2>4. Now' = Now /\ Now \in Endpoint /\ Good(Now, tracked, events)
    BY <1>2, InvIs DEF Now
  <2>5. PassGood'
    BY <1>2, <2>3 DEF PassGood
  <2> QED
    BY <1>2, <2>3, <2>4, <2>5, PassStep
<1>3. CASE pend' = None /\ TxDone(TRUE)
  <2>1. PICK wants \in BOOLEAN : wants = TRUE
    OBVIOUS
  <2> QED
    BY <1>3, <2>1, TxDoneStep
<1>4. CASE UNCHANGED pend /\ TxDone(TRUE)
  <2>1. PICK wants \in BOOLEAN : wants = TRUE
    OBVIOUS
  <2> QED
    BY <1>4, <2>1, TxDoneStep
<1>5. CASE /\ pend' = None /\ drive' = Idle
           /\ UNCHANGED <<conn, live, cursor, ring, tracked, events, app, txPending>>
  <2>1. Now' = Now
    BY <1>5 DEF Now
  <2>2. Good(Now, tracked, events)' /\ TablesGood'
    BY <1>5, <2>1, InvIs DEF IInv, TablesGood
  <2>3. txPending' \in BOOLEAN /\ (~txPending' => Heard(Now', Conns))
    BY <1>5, <2>1, InvIs DEF IInv, DriveGood
  <2>4. drive' \in DriveRec /\ drive'.pc \notin {"write", "send"}
    BY <1>5, PhaseIs
  <2> QED
    BY <1>5, <2>2, <2>3, <2>4, QuietStep
<1> QED
  BY <1>2, <1>3, <1>4, <1>5, Zenon DEF Send
-----------------------------------------------------------------------------
(***************************************************************************)
(* The invariant, and what it says of the service.                         *)
(***************************************************************************)

LEMMA InitInv ==
    ASSUME Init
    PROVE  IInv
<1>1. /\ conn = [c \in Conns |-> NoObject] /\ live = <<>> /\ cursor = 0 /\ ring = <<>>
      /\ tracked = <<>> /\ events = <<>> /\ pend = None /\ txPending = FALSE
      /\ drive = Idle /\ app = [c \in Conns |-> Unknown]
  BY DEF Init, EndpointInit
<1>2. NoObject \in ConnRec /\ Unknown \in AppRec
  BY DEF NoObject, Unknown, ConnRec, AppRec, Roles
<1>3. Now \in Endpoint
  BY <1>1, <1>2 DEF Now, Endpoint
<1>4. /\ Len(Now.live) = 0 /\ Len(Now.ring) = 0 /\ Len(tracked) = 0 /\ Len(events) = 0
      /\ tracked \in Seq(EntryRec) /\ events \in Seq(Event)
  BY <1>1, NowIs
<1>5. \A c \in Conns : ~InUse(Now, c) /\ ~Allocated(Now, c) /\ Now.app[c] = Unknown
  BY <1>1, NowIs DEF InUse, Allocated, NoObject
<1>6. LiveTable(Now)
  BY <1>1, <1>4, <1>5, NowIs DEF LiveTable
<1>7. Names(Now, Now.ring) /\ Names(Now, tracked) /\ Names(Now, events)
  BY <1>4 DEF Names
<1>8. EndsExact(Now, events) /\ AppExact(Now) /\ EndsLast(Now.ring) /\ EndsLast(events)
  BY <1>4, <1>5 DEF EndsExact, AppExact, EndsLast
<1>9. NothingAfter(Now, tracked, events)
  <2>1. \A c \in Conns : Over(Now, tracked, events, c)
    BY <1>4 DEF Over
  <2> QED
    BY <1>4, <2>1 DEF NothingAfter
<1>10. Good(Now, tracked, events)
  BY <1>3, <1>4, <1>6, <1>7, <1>8, <1>9, Sizes DEF Good
<1>11. TablesGood
  BY <1>4, <1>8, Sizes DEF TablesGood, Once
<1>12. Heard(Now, Conns)
  BY <1>5 DEF Heard, Asks
<1>13. DriveGood
  BY <1>1, <1>12, PhaseIs DEF DriveGood, PassGood, DriveRec
<1> QED
  BY <1>10, <1>11, <1>13 DEF IInv

LEMMA Unchanged ==
    ASSUME IInv, UNCHANGED vars
    PROVE  IInv'
<1>1. /\ UNCHANGED <<conn, live, cursor, ring, app>>
      /\ UNCHANGED <<tracked, events, pend, txPending, drive>>
  BY DEF vars
<1>2. Now' = Now
  BY <1>1 DEF Now
<1>3. Good(Now, tracked, events)' /\ TablesGood'
  BY <1>1, <1>2 DEF IInv, TablesGood
<1>4. PassGood'
  BY <1>1, <1>2 DEF IInv, DriveGood, PassGood, Visited, At, Heard
<1>5. DriveGood'
  BY <1>1, <1>2, <1>4 DEF IInv, DriveGood
<1> QED
  BY <1>3, <1>5 DEF IInv

LEMMA Invariance == Spec => []IInv
<1>1. IInv /\ [Next]_vars => IInv'
  <2>1. SUFFICES ASSUME IInv, [Next]_vars
                 PROVE  IInv'
    OBVIOUS
  <2>2. CASE DriveStart \/ RxDone \/ Poll \/ PollDone
    BY <2>1, <2>2, DriveStartStep, RxDoneStep, PollStep, PollDoneStep
  <2>3. CASE Write \/ WriteDone \/ Send
    BY <2>1, <2>3, WriteStep, WriteDoneStep, SendStep
  <2>4. ASSUME NEW c \in Conns, \/ RxKnown(c) \/ RxNew(c) \/ Dial(c) \/ ConnClose(c)
                                \/ StreamCall(c) \/ OpenStream(c) \/ Release(c)
        PROVE  IInv'
    BY <2>1, <2>4, RxKnownStep, RxNewStep, DialStep, ConnCloseStep, StreamCallStep, OpenStreamStep,
       ReleaseStep
  <2>5. CASE ServiceClose \/ NextEvent \/ HostNextEvent \/ AcceptConn
    BY <2>1, <2>5, ServiceCloseStep, NextEventStep, HostNextEventStep, AcceptConnStep
  <2>6. CASE UNCHANGED vars
    BY <2>1, <2>6, Unchanged
  <2> QED
    BY <2>1, <2>2, <2>3, <2>4, <2>5, <2>6, Zenon DEF Next
<1> QED
  BY <1>1, InitInv, PTL DEF Spec

-----------------------------------------------------------------------------
(***************************************************************************)
(* What has ended stays ended: an allocated connection that is not         *)
(* registered any more is closed.                                          *)
(***************************************************************************)

Retired(st) == \A c \in Conns : Allocated(st, c) /\ ~InUse(st, c) => st.conn[c].st = "closed"

\* Only c changes, and it is in use, closed or released afterwards.
LEMMA OneRetired ==
    ASSUME NEW st, Retired(st), NEW nx, NEW c \in Conns,
           \A d \in Conns \ {c} : nx.conn[d] = st.conn[d],
           InUse(nx, c) \/ nx.conn[c].st = "closed" \/ ~Allocated(nx, c)
    PROVE  Retired(nx)
<1>1. ASSUME NEW d \in Conns, Allocated(nx, d), ~InUse(nx, d)
      PROVE  nx.conn[d].st = "closed"
  <2>1. CASE d = c
    BY <1>1, <2>1
  <2>2. CASE d # c
    BY <1>1, <2>2 DEF Retired, Allocated, InUse
  <2> QED
    BY <2>1, <2>2
<1> QED
  BY <1>1 DEF Retired

LEMMA SameRetired ==
    ASSUME NEW st, Retired(st), NEW nx, nx.conn = st.conn
    PROVE  Retired(nx)
BY DEF Retired, Allocated, InUse

\* A request to close a connection in use.
LEMMA RequestCloseRetired ==
    ASSUME NEW st \in Endpoint, Retired(st), NEW c \in Conns, InUse(st, c)
    PROVE  Retired(RequestClose(st, c).st)
<1>1. PICK r : r = [st.conn[c] EXCEPT !.st = "closing", !.closeReq = TRUE]
  OBVIOUS
<1>2. PICK nx : nx = [st EXCEPT !.conn[c] = r]
  OBVIOUS
<1>3. r \in ConnRec /\ r.role = st.conn[c].role
  BY <1>1 DEF Endpoint, ConnRec
<1>4. nx \in Endpoint /\ nx.conn[c] = r /\ \A d \in Conns \ {c} : nx.conn[d] = st.conn[d]
  BY <1>2, <1>3 DEF Endpoint
<1>5. nx = [st EXCEPT !.conn[c].st = "closing", !.conn[c].closeReq = TRUE]
  BY <1>1, <1>2 DEF Endpoint, ConnRec
<1>6. RequestClose(st, c) = EventPush(nx, "txready", c)
  BY <1>5 DEF RequestClose
<1>7. RequestClose(st, c).st.conn = nx.conn
  <2>1. "txready" \in EventTypes
    BY DEF EventTypes
  <2> QED
    BY <1>4, <1>6, <2>1, PushConn
<1>8. Retired(nx)
  BY <1>3, <1>4, OneRetired DEF InUse
<1> QED
  BY <1>7, <1>8, SameRetired

LEMMA HandshakeRetired ==
    ASSUME NEW st \in Endpoint, Retired(st), NEW c \in Conns, InUse(st, c)
    PROVE  Retired(HandshakeCompleted(st, c).st)
<1>1. PICK r : r = [st.conn[c] EXCEPT !.st = "established", !.fresh = FALSE]
  OBVIOUS
<1>2. PICK nx : nx = [st EXCEPT !.conn[c] = r]
  OBVIOUS
<1>3. r \in ConnRec /\ r.role = st.conn[c].role
  BY <1>1 DEF Endpoint, ConnRec
<1>4. nx \in Endpoint /\ nx.conn[c] = r /\ \A d \in Conns \ {c} : nx.conn[d] = st.conn[d]
  BY <1>2, <1>3 DEF Endpoint
<1>5. nx = [st EXCEPT !.conn[c].st = "established", !.conn[c].fresh = FALSE]
  BY <1>1, <1>2 DEF Endpoint, ConnRec
<1>6. HandshakeCompleted(st, c) = EventPush(nx, "established", c)
  BY <1>5 DEF HandshakeCompleted
<1>7. HandshakeCompleted(st, c).st.conn = nx.conn
  <2>1. "established" \in EventTypes
    BY DEF EventTypes
  <2> QED
    BY <1>4, <1>6, <2>1, PushConn
<1>8. Retired(nx)
  BY <1>3, <1>4, OneRetired DEF InUse
<1> QED
  BY <1>7, <1>8, SameRetired

LEMMA MarkClosedRetired ==
    ASSUME NEW st \in Endpoint, Retired(st), NEW tr, NEW ev, Good(st, tr, ev),
           NEW c \in Conns, InUse(st, c)
    PROVE  Retired(MarkClosed(st, c).st)
<1>1. LiveTable(st)
  BY DEF Good
<1>2. PICK i \in 1 .. Len(st.live) : st.live[i] = c
  BY <1>1 DEF LiveTable
<1>3. /\ \A j \in 1 .. Len(st.live) : st.live[j] = c => j = i
      /\ st.cursor <= Len(st.live)
  BY <1>1, <1>2 DEF LiveTable
<1>4. PICK nx : nx = MarkClosed(st, c).st
  OBVIOUS
<1>5. ClosedTo(st, nx, c, i)
  BY <1>2, <1>3, <1>4, MarkClosedIs
<1> QED
  BY <1>4, <1>5, OneRetired DEF ClosedTo

LEMMA HandleConnErrorRetired ==
    ASSUME NEW st \in Endpoint, Retired(st), NEW tr, NEW ev, Good(st, tr, ev),
           NEW c \in Conns, InUse(st, c), NEW rv \in {"ok", "ends", "fails", "endpoint"}
    PROVE  Retired(HandleConnError(st, c, rv).st)
<1>1. CASE rv = "ends"
  <2>1. HandleConnError(st, c, rv) = MarkClosed(st, c)
    BY <1>1 DEF HandleConnError
  <2> QED
    BY <2>1, MarkClosedRetired
<1>2. CASE rv = "fails"
  <2>1. HandleConnError(st, c, rv) = RequestClose(st, c)
    BY <1>2 DEF HandleConnError
  <2> QED
    BY <2>1, RequestCloseRetired
<1>3. CASE rv \in {"ok", "endpoint"}
  <2>1. HandleConnError(st, c, rv) = Done(st) \/ HandleConnError(st, c, rv) = Failed(st)
    BY <1>3 DEF HandleConnError
  <2> QED
    BY <2>1 DEF Done, Failed
<1> QED
  BY <1>1, <1>2, <1>3

LEMMA CallbackRetired ==
    ASSUME NEW st \in Endpoint, NEW tr \in Seq(EntryRec), NEW ev \in Seq(Event), Good(st, tr, ev),
           Retired(st), NEW c \in Conns, InUse(st, c), NEW evs
    PROVE  Retired(Callback(st, c, evs).st)
<1>1. PICK o : o = IF "established" \in evs THEN HandshakeCompleted(st, c) ELSE Done(st)
  OBVIOUS
<1>2. o.st \in Endpoint /\ Retired(o.st)
  <2>1. CASE "established" \in evs
    BY <1>1, <2>1, HandshakeRetired, HandshakeKeeps
  <2>2. CASE "established" \notin evs
    <3>1. o = Done(st)
      BY <1>1, <2>2
    <3> QED
      BY <3>1 DEF Done
  <2> QED
    BY <2>1, <2>2
<1>3. Callback(st, c, evs) = IF o.ok /\ "stream" \in evs THEN StreamCallback(o.st, c) ELSE o
  BY <1>1, Zenon DEF Callback
<1>4. CASE o.ok /\ "stream" \in evs
  <2>1. Callback(st, c, evs) = EventPush(o.st, "stream", c)
    BY <1>3, <1>4 DEF StreamCallback
  <2>2. "stream" \in EventTypes
    BY DEF EventTypes
  <2>3. Callback(st, c, evs).st.conn = o.st.conn
    BY <1>2, <2>1, <2>2, PushConn
  <2> QED
    BY <1>2, <2>3, SameRetired
<1>5. CASE ~(o.ok /\ "stream" \in evs)
  BY <1>2, <1>3, <1>5
<1> QED
  BY <1>4, <1>5

LEMMA RecvDatagramRetired ==
    ASSUME NEW st \in Endpoint, NEW tr \in Seq(EntryRec), NEW ev \in Seq(Event), Good(st, tr, ev),
           Retired(st), NEW c \in Conns, InUse(st, c), NEW evs, NEW rv \in Results
    PROVE  Retired(RecvDatagram(st, c, evs, rv).st)
<1>1. PICK o : o = Callback(st, c, evs)
  OBVIOUS
<1>2. PICK failed : failed = IF o.ok THEN rv ELSE "fails"
  OBVIOUS
<1>3. Stays(st, o, tr, ev) /\ InUse(o.st, c) /\ Retired(o.st)
  BY <1>1, CallbackStays, CallbackRetired
<1>4. o.st \in Endpoint /\ Good(o.st, tr, ev)
  BY <1>3 DEF Stays, Keeps
<1>5. PICK p : p = EventPush(o.st, "txready", c)
  OBVIOUS
<1>6. Retired(p.st)
  <2>1. "txready" \in EventTypes
    BY DEF EventTypes
  <2>2. p.st.conn = o.st.conn
    BY <1>4, <1>5, <2>1, PushConn
  <2> QED
    BY <1>3, <2>2, SameRetired
<1>7. RecvDatagram(st, c, evs, rv) =
        IF failed = "ok" THEN Done(p.st)
        ELSE IF failed = "late" THEN Failed(p.st)
        ELSE HandleConnError(o.st, c, failed)
  BY <1>1, <1>2, <1>5, Zenon DEF RecvDatagram, Announce
<1>8. CASE failed \in {"ok", "late"}
  <2>1. RecvDatagram(st, c, evs, rv) = Done(p.st) \/ RecvDatagram(st, c, evs, rv) = Failed(p.st)
    BY <1>7, <1>8
  <2> QED
    BY <1>6, <2>1 DEF Done, Failed
<1>9. CASE failed \notin {"ok", "late"}
  <2>1. failed \in {"ok", "ends", "fails", "endpoint"}
    BY <1>2, <1>9 DEF Results
  <2>2. RecvDatagram(st, c, evs, rv) = HandleConnError(o.st, c, failed)
    BY <1>7, <1>9
  <2> QED
    BY <1>3, <1>4, <2>1, <2>2, HandleConnErrorRetired
<1> QED
  BY <1>8, <1>9

LEMMA ExpireRetired ==
    ASSUME NEW st \in Endpoint, NEW tr \in Seq(EntryRec), NEW ev \in Seq(Event), Good(st, tr, ev),
           Retired(st), NEW c \in Conns, InUse(st, c), NEW rv \in Results \ {"late"}
    PROVE  Retired(Expire(st, c, rv).st)
<1>1. PICK o : o = HandleConnError(st, c, rv)
  OBVIOUS
<1>2. rv \in {"ok", "ends", "fails", "endpoint"}
  BY DEF Results
<1>3. o.st \in Endpoint /\ Retired(o.st)
  BY <1>1, <1>2, HandleConnErrorStays, HandleConnErrorRetired DEF Stays
<1>4. PICK p : p = EventPush(o.st, "txready", c)
  OBVIOUS
<1>5. Retired(p.st)
  <2>1. "txready" \in EventTypes
    BY DEF EventTypes
  <2>2. p.st.conn = o.st.conn
    BY <1>3, <1>4, <2>1, PushConn
  <2> QED
    BY <1>3, <2>2, SameRetired
<1>6. Expire(st, c, rv) = IF o.ok THEN Done(p.st) ELSE o
  BY <1>1, <1>4, Zenon DEF Expire, Announce
<1> QED
  BY <1>3, <1>5, <1>6 DEF Done

\* A new connection, announced or not.
LEMMA NewRetired ==
    ASSUME NEW st \in Endpoint, NEW tr \in Seq(EntryRec), NEW ev \in Seq(Event), Good(st, tr, ev),
           Retired(st), NEW c \in Conns, ~Allocated(st, c), Len(st.live) < MaxConns,
           NEW role \in {"client", "server"}, NEW type \in {"txready", "incoming"},
           NEW p, p = EventPush(Added(st, c, role), type, c)
    PROVE  Retired(p.st)
<1>1. PICK nx : nx = Added(st, c, role)
  OBVIOUS
<1>2. nx \in Endpoint /\ InUse(nx, c)
  BY <1>1, AddedKeeps
<1>3. \A d \in Conns \ {c} : nx.conn[d] = st.conn[d]
  BY <1>1 DEF Added, Endpoint
<1>4. type \in EventTypes
  BY DEF EventTypes
<1>5. p.st.conn = nx.conn
  BY <1>1, <1>2, <1>4, PushConn
<1>6. Retired(nx)
  BY <1>2, <1>3, OneRetired
<1> QED
  BY <1>5, <1>6, SameRetired

LEMMA BecomeRetired ==
    ASSUME NEW st, Retired(st), Become(st)
    PROVE  Retired(Now)'
<1>1. Now'.conn = st.conn
  BY DEF Now, Become
<1> QED
  BY <1>1, SameRetired

LEMMA RxRetired ==
    ASSUME IInv, Retired(Now), NEW c \in Conns, RxKnown(c) \/ RxNew(c)
    PROVE  Retired(Now)'
<1>1. CASE RxKnown(c)
  <2>1. PICK evs \in Callbacks(Now, c), rv \in Results : Become(RecvDatagram(Now, c, evs, rv).st)
    BY <1>1 DEF RxKnown, Outcome
  <2>2. InUse(Now, c)
    BY <1>1, InvIs DEF RxKnown, Known
  <2>3. Retired(RecvDatagram(Now, c, evs, rv).st)
    BY <2>2, InvIs, RecvDatagramRetired
  <2> QED
    BY <2>1, <2>3, BecomeRetired
<1>2. CASE RxNew(c)
  <2>1. \/ Become(Failed(Now).st)
        \/ /\ MayAdd(Now, "server")
           /\ \E evs \in {{}, {"established"}}, rv \in Results :
                Become(RecvDatagram(ServerNew(Now, c), c, evs, rv).st)
    BY <1>2, Zenon DEF RxNew, Outcome
  <2>2. CASE Become(Failed(Now).st)
    BY <2>2, BecomeRetired DEF Failed
  <2>3. ASSUME MayAdd(Now, "server"), NEW evs \in {{}, {"established"}}, NEW rv \in Results,
               Become(RecvDatagram(ServerNew(Now, c), c, evs, rv).st)
        PROVE  Retired(Now)'
    <3>1. PICK role : role = "server"
      OBVIOUS
    <3>2. PICK type : type = "incoming"
      OBVIOUS
    <3>3. PICK p : p = EventPush(Added(Now, c, role), type, c)
      OBVIOUS
    <3>4. ~Allocated(Now, c) /\ Len(Now.live) < MaxConns
      BY <1>2, <2>3, NowIs DEF RxNew, Allocated, MayAdd
    <3>5. Stays(Now, p, tracked, events) /\ InUse(p.st, c) /\ Retired(p.st)
      BY <3>1, <3>2, <3>3, <3>4, InvIs, NewStays, NewRetired
    <3>6. p.st \in Endpoint /\ Good(p.st, tracked, events)
      BY <3>5 DEF Stays, Keeps
    <3>7. ServerNew(Now, c) = p.st
      BY <3>1, <3>2, <3>3, Zenon DEF ServerNew, Announce
    <3>8. Retired(RecvDatagram(p.st, c, evs, rv).st)
      BY <3>5, <3>6, InvIs, RecvDatagramRetired
    <3> QED
      BY <2>3, <3>7, <3>8, BecomeRetired
  <2> QED
    BY <2>1, <2>2, <2>3
<1> QED
  BY <1>1, <1>2

LEMMA PollRetired ==
    ASSUME IInv, Retired(Now), Poll
    PROVE  Retired(Now)'
<1>1. PICK c : c = live[drive.idx + 1]
  OBVIOUS
<1>2. c \in Conns /\ InUse(Now, c)
  <2>1. drive.idx + 1 \in 1 .. Len(live) /\ live \in Seq(Conns)
    BY InvIs, NowIs DEF Poll, DriveRec, Endpoint
  <2>2. c \in Range(live) /\ c \in Conns
    BY <1>1, <2>1 DEF Range
  <2> QED
    BY <2>2, InvIs
<1>3. Become(Done(Now).st) \/ \E rv \in Results \ {"late"} : Become(Expire(Now, c, rv).st)
  BY <1>1, Zenon DEF Poll, Outcome
<1>4. CASE Become(Done(Now).st)
  BY <1>4, BecomeRetired DEF Done
<1>5. ASSUME NEW rv \in Results \ {"late"}, Become(Expire(Now, c, rv).st)
      PROVE  Retired(Now)'
  BY <1>2, <1>5, InvIs, ExpireRetired, BecomeRetired
<1> QED
  BY <1>3, <1>4, <1>5

LEMMA WriteRetired ==
    ASSUME IInv, Retired(Now), Write
    PROVE  Retired(Now)'
<1>1. PICK at : at = (drive.start + drive.idx) % Len(live)
  OBVIOUS
<1>2. PICK c : c = live[at + 1]
  OBVIOUS
<1>3. c \in Conns /\ InUse(Now, c)
  BY <1>1, <1>2, RoundIs DEF Write
<1>4. PICK k : k = (at + 1) % Len(live)
  OBVIOUS
<1>5. \/ Become(MarkClosed(Now, c).st) \/ Become(Done(Now).st) \/ Become(Failed(Now).st)
      \/ Become([Now EXCEPT !.cursor = k])
      \/ \E rv \in {"ends", "fails", "endpoint"} : Become(HandleConnError(Now, c, rv).st)
  BY <1>1, <1>2, <1>4, Zenon DEF Write, WriteClose, WriteData, Outcome
<1>6. CASE Become(MarkClosed(Now, c).st)
  BY <1>3, <1>6, InvIs, MarkClosedRetired, BecomeRetired
<1>7. CASE Become(Done(Now).st) \/ Become(Failed(Now).st)
  BY <1>7, BecomeRetired DEF Done, Failed
<1>8. CASE Become([Now EXCEPT !.cursor = k])
  <2>1. [Now EXCEPT !.cursor = k].conn = Now.conn
    BY DEF Now
  <2> QED
    BY <1>8, <2>1, SameRetired, BecomeRetired
<1>9. ASSUME NEW rv \in {"ends", "fails", "endpoint"}, Become(HandleConnError(Now, c, rv).st)
      PROVE  Retired(Now)'
  BY <1>3, <1>9, InvIs, HandleConnErrorRetired, BecomeRetired
<1> QED
  BY <1>5, <1>6, <1>7, <1>8, <1>9

\* The calls of the application.
LEMMA CallRetired ==
    ASSUME IInv, Retired(Now), NEW c \in Conns, Dial(c) \/ ConnClose(c) \/ StreamCall(c) \/ Release(c)
    PROVE  Retired(Now)'
<1>1. CASE Dial(c)
  <2>1. PICK role : role = "client"
    OBVIOUS
  <2>2. PICK type : type = "txready"
    OBVIOUS
  <2>3. PICK p : p = EventPush(Added(Now, c, role), type, c)
    OBVIOUS
  <2>4. ~Allocated(Now, c) /\ Len(Now.live) < MaxConns
    BY <1>1, NowIs DEF Dial, Allocated, MayAdd
  <2>5. Stays(Now, p, tracked, events) /\ Retired(p.st)
    BY <2>1, <2>2, <2>3, <2>4, InvIs, NewStays, NewRetired
  <2>6. conn' = p.st.conn
    <3>1. PICK ok : Become([p.st EXCEPT !.app[c].known = ok])
      BY <1>1, <2>1, <2>2, <2>3, Zenon DEF Dial, ClientNew, Announce
    <3>2. [p.st EXCEPT !.app[c].known = ok].conn = p.st.conn
      BY <2>5 DEF Stays, Endpoint
    <3> QED
      BY <3>1, <3>2 DEF Become
  <2>7. Now'.conn = p.st.conn
    BY <2>6 DEF Now
  <2> QED
    BY <2>5, <2>7, SameRetired
<1>2. CASE ConnClose(c)
  <2>1. InUse(Now, c)
    BY <1>2, NowIs DEF Retired, ConnClose, Calls, MayClose, Allocated
  <2>2. Become(RequestClose(Now, c).st)
    BY <1>2, Zenon DEF ConnClose
  <2> QED
    BY <2>1, <2>2, InvIs, RequestCloseRetired, BecomeRetired
<1>3. CASE StreamCall(c)
  <2>1. PICK type : type = "txready"
    OBVIOUS
  <2>2. Become(EventPush(Now, type, c).st)
    BY <1>3, <2>1, Zenon DEF StreamCall
  <2>3. EventPush(Now, type, c).st.conn = Now.conn
    BY <2>1, InvIs, PushConn DEF EventTypes
  <2> QED
    BY <2>2, <2>3, SameRetired, BecomeRetired
<1>4. CASE Release(c)
  <2>1. conn' = [conn EXCEPT ![c] = NoObject] /\ conn \in [Conns -> ConnRec]
    BY <1>4, InvIs, NowIs DEF Release, Endpoint
  <2>2. conn'[c] = NoObject /\ \A d \in Conns \ {c} : conn'[d] = conn[d]
    BY <2>1
  <2>3. PICK nx : nx = Now'
    OBVIOUS
  <2>4. nx.conn = conn'
    BY <2>3 DEF Now
  <2>5. ~Allocated(nx, c) /\ \A d \in Conns \ {c} : nx.conn[d] = Now.conn[d]
    BY <2>2, <2>4, NowIs DEF Allocated
  <2>6. Retired(nx)
    BY <2>5, OneRetired
  <2> QED
    BY <2>3, <2>6
<1> QED
  BY <1>1, <1>2, <1>3, <1>4

\* quic_backend_endpoint_close touches registered connections only.
LEMMA ServiceCloseRetired ==
    ASSUME IInv, Retired(Now), ServiceClose
    PROVE  Retired(Now)'
<1>1. PICK nx : nx = EndpointClose(Now)
  OBVIOUS
<1>2. \A c \in Conns : nx.conn[c] = IF c \in Range(Now.live)
                                    THEN [Now.conn[c] EXCEPT !.st = "closing", !.closeReq = TRUE]
                                    ELSE Now.conn[c]
  BY <1>1, InvIs DEF EndpointClose, Endpoint
<1>3. ASSUME NEW c \in Conns, Allocated(nx, c), ~InUse(nx, c)
      PROVE  nx.conn[c].st = "closed"
  <2>1. c \notin Range(Now.live)
    <3>1. SUFFICES ASSUME c \in Range(Now.live) PROVE FALSE
      OBVIOUS
    <3>2. InUse(Now, c) /\ Now.conn[c] \in ConnRec
      BY <3>1, InvIs, NowIs DEF Endpoint
    <3>3. nx.conn[c].role = Now.conn[c].role
      BY <1>2, <3>1, <3>2 DEF ConnRec
    <3> QED
      BY <1>3, <3>2, <3>3 DEF InUse
  <2>2. nx.conn[c] = Now.conn[c]
    BY <1>2, <2>1
  <2> QED
    BY <1>3, <2>2 DEF Retired, Allocated, InUse
<1>4. Retired(nx)
  BY <1>3 DEF Retired
<1>5. Become(nx)
  BY <1>1 DEF ServiceClose
<1> QED
  BY <1>4, <1>5, BecomeRetired

LEMMA RetiredInvariance == Spec => []Retired(Now)
<1>1. Init => Retired(Now)
  BY NowIs DEF Init, EndpointInit, Retired, Allocated
<1>2. IInv /\ Retired(Now) /\ [Next]_vars => Retired(Now)'
  <2>1. SUFFICES ASSUME IInv, Retired(Now), [Next]_vars
                 PROVE  Retired(Now)'
    OBVIOUS
  <2>2. ASSUME conn' = conn
        PROVE  Retired(Now)'
    <3>1. Now'.conn = Now.conn
      BY <2>2 DEF Now
    <3> QED
      BY <2>1, <3>1, SameRetired
  <2>3. CASE DriveStart \/ RxDone \/ PollDone \/ WriteDone \/ Send
    <3>1. conn' = conn
      BY <2>3, Zenon DEF DriveStart, RxDone, PollDone, WriteDone, Send, TxDone
    <3> QED
      BY <2>2, <3>1
  <2>4. CASE NextEvent \/ HostNextEvent \/ AcceptConn \/ UNCHANGED vars
    <3>1. conn' = conn
      BY <2>4, Zenon DEF NextEvent, HostNextEvent, AcceptConn, vars
    <3> QED
      BY <2>2, <3>1
  <2>5. CASE Poll
    BY <2>1, <2>5, PollRetired
  <2>6. CASE Write
    BY <2>1, <2>6, WriteRetired
  <2>7. ASSUME NEW c \in Conns, OpenStream(c)
        PROVE  Retired(Now)'
    BY <2>2, <2>7 DEF OpenStream
  <2>8. ASSUME NEW c \in Conns, RxKnown(c) \/ RxNew(c)
        PROVE  Retired(Now)'
    BY <2>1, <2>8, RxRetired
  <2>9. ASSUME NEW c \in Conns, Dial(c) \/ ConnClose(c) \/ StreamCall(c) \/ Release(c)
        PROVE  Retired(Now)'
    BY <2>1, <2>9, CallRetired
  <2>10. CASE ServiceClose
    BY <2>1, <2>10, ServiceCloseRetired
  <2> QED
    BY <2>1, <2>3, <2>4, <2>5, <2>6, <2>7, <2>8, <2>9, <2>10, Zenon DEF Next
<1> QED
  BY <1>1, <1>2, Invariance, PTL DEF Spec

-----------------------------------------------------------------------------
(***************************************************************************)
(* What the two invariants say of the service.                             *)
(***************************************************************************)

\* Every structure keeps its shape, and no ring and no table outgrows what was allocated
\* for it: quic_backend_event_push and quic_service_event_push refuse when they are full,
\* quic_backend_conn_add_to_endpoint and quic_service_track_conn check the limit first.
THEOREM TypeCorrect == Spec => []TypeOK
<1>1. IInv => TypeOK
  <2>1. SUFFICES ASSUME IInv PROVE TypeOK
    OBVIOUS
  <2>2. /\ conn \in [Conns -> ConnRec] /\ live \in Seq(Conns) /\ cursor \in Nat
        /\ ring \in Seq(Event) /\ app \in [Conns -> AppRec]
    BY <2>1, InvIs, NowIs DEF Endpoint
  <2>3. Len(live) <= MaxConns /\ Len(ring) <= RingCap
    BY <2>1, NowIs DEF IInv, Good
  <2> QED
    BY <2>1, <2>2, <2>3 DEF IInv, TablesGood, DriveGood, TypeOK, ConnRec, AppRec, EntryRec
<1> QED
  BY <1>1, Invariance, PTL

\* No pointer outlives its connection: libp2p_quic_service_conn_release frees a connection
\* only when no ring, no table and no datagram in hand names it, nothing names a freed one
\* afterwards, and the live table of quic_backend_conn_add_to_endpoint and
\* quic_backend_conn_remove_live_at stays exactly the registered connections.
THEOREM NothingDangles == Spec => []NoDangling
<1>1. IInv => NoDangling
  <2>1. SUFFICES ASSUME IInv PROVE NoDangling
    OBVIOUS
  <2>2. Good(Now, tracked, events) /\ live \in Seq(Conns)
    BY <2>1, InvIs, NowIs DEF Endpoint
  <2>3. \A q \in {ring, tracked, events} : \A i \in 1 .. Len(q) : conn[q[i].conn] # NoObject
    BY <2>2, NowIs DEF Good, Names, Allocated
  <2>4. pend # None => conn[pend] # NoObject
    BY <2>1, NowIs DEF IInv, DriveGood, Allocated
  <2>5. Range(live) = {c \in Conns : Registered(c)}
    <3>1. \A c \in Range(live) : c \in Conns /\ \E i \in 1 .. Len(live) : c = live[i]
      BY <2>2 DEF Range
    <3>2. \A i \in 1 .. Len(live) : live[i] \in Range(live)
      BY <2>2 DEF Range
    <3> QED
      BY <2>2, <3>1, <3>2, NowIs DEF Good, LiveTable, InUse, Registered
  <2>6. /\ \A i, j \in 1 .. Len(live) : live[i] = live[j] => i = j
        /\ cursor <= Len(live)
    BY <2>2, NowIs DEF Good, LiveTable
  <2>7. \A i, j \in 1 .. Len(tracked) : tracked[i].conn = tracked[j].conn => i = j
    BY <2>1 DEF IInv, TablesGood, Once
  <2> QED
    BY <2>3, <2>4, <2>5, <2>6, <2>7 DEF NoDangling
<1> QED
  BY <1>1, Invariance, PTL

\* The end of a connection is reported exactly once, whichever of the calls of
\* quic_backend_conn_mark_closed found it and however full the service's ring was when
\* quic_service_translate_event took it, unless one of the two rings was full then.
THEOREM EndOnce == Spec => []EndReportedOnce
<1>1. IInv => EndReportedOnce
  <2>1. SUFFICES ASSUME IInv, NEW c \in Conns, conn[c] # NoObject
                 PROVE  EndsIn(ring, c) + EndsIn(events, c) + (IF app[c].told THEN 1 ELSE 0)
                          = IF Registered(c) \/ app[c].lost THEN 0 ELSE 1
    BY Zenon DEF EndReportedOnce
  <2>2. Ends(Now, events, c) = IF InUse(Now, c) \/ Now.app[c].lost THEN 0 ELSE 1
    BY <2>1, NowIs DEF IInv, Good, EndsExact, Allocated
  <2> QED
    BY <2>2, NowIs DEF Ends, InUse, Registered
<1> QED
  BY <1>1, Invariance, PTL

\* CONN_CLOSED is the last the application hears of a connection:
\* quic_backend_conn_mark_closed takes it out of the live table, so no callback follows,
\* quic_service_forget_conn takes it out of the service's, so no accept follows, and
\* quic_backend_validate_conn refuses to close it once more, so that nothing but a request
\* to transmit, or the datagram in hand, stands between it and its release.
THEOREM ClosedIsLast == Spec => []ClosedLast
<1>1. IInv /\ Retired(Now) => ClosedLast
  <2>1. SUFFICES ASSUME IInv, Retired(Now) PROVE ClosedLast
    OBVIOUS
  <2>2. EndsLast(ring) /\ EndsLast(events) /\ NothingAfter(Now, tracked, events)
    BY <2>1, NowIs DEF IInv, Good, TablesGood
  <2>3. \A q \in {ring, events} : \A i, j \in 1 .. Len(q) :
          i < j /\ q[i].conn = q[j].conn /\ q[i].type = "closed" => q[j].type = "txready"
    BY <2>2 DEF EndsLast
  <2>4. ASSUME NEW c \in Conns, app[c].told \/ EndsIn(events, c) > 0
        PROVE  /\ \A i \in 1 .. Len(ring) : ring[i].conn = c => ring[i].type = "txready"
               /\ TrackedAt(tracked, c) = {}
    <3>1. Over(Now, tracked, events, c)
      BY <2>2, <2>4, NowIs DEF NothingAfter
    <3> QED
      BY <3>1, NowIs DEF Over, TrackedAt
  <2>5. \A c \in Conns : app[c].told => ~RefsIn(events, c)
    BY <2>2, NowIs DEF NothingAfter, RefsIn
  <2>6. \A c \in Conns : conn[c] # NoObject /\ ~Registered(c) => conn[c].st = "closed"
    BY <2>1, NowIs DEF Retired, Allocated, InUse, Registered
  <2>7. ASSUME NEW c \in Conns, app[c].told, pend # c, ~EndpointRefs(c)
        PROVE  Releasable(c)
    <3>1. conn[c] # NoObject
      <4>1. AppExact(Now)
        BY <2>1 DEF IInv, Good
      <4> QED
        BY <2>7, <4>1, NowIs DEF AppExact, Allocated, Unknown
    <3>2. ~Registered(c)
      <4>1. InUse(Now, c) => ~Now.app[c].told
        BY <2>1, InvIs, InUseNotEnded
      <4> QED
        BY <2>7, <4>1, NowIs DEF InUse, Registered
    <3>3. conn[c].st = "closed"
      BY <2>6, <3>1, <3>2
    <3> QED
      BY <2>4, <2>5, <2>7, <3>2, <3>3 DEF Releasable, ServiceRefs, EndpointReleasable
  <2> QED
    BY <2>3, <2>4, <2>5, <2>6, <2>7 DEF ClosedLast
<1> QED
  BY <1>1, Invariance, RetiredInvariance, PTL

\* A close requested with libp2p_quic_service_conn_close, or by an error of ngtcp2, is not
\* forgotten between drives: tx_pending is cleared only after
\* quic_backend_endpoint_next_datagram has visited the whole live table without writing.
THEOREM CloseRemembered == Spec => []CloseNotForgotten
<1>1. IInv => CloseNotForgotten
  <2>1. SUFFICES ASSUME IInv, NEW c \in Conns, Registered(c), conn[c].closeReq, ~app[c].unheard,
                        ~txPending
                 PROVE  \E i \in 1 .. Len(ring) : ring[i].type = "txready"
    BY DEF CloseNotForgotten
  <2>2. Heard(Now, Conns)
    BY <2>1 DEF IInv, DriveGood
  <2>3. Asks(Now, c)
    BY <2>1, NowIs DEF Asks, InUse, Registered
  <2> QED
    BY <2>2, <2>3, NowIs DEF Heard, HasTx
<1> QED
  BY <1>1, Invariance, PTL
=============================================================================
