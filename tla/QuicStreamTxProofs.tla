-------------------------- MODULE QuicStreamTxProofs --------------------------
(***************************************************************************)
(* Proofs about QuicStreamTx, for every retained limit, every capacity of  *)
(* the range table and every number of bytes.                              *)
(***************************************************************************)
EXTENDS QuicStreamTx, FiniteSetTheorems, SequenceTheorems, WellFoundedInduction, TLAPS

-----------------------------------------------------------------------------
(***************************************************************************)
(* Minimum and maximum.                                                    *)
(***************************************************************************)

\* SetMin of a nonempty set of naturals is its least element.
LEMMA MinOfNats ==
    ASSUME NEW S, S \subseteq Nat, S # {}
    PROVE  SetMin(S) \in S /\ \A y \in S : SetMin(S) <= y
<1>1. PICK x \in S : \A y \in S : ~(<<y, x>> \in OpToRel(<, Nat))
  BY WFMin, NatLessThanWellFounded
<1>2. \A y \in S : ~(y < x)
  BY <1>1 DEF OpToRel
<1>3. \A y \in S : x <= y
  BY <1>2
<1> QED
  BY <1>3 DEF SetMin

\* SetMax of a nonempty bounded set of naturals is its greatest element.
LEMMA MaxOfNats ==
    ASSUME NEW S, S \subseteq Nat, S # {}, NEW b \in Nat, \A y \in S : y <= b
    PROVE  SetMax(S) \in S /\ \A y \in S : SetMax(S) >= y
<1> DEFINE U == {n \in Nat : \A y \in S : y <= n}
<1>1. U \subseteq Nat /\ b \in U
  OBVIOUS
<1>2. /\ SetMin(U) \in Nat /\ \A y \in S : y <= SetMin(U)
      /\ \A n \in U : SetMin(U) <= n
  BY <1>1, MinOfNats
<1>3. SetMin(U) \in S
  <2>1. SUFFICES ASSUME SetMin(U) \notin S PROVE FALSE
    OBVIOUS
  <2>2. PICK s \in S : TRUE
    OBVIOUS
  <2>3. \A y \in S : y <= SetMin(U) - 1
    BY <1>2, <2>1
  <2>4. SetMin(U) - 1 \in U
    BY <1>2, <2>2, <2>3
  <2> QED
    BY <1>2, <2>4
<1>4. \E x \in S : \A y \in S : x >= y
  BY <1>2, <1>3
<1> QED
  BY <1>4 DEF SetMax

\* The smaller and the larger of two naturals.
LEMMA MinOfTwo ==
    ASSUME NEW a \in Nat, NEW b \in Nat
    PROVE  SetMin({a, b}) = IF a <= b THEN a ELSE b
<1>1. {a, b} \subseteq Nat /\ {a, b} # {}
  OBVIOUS
<1>2. SetMin({a, b}) \in {a, b} /\ \A y \in {a, b} : SetMin({a, b}) <= y
  BY <1>1, MinOfNats
<1> QED
  BY <1>2

LEMMA MaxOfTwo ==
    ASSUME NEW a \in Nat, NEW b \in Nat
    PROVE  SetMax({a, b}) = IF a >= b THEN a ELSE b
<1>1. {a, b} \subseteq Nat /\ {a, b} # {} /\ \A y \in {a, b} : y <= a + b
  OBVIOUS
<1>2. SetMax({a, b}) \in {a, b} /\ \A y \in {a, b} : SetMax({a, b}) >= y
  BY <1>1, MaxOfNats, a + b \in Nat
<1> QED
  BY <1>2

\* quic_backend_stream_next_tx_cap returns a capacity that is enough and within
\* the limit.
LEMMA NextCapEnough ==
    ASSUME NEW current \in Nat, NEW required \in Nat, NEW limit \in Nat \ {0},
           required <= limit
    PROVE  NextCap(current, required, limit) \in required .. limit
<1> USE StreamTxAssumption
<1> DEFINE start == SetMax({current, SetMin({MinCap, limit})})
           grown == IF start >= limit THEN start ELSE Doubled(start, required, limit)
<1>1. start \in Nat
  BY MinOfTwo, MaxOfTwo
<1>2. grown \in Nat
  <2>1. {limit} \cup {x \in start .. limit : x >= required /\ \E k \in 0 .. limit : x = start * 2^k}
          \subseteq Nat
    BY <1>1
  <2>2. Doubled(start, required, limit) \in Nat
    <3> HIDE DEF start
    <3> QED
      BY <2>1, MinOfNats DEF Doubled
  <2> QED
    BY <1>1, <2>2
<1>3. NextCap(current, required, limit) = SetMin({SetMax({grown, required}), limit})
  BY DEF NextCap
<1> HIDE DEF grown
<1>4. SetMax({grown, required}) = IF grown >= required THEN grown ELSE required
  BY <1>2, MaxOfTwo
<1>5. SetMin({SetMax({grown, required}), limit})
        = IF SetMax({grown, required}) <= limit THEN SetMax({grown, required}) ELSE limit
  BY <1>2, <1>4, MinOfTwo
<1> QED
  BY <1>2, <1>3, <1>4, <1>5

-----------------------------------------------------------------------------
(***************************************************************************)
(* The inductive invariant.                                                *)
(***************************************************************************)

In(o, r) == r.start <= o /\ o < r.end

\* The buffer holds the next bytes of the stream; a stream that is over has none, and
\* ngtcp2 reads none of it.
Contents ==
    /\ InOrder
    /\ state = "OPEN" => written = base + Len(buf)
    /\ state # "OPEN" => buf = <<>> /\ flight = {}

\* The ranges lie within what was sent and are apart.
RangesInside ==
    /\ IsFiniteSet(ranges)
    /\ \A r \in ranges : base <= r.start /\ r.start < r.end /\ r.end <= base + sent
    /\ \A r, q \in ranges : r # q => r.end < q.start \/ q.end < r.start

\* No byte of a range may still be read by ngtcp2.
RangesSound == \A r \in ranges : \A p \in flight : ~In(p.offset, r)

\* Every byte that was sent is in a range or may still be read.
RangesComplete ==
    ~forgotten =>
        \A o \in base .. base + sent - 1 :
            (\E r \in ranges : In(o, r)) \/ (\E p \in flight : p.offset = o)

IInv ==
    /\ TypeOK /\ Retransmittable /\ Contents
    /\ RangesInside /\ RangesSound /\ RangesComplete

\* What ngtcp2 may read again lies within what was sent.
LEMMA FlightInside ==
    ASSUME IInv, NEW p \in flight
    PROVE  /\ state = "OPEN" /\ p.at \in Nat /\ p.at < sent /\ p.block = block
           /\ p.offset = base + p.at
<1>1. p \in Pointer /\ p.at < sent /\ p.block = block /\ buf[p.at + 1] = p.offset
  BY DEF IInv, TypeOK, Retransmittable
<1>2. p.at + 1 \in 1 .. Len(buf)
  BY <1>1 DEF IInv, TypeOK, Pointer
<1>3. state = "OPEN"
  BY DEF IInv, Contents
<1>4. buf[p.at + 1] = base + (p.at + 1) - 1
  BY <1>2, <1>3 DEF IInv, Contents, InOrder
<1> QED
  BY <1>1, <1>3, <1>4 DEF Pointer, IInv, TypeOK

-----------------------------------------------------------------------------
(***************************************************************************)
(* The range table.                                                        *)
(***************************************************************************)

\* The bytes that ngtcp2 reports are within what was sent, so nothing is clipped.
LEMMA ClippedExact ==
    ASSUME IInv, NEW first \in Nat, NEW last \in Nat, first <= last,
           \A o \in first .. last : \E p \in flight : p.offset = o
    PROVE  /\ Clipped(first, last) = [start |-> first, end |-> last + 1]
           /\ base <= first /\ last < base + sent
           /\ state = "OPEN"
<1>1. base \in Nat /\ sent \in Nat
  BY DEF IInv, TypeOK
<1>2. PICK p \in flight : p.offset = first
  OBVIOUS
<1>3. PICK q \in flight : q.offset = last
  OBVIOUS
<1>4. base <= first /\ last < base + sent /\ state = "OPEN"
  BY <1>1, <1>2, <1>3, FlightInside
<1>5. SetMax({first, base}) = first
  BY <1>1, <1>4, MaxOfTwo
<1>6. SetMin({last + 1, base + sent}) = last + 1
  BY <1>1, <1>4, MinOfTwo, last + 1 \in Nat, base + sent \in Nat
<1> QED
  BY <1>4, <1>5, <1>6 DEF Clipped

\* quic_backend_stream_insert_ack_range: the merged range is the union of the new one
\* and of those it touches.
LEMMA MergedIsUnion ==
    ASSUME IInv, NEW first \in Nat, NEW last \in Nat, first <= last,
           base <= first, last < base + sent,
           NEW new, new = [start |-> first, end |-> last + 1]
    PROVE  /\ Merged(new) \in AckRange
           /\ base <= Merged(new).start /\ Merged(new).start <= first
           /\ last + 1 <= Merged(new).end /\ Merged(new).end <= base + sent
           /\ \A r \in Touched(new) : Merged(new).start <= r.start /\ r.end <= Merged(new).end
           /\ \E r \in Touched(new) \cup {new} : r.start = Merged(new).start
           /\ \E r \in Touched(new) \cup {new} : r.end = Merged(new).end
<1> DEFINE all == Touched(new) \cup {new}
           starts == {r.start : r \in all}
           ends == {r.end : r \in all}
<1>1. base \in Nat /\ sent \in Nat /\ base + sent \in Nat
  BY DEF IInv, TypeOK
<1>2. \A r \in all : /\ r.start \in Nat /\ r.end \in Nat
                     /\ base <= r.start /\ r.end <= base + sent
  <2>1. \A r \in Touched(new) : /\ r.start \in Nat /\ r.end \in Nat
                                /\ base <= r.start /\ r.end <= base + sent
    BY DEF Touched, IInv, TypeOK, AckRange, RangesInside
  <2>2. /\ new.start \in Nat /\ new.end \in Nat
        /\ base <= new.start /\ new.end <= base + sent
    BY <1>1
  <2> QED
    BY <2>1, <2>2
<1>3. new \in all
  OBVIOUS
<1> HIDE DEF all
<1>4. starts \subseteq Nat /\ starts # {} /\ first \in starts
  BY <1>2, <1>3
<1>5. ends \subseteq Nat /\ ends # {} /\ last + 1 \in ends /\ \A e \in ends : e <= base + sent
  BY <1>2, <1>3
<1>6. SetMin(starts) \in starts /\ \A y \in starts : SetMin(starts) <= y
  <2> HIDE DEF starts
  <2> QED
    BY <1>4, MinOfNats
<1>7. SetMax(ends) \in ends /\ \A y \in ends : SetMax(ends) >= y
  <2> HIDE DEF ends
  <2> QED
    BY <1>1, <1>5, MaxOfNats
<1>8. Merged(new) = [start |-> SetMin(starts), end |-> SetMax(ends)]
  BY DEF Merged, all
<1>9. \A r \in all : SetMin(starts) <= r.start /\ SetMax(ends) >= r.end
  BY <1>6, <1>7
<1>10. PICK a \in all : SetMin(starts) = a.start
  BY <1>6
<1>11. PICK z \in all : SetMax(ends) = z.end
  BY <1>7
<1>12. /\ SetMin(starts) \in Nat /\ SetMax(ends) \in Nat
       /\ base <= SetMin(starts) /\ SetMax(ends) <= base + sent
  BY <1>2, <1>10, <1>11
<1>13. SetMin(starts) <= first /\ last + 1 <= SetMax(ends)
  BY <1>4, <1>5, <1>6, <1>7
<1> HIDE DEF starts, ends
<1>14. /\ Merged(new).start = SetMin(starts) /\ Merged(new).end = SetMax(ends)
       /\ Merged(new) \in AckRange
  BY <1>8, <1>12 DEF AckRange
<1>15. \A r \in Touched(new) : SetMin(starts) <= r.start /\ r.end <= SetMax(ends)
  BY <1>2, <1>9, <1>12 DEF all
<1> QED
  BY <1>10, <1>11, <1>12, <1>13, <1>14, <1>15 DEF all

\* What the table says after an insertion: nothing but what it said before and the new
\* range, and all of it if there was room.
LEMMA InsertedExact ==
    ASSUME IInv, NEW first \in Nat, NEW last \in Nat, first <= last,
           base <= first, last < base + sent,
           NEW new, new = [start |-> first, end |-> last + 1]
    PROVE  /\ Inserted(new) \subseteq AckRange
           /\ IsFiniteSet(Inserted(new)) /\ Cardinality(Inserted(new)) <= AckRangeCap
           /\ \A r \in Inserted(new) :
                base <= r.start /\ r.start < r.end /\ r.end <= base + sent
           /\ \A r, q \in Inserted(new) : r # q => r.end < q.start \/ q.end < r.start
           /\ \A r \in Inserted(new) : \A o \in Nat :
                In(o, r) => (\E q \in ranges : In(o, q)) \/ o \in first .. last
           /\ HasRoom(new) =>
                \A o \in Nat :
                   (\E q \in ranges : In(o, q)) \/ o \in first .. last
                      => \E r \in Inserted(new) : In(o, r)
<1> DEFINE m == Merged(new)
<1>1. /\ base \in Nat /\ sent \in Nat /\ AckRangeCap \in Nat
      /\ ranges \subseteq AckRange /\ Cardinality(ranges) <= AckRangeCap
      /\ IsFiniteSet(ranges)
      /\ \A r \in ranges : base <= r.start /\ r.start < r.end /\ r.end <= base + sent
      /\ \A r, q \in ranges : r # q => r.end < q.start \/ q.end < r.start
  BY StreamTxAssumption DEF IInv, TypeOK, RangesInside
<1>2. /\ m \in AckRange
      /\ base <= m.start /\ m.start <= first /\ last + 1 <= m.end /\ m.end <= base + sent
      /\ \A r \in Touched(new) : m.start <= r.start /\ r.end <= m.end
      /\ \E r \in Touched(new) \cup {new} : r.start = m.start
      /\ \E r \in Touched(new) \cup {new} : r.end = m.end
  BY MergedIsUnion
<1> HIDE DEF m
<1>3. \A r \in ranges : r.start \in Nat /\ r.end \in Nat
  BY <1>1 DEF AckRange
<1>4. m.start \in Nat /\ m.end \in Nat /\ m.start < m.end
  BY <1>2 DEF AckRange
<1>5. /\ Kept(new) \subseteq ranges /\ Touched(new) \subseteq ranges
      /\ \A r \in Kept(new) : r.end < first \/ last + 1 < r.start
      /\ \A r \in Touched(new) : r.end >= first /\ r.start <= last + 1
      /\ \A r \in ranges : r \in Kept(new) \/ r \in Touched(new)
      /\ \A r \in Kept(new) : r \notin Touched(new)
  BY <1>3 DEF Kept, Touched
<1>6. /\ Inserted(new) \subseteq Kept(new) \cup {m}
      /\ Kept(new) \subseteq Inserted(new)
      /\ HasRoom(new) => m \in Inserted(new)
      /\ ~HasRoom(new) => Inserted(new) = Kept(new)
      /\ HasRoom(new) => Inserted(new) = Kept(new) \cup {m}
  BY DEF Inserted, m
<1>7. IsFiniteSet(Kept(new)) /\ Cardinality(Kept(new)) <= Cardinality(ranges)
  BY <1>1, <1>5, FS_Subset
<1>8. Inserted(new) \subseteq AckRange
  BY <1>1, <1>2, <1>5, <1>6
<1>9. IsFiniteSet(Inserted(new)) /\ Cardinality(Inserted(new)) <= AckRangeCap
  <2>1. Cardinality(Kept(new)) \in Nat /\ Cardinality(ranges) \in Nat
    BY <1>1, <1>7, FS_CardinalityType
  <2>2. CASE HasRoom(new)
    <3>1. /\ IsFiniteSet(Kept(new) \cup {m})
          /\ \/ Cardinality(Kept(new) \cup {m}) = Cardinality(Kept(new))
             \/ Cardinality(Kept(new) \cup {m}) = Cardinality(Kept(new)) + 1
      BY <1>7, FS_AddElement
    <3> QED
      BY <1>1, <1>6, <2>1, <2>2, <3>1 DEF HasRoom
  <2>3. CASE ~HasRoom(new)
    BY <1>1, <1>6, <1>7, <2>1, <2>3
  <2> QED
    BY <2>2, <2>3
<1>10. \A r \in Inserted(new) : base <= r.start /\ r.start < r.end /\ r.end <= base + sent
  BY <1>1, <1>2, <1>4, <1>5, <1>6
<1>11. \A r \in Kept(new) : r.end < m.start \/ m.end < r.start
  <2> SUFFICES ASSUME NEW r \in Kept(new) PROVE r.end < m.start \/ m.end < r.start
    OBVIOUS
  <2>1. \A q \in Touched(new) : r.end < q.start \/ q.end < r.start
    BY <1>1, <1>5
  <2>2. PICK a \in Touched(new) \cup {new} : a.start = m.start
    BY <1>2
  <2>3. PICK z \in Touched(new) \cup {new} : z.end = m.end
    BY <1>2
  <2>4. new.start = first /\ new.end = last + 1
    OBVIOUS
  <2>5. r.start \in Nat /\ r.end \in Nat /\ r.start < r.end /\ (r.end < first \/ last + 1 < r.start)
    BY <1>1, <1>3, <1>5
  <2>6. CASE r.end < first
    <3>1. CASE a = new
      BY <2>2, <2>4, <2>6, <3>1
    <3>2. CASE a \in Touched(new)
      <4>1. a.end >= first /\ a.start \in Nat /\ a.end \in Nat
        BY <1>3, <1>5, <3>2
      <4>2. r.end < a.start
        BY <2>1, <2>5, <2>6, <3>2, <4>1
      <4> QED
        BY <2>2, <4>2
    <3> QED
      BY <3>1, <3>2
  <2>7. CASE last + 1 < r.start
    <3>1. CASE z = new
      BY <2>3, <2>4, <2>7, <3>1
    <3>2. CASE z \in Touched(new)
      <4>1. z.start <= last + 1 /\ z.start \in Nat /\ z.end \in Nat
        BY <1>3, <1>5, <3>2
      <4>2. z.end < r.start
        BY <2>1, <2>5, <2>7, <3>2, <4>1
      <4> QED
        BY <2>3, <4>2
    <3> QED
      BY <3>1, <3>2
  <2> QED
    BY <2>5, <2>6, <2>7
<1>12. \A r, q \in Inserted(new) : r # q => r.end < q.start \/ q.end < r.start
  BY <1>1, <1>5, <1>6, <1>11
<1>13. \A r \in Inserted(new) : \A o \in Nat :
          In(o, r) => (\E q \in ranges : In(o, q)) \/ o \in first .. last
  <2> SUFFICES ASSUME NEW r \in Inserted(new), NEW o \in Nat, In(o, r), o \notin first .. last
               PROVE  \E q \in ranges : In(o, q)
    OBVIOUS
  <2>1. CASE r \in ranges
    BY <2>1
  <2>2. CASE r = m
    <3>1. m.start <= o /\ o < m.end
      BY <2>2 DEF In
    <3>2. PICK a \in Touched(new) \cup {new} : a.start = m.start
      BY <1>2
    <3>3. PICK z \in Touched(new) \cup {new} : z.end = m.end
      BY <1>2
    <3>4. o < first \/ last < o
      OBVIOUS
    <3>5. CASE o < first
      <4>1. a \in Touched(new)
        BY <3>1, <3>2, <3>5
      <4> QED
        BY <1>3, <1>5, <3>1, <3>2, <3>5, <4>1 DEF In
    <3>6. CASE last < o
      <4>1. z \in Touched(new)
        BY <1>4, <3>1, <3>3, <3>6
      <4> QED
        BY <1>3, <1>5, <3>1, <3>3, <3>6, <4>1 DEF In
    <3> QED
      BY <3>4, <3>5, <3>6
  <2> QED
    BY <1>5, <1>6, <2>1, <2>2
<1>14. ASSUME HasRoom(new), NEW o \in Nat,
              (\E q \in ranges : In(o, q)) \/ o \in first .. last
       PROVE  \E r \in Inserted(new) : In(o, r)
  <2>1. m \in Inserted(new)
    BY <1>6, <1>14
  <2>2. CASE o \in first .. last
    BY <1>2, <1>4, <2>1, <2>2 DEF In
  <2>3. CASE \E q \in ranges : In(o, q)
    <3>1. PICK q \in ranges : In(o, q)
      BY <2>3
    <3>2. CASE q \in Touched(new)
      BY <1>2, <1>3, <1>4, <2>1, <3>1, <3>2 DEF In
    <3>3. CASE q \in Kept(new)
      BY <1>6, <3>1, <3>3
    <3> QED
      BY <1>5, <3>2, <3>3
  <2> QED
    BY <1>14, <2>2, <2>3
<1> QED
  BY <1>8, <1>9, <1>10, <1>12, <1>13, <1>14

-----------------------------------------------------------------------------
(***************************************************************************)
(* The steps.                                                              *)
(***************************************************************************)

coreVars == <<buf, cap, block, sent, base, ranges, state, flight, written, forgotten>>

\* A step that leaves the buffer, the ranges and ngtcp2 alone.
LEMMA CoreUnchanged ==
    ASSUME IInv, UNCHANGED coreVars,
           finQueued' \in BOOLEAN, finSent' \in BOOLEAN, conn' \in {"OPEN", "CLOSING"},
           writable' \in BOOLEAN, waiting' \in BOOLEAN
    PROVE  IInv'
<1>1. TypeOK'
  BY DEF IInv, TypeOK, coreVars
<1>2. Retransmittable' /\ Contents'
  BY DEF IInv, Retransmittable, Contents, InOrder, coreVars
<1>3. RangesInside' /\ RangesSound' /\ RangesComplete'
  BY DEF IInv, RangesInside, RangesSound, RangesComplete, In, coreVars
<1> QED
  BY <1>1, <1>2, <1>3 DEF IInv

\* The bytes of a write are appended; the buffer moves only if ngtcp2 holds no pointer
\* into it.
LEMMA WriteStep ==
    ASSUME IInv, NEW n \in 0 .. MaxBytes, NEW fin \in BOOLEAN, Write(n, fin)
    PROVE  IInv'
<1> DEFINE m == AcceptLen(n)
           more == NextBytes(m)
<1>1. /\ buf \in Seq(Nat) /\ Len(buf) \in Nat /\ Len(buf) <= cap /\ cap \in 0 .. RetainedLimit
      /\ RetainedLimit \in Nat \ {0} /\ block \in Nat
      /\ sent \in 0 .. Len(buf) /\ base \in Nat /\ written \in Nat /\ flight \subseteq Pointer
  BY StreamTxAssumption DEF IInv, TypeOK
<1>2. m \in Nat /\ Len(buf) + m <= RetainedLimit
  BY <1>1 DEF AcceptLen, Room
<1>3. /\ state = "OPEN" /\ state' = "OPEN"
      /\ MayGrow(Len(buf) + m) /\ Reserve(Len(buf) + m)
      /\ buf' = buf \o more /\ written' = written + m
      /\ finQueued' \in BOOLEAN /\ waiting' \in BOOLEAN
      /\ UNCHANGED <<sent, base, ranges, finSent, conn, writable, flight, forgotten>>
  BY DEF Write, MayWrite
<1> HIDE DEF m
<1>4. more \in Seq(Nat) /\ Len(more) = m /\ \A i \in 1 .. m : more[i] = written + i - 1
  <2>1. \A i \in 1 .. m : written + i - 1 \in Nat
    BY <1>1, <1>2
  <2> QED
    BY <1>2, <2>1 DEF NextBytes
<1> HIDE DEF more
<1>5. /\ buf' \in Seq(Nat) /\ Len(buf') = Len(buf) + m
      /\ \A i \in 1 .. Len(buf) : buf'[i] = buf[i]
      /\ \A i \in 1 .. m : buf'[Len(buf) + i] = more[i]
  <2>1. /\ buf \o more \in Seq(Nat)
        /\ Len(buf \o more) = Len(buf) + Len(more)
        /\ \A i \in 1 .. Len(buf) + Len(more) :
              (buf \o more)[i] = IF i <= Len(buf) THEN buf[i] ELSE more[i - Len(buf)]
    BY <1>1, <1>4, ConcatProperties
  <2>2. \A i \in 1 .. Len(buf) : i \in 1 .. Len(buf) + m /\ i <= Len(buf)
    BY <1>1, <1>2
  <2>3. \A i \in 1 .. m : /\ Len(buf) + i \in 1 .. Len(buf) + m /\ ~(Len(buf) + i <= Len(buf))
                          /\ (Len(buf) + i) - Len(buf) = i
    BY <1>1, <1>2
  <2> QED
    BY <1>3, <1>4, <2>1, <2>2, <2>3
<1>6. cap' \in Len(buf) + m .. RetainedLimit
  <2>1. CASE Len(buf) + m <= cap
    BY <1>1, <1>2, <1>3, <2>1 DEF Reserve
  <2>2. CASE ~(Len(buf) + m <= cap)
    BY <1>1, <1>2, <1>3, <2>2, NextCapEnough, Len(buf) + m \in Nat, cap \in Nat DEF Reserve
  <2> QED
    BY <2>1, <2>2
<1>7. block' \in Nat /\ (flight # {} => block' = block)
  <2>1. sent = 0 => flight = {}
    BY FlightInside
  <2> QED
    BY <1>1, <1>2, <1>3, <2>1 DEF Reserve, MayGrow
<1>8. TypeOK'
  BY <1>1, <1>2, <1>3, <1>5, <1>6, <1>7 DEF IInv, TypeOK
<1>9. Retransmittable'
  <2> SUFFICES ASSUME NEW p \in flight
               PROVE  p.block = block' /\ p.at < sent /\ buf'[p.at + 1] = p.offset
    BY <1>3 DEF Retransmittable
  <2>1. p.at \in Nat /\ p.at < sent /\ p.block = block /\ buf[p.at + 1] = p.offset
    BY FlightInside DEF IInv, Retransmittable
  <2>2. p.at + 1 \in 1 .. Len(buf)
    BY <1>1, <2>1
  <2> QED
    BY <1>5, <1>7, <2>1, <2>2
<1>10. Contents'
  <2>1. written = base + Len(buf) /\ \A i \in 1 .. Len(buf) : buf[i] = base + i - 1
    BY <1>3 DEF IInv, Contents, InOrder
  <2>2. ASSUME NEW i \in 1 .. Len(buf) + m PROVE buf'[i] = base + i - 1
    <3>1. CASE i <= Len(buf)
      BY <1>1, <1>5, <2>1, <3>1
    <3>2. CASE i > Len(buf)
      <4>1. i - Len(buf) \in 1 .. m /\ i = Len(buf) + (i - Len(buf))
        BY <1>1, <1>2, <3>2
      <4>2. buf'[i] = more[i - Len(buf)]
        BY <1>5, <4>1
      <4> QED
        BY <1>1, <1>4, <2>1, <4>1, <4>2
    <3> QED
      BY <1>1, <3>1, <3>2
  <2> QED
    BY <1>1, <1>2, <1>3, <1>5, <2>1, <2>2 DEF Contents, InOrder
<1>11. RangesInside' /\ RangesSound' /\ RangesComplete'
  BY <1>3 DEF IInv, RangesInside, RangesSound, RangesComplete, In
<1> QED
  BY <1>8, <1>9, <1>10, <1>11 DEF IInv

\* quic_backend_stream_discard_tx, when ngtcp2 gives up the stream.
LEMMA DiscardStep ==
    ASSUME IInv, DiscardTx, flight' = {}, state' \in {"RESET", "CLOSED"},
           UNCHANGED <<conn, writable, written, forgotten>>
    PROVE  IInv'
<1>1. TypeOK'
  <2>1. base' \in Nat /\ block' \in Nat
    BY DEF DiscardTx, IInv, TypeOK
  <2>2. Cardinality({}) = 0 /\ AckRangeCap \in Nat /\ RetainedLimit \in Nat
    BY FS_EmptySet, StreamTxAssumption
  <2>3. buf' \in Seq(Nat) /\ Len(buf') = 0 /\ cap' = 0 /\ sent' = 0
    BY DEF DiscardTx
  <2>4. ranges' = {} /\ finQueued' = FALSE /\ finSent' = FALSE /\ waiting' = FALSE
    BY DEF DiscardTx
  <2>5. /\ conn' \in {"OPEN", "CLOSING"} /\ writable' \in BOOLEAN
        /\ written' \in Nat /\ forgotten' \in BOOLEAN
    BY DEF IInv, TypeOK
  <2>6. /\ Len(buf') <= cap' /\ cap' \in 0 .. RetainedLimit /\ sent' \in 0 .. Len(buf')
        /\ ranges' \subseteq AckRange /\ Cardinality(ranges') <= AckRangeCap
        /\ flight' \subseteq Pointer
    BY <2>2, <2>3, <2>4
  <2> QED
    BY <2>1, <2>3, <2>4, <2>5, <2>6 DEF TypeOK
<1>2. Retransmittable' /\ Contents'
  BY DEF DiscardTx, Retransmittable, Contents, InOrder
<1>3. RangesInside' /\ RangesSound'
  BY FS_EmptySet DEF DiscardTx, RangesInside, RangesSound
<1>4. RangesComplete'
  <2>1. base' = base + sent /\ sent' = 0 /\ base + sent \in Nat
    BY DEF DiscardTx, IInv, TypeOK
  <2>2. \A b \in Nat : b .. b + 0 - 1 = {}
    OBVIOUS
  <2>3. base' .. base' + sent' - 1 = {}
    BY <2>1, <2>2
  <2> QED
    BY <2>3 DEF RangesComplete
<1> QED
  BY <1>1, <1>2, <1>3, <1>4 DEF IInv

\* ngtcp2 takes bytes, which it may read again.
LEMMA TransmitStep ==
    ASSUME IInv, NEW n \in 0 .. RetainedLimit, Transmit(n)
    PROVE  IInv'
<1> DEFINE taken == {[offset |-> base + i, block |-> block, at |-> i] : i \in sent .. sent + n - 1}
<1>1. /\ buf \in Seq(Nat) /\ Len(buf) \in Nat /\ base \in Nat /\ sent \in 0 .. Len(buf)
      /\ block \in Nat /\ flight \subseteq Pointer /\ ranges \subseteq AckRange
      /\ RetainedLimit \in Nat
  BY StreamTxAssumption DEF IInv, TypeOK
<1>2. /\ n \in 0 .. Len(buf) - sent /\ sent' = sent + n /\ sent < Len(buf)
      /\ flight' = flight \cup taken /\ writable' \in BOOLEAN
      /\ UNCHANGED <<buf, cap, block, base, ranges, finQueued, finSent, state, conn, waiting,
                     written, forgotten>>
  <2>1. writable' \in BOOLEAN
    BY DEF Transmit, DrainWake, IInv, TypeOK
  <2> QED
    BY <2>1 DEF Transmit, finVars
<1>3. /\ state = "OPEN" /\ written = base + Len(buf)
      /\ \A i \in 1 .. Len(buf) : buf[i] = base + i - 1
  <2>1. buf # <<>>
    BY <1>1, <1>2
  <2> QED
    BY <2>1 DEF IInv, Contents, InOrder
<1>4. \A p \in taken : /\ p.at \in sent .. sent + n - 1 /\ p.offset = base + p.at
                       /\ p.block = block /\ p \in Pointer
  BY <1>1, <1>2 DEF Pointer
<1>5. ASSUME NEW i \in sent .. sent + n - 1 PROVE \E p \in taken : p.offset = base + i
  <2> DEFINE t == [offset |-> base + i, block |-> block, at |-> i]
  <2>1. t \in taken /\ t.offset = base + i
    OBVIOUS
  <2> QED
    BY <2>1
<1> HIDE DEF taken
<1>6. TypeOK'
  BY <1>1, <1>2, <1>4 DEF IInv, TypeOK
<1>7. Retransmittable'
  <2> SUFFICES ASSUME NEW p \in flight'
               PROVE  p.block = block /\ p.at < sent + n /\ buf[p.at + 1] = p.offset
    BY <1>2 DEF Retransmittable
  <2>1. CASE p \in flight
    BY <1>1, <1>2, <2>1, FlightInside DEF IInv, Retransmittable
  <2>2. CASE p \in taken
    <3>1. p.at + 1 \in 1 .. Len(buf)
      BY <1>1, <1>2, <1>4, <2>2
    <3>2. /\ p.at \in sent .. sent + n - 1 /\ p.offset = base + p.at
          /\ p.block = block /\ p \in Pointer
      BY <1>4, <2>2
    <3>3. buf[p.at + 1] = base + (p.at + 1) - 1
      BY <1>3, <3>1
    <3> QED
      BY <1>1, <1>2, <3>2, <3>3
  <2> QED
    BY <1>2, <2>1, <2>2
<1>8. Contents'
  BY <1>2, <1>3 DEF Contents, InOrder
<1>9. RangesInside'
  BY <1>1, <1>2 DEF IInv, RangesInside, AckRange
<1>10. RangesSound'
  <2> SUFFICES ASSUME NEW r \in ranges, NEW p \in flight' PROVE ~In(p.offset, r)
    BY <1>2 DEF RangesSound, In
  <2>1. CASE p \in flight
    BY <2>1 DEF IInv, RangesSound
  <2>2. CASE p \in taken
    <3>1. r.end <= base + sent /\ r.end \in Nat
      BY <1>1 DEF IInv, RangesInside, AckRange
    <3>2. p.at \in sent .. sent + n - 1 /\ p.offset = base + p.at
      BY <1>4, <2>2
    <3>3. p.offset >= base + sent
      BY <1>1, <1>2, <3>2
    <3> QED
      BY <1>1, <1>2, <3>1, <3>2, <3>3 DEF In
  <2> QED
    BY <1>2, <2>1, <2>2
<1>11. RangesComplete'
  <2> SUFFICES ASSUME ~forgotten, NEW o \in base .. base + (sent + n) - 1
               PROVE  (\E r \in ranges : In(o, r)) \/ (\E p \in flight' : p.offset = o)
    BY <1>2 DEF RangesComplete, In
  <2>1. CASE o < base + sent
    <3>1. o \in base .. base + sent - 1
      BY <1>1, <1>2, <2>1
    <3> QED
      BY <1>2, <3>1 DEF IInv, RangesComplete
  <2>2. CASE o >= base + sent
    <3>1. o - base \in sent .. sent + n - 1 /\ base + (o - base) = o
      BY <1>1, <1>2, <2>2
    <3> QED
      BY <1>2, <1>5, <3>1
  <2> QED
    BY <1>1, <2>1, <2>2
<1> QED
  BY <1>6, <1>7, <1>8, <1>9, <1>10, <1>11 DEF IInv

\* quic_backend_wake_blocked_writer pushes an event or fails the connection.
LEMMA WakeTypes ==
    ASSUME IInv, WakeBlockedWriter
    PROVE  writable' \in BOOLEAN /\ conn' \in {"OPEN", "CLOSING"}
BY DEF WakeBlockedWriter, IInv, TypeOK

\* An acknowledgement that leaves bytes outstanding is recorded.
LEMMA AckRecordedStep ==
    ASSUME IInv, NEW first \in 0 .. MaxBytes, NEW last \in 0 .. MaxBytes,
           Ack(first, last), AckRecorded(first, last)
    PROVE  IInv'
<1> DEFINE new == [start |-> first, end |-> last + 1]
           acked == {p \in flight : p.offset \in first .. last}
<1>1. /\ first \in Nat /\ last \in Nat /\ first <= last
      /\ \A o \in first .. last : \E p \in flight : p.offset = o
      /\ flight' = flight \ acked
      /\ UNCHANGED <<finQueued, finSent, state, waiting, written>>
  BY StreamTxAssumption DEF Ack, finVars
<1>2. Clipped(first, last) = new /\ base <= first /\ last < base + sent
  BY <1>1, ClippedExact
<1>3. /\ ranges' = Inserted(new)
      /\ forgotten' = (forgotten \/ ~HasRoom(new))
      /\ UNCHANGED <<buf, cap, block, sent, base, conn, writable>>
  BY <1>2 DEF AckRecorded, bufferVars
<1>4. /\ Inserted(new) \subseteq AckRange
      /\ IsFiniteSet(Inserted(new)) /\ Cardinality(Inserted(new)) <= AckRangeCap
      /\ \A r \in Inserted(new) : base <= r.start /\ r.start < r.end /\ r.end <= base + sent
      /\ \A r, q \in Inserted(new) : r # q => r.end < q.start \/ q.end < r.start
      /\ \A r \in Inserted(new) : \A o \in Nat :
           In(o, r) => (\E q \in ranges : In(o, q)) \/ o \in first .. last
      /\ HasRoom(new) =>
           \A o \in Nat : (\E q \in ranges : In(o, q)) \/ o \in first .. last
                             => \E r \in Inserted(new) : In(o, r)
  BY <1>1, <1>2, InsertedExact
<1> HIDE DEF new
<1>5. flight' \subseteq flight /\ \A p \in flight' : p.offset \notin first .. last
  BY <1>1
<1>6. TypeOK'
  <2>1. forgotten' \in BOOLEAN
    BY <1>3 DEF IInv, TypeOK
  <2> QED
    BY <1>1, <1>3, <1>4, <1>5, <2>1 DEF IInv, TypeOK
<1>7. Retransmittable'
  BY <1>3, <1>5 DEF IInv, Retransmittable
<1>8. Contents'
  BY <1>1, <1>3, <1>5 DEF IInv, Contents, InOrder
<1>9. RangesInside'
  BY <1>3, <1>4 DEF RangesInside
<1>10. RangesSound'
  <2> SUFFICES ASSUME NEW r \in Inserted(new), NEW p \in flight', In(p.offset, r) PROVE FALSE
    BY <1>3 DEF RangesSound, In
  <2>1. p.offset \in Nat
    BY <1>5 DEF IInv, TypeOK, Pointer
  <2>2. \E q \in ranges : In(p.offset, q)
    BY <1>4, <1>5, <2>1
  <2> QED
    BY <1>5, <2>2 DEF IInv, RangesSound
<1>11. RangesComplete'
  <2> SUFFICES ASSUME ~forgotten, HasRoom(new), NEW o \in base .. base + sent - 1
               PROVE  (\E r \in Inserted(new) : In(o, r)) \/ (\E p \in flight' : p.offset = o)
    BY <1>3 DEF RangesComplete, In
  <2>1. o \in Nat
    BY DEF IInv, TypeOK
  <2>2. (\E r \in ranges : In(o, r)) \/ (\E p \in flight : p.offset = o)
    BY DEF IInv, RangesComplete
  <2>3. CASE \E r \in ranges : In(o, r)
    BY <1>4, <2>1, <2>3
  <2>4. CASE o \in first .. last
    BY <1>4, <2>1, <2>4
  <2>5. CASE o \notin first .. last /\ \E p \in flight : p.offset = o
    BY <1>1, <2>5
  <2> QED
    BY <2>2, <2>3, <2>4, <2>5
<1> QED
  BY <1>6, <1>7, <1>8, <1>9, <1>10, <1>11 DEF IInv

\* The acknowledgement of the last byte that was outstanding: the buffer is moved down
\* and may move, and ngtcp2 holds no pointer into it.
LEMMA AckReclaimsStep ==
    ASSUME IInv, NEW first \in 0 .. MaxBytes, NEW last \in 0 .. MaxBytes,
           Ack(first, last), AckReclaims(first, last)
    PROVE  IInv'
<1> DEFINE new == [start |-> first, end |-> last + 1]
           acked == {p \in flight : p.offset \in first .. last}
           left == Len(buf) - sent
<1>1. /\ first \in Nat /\ last \in Nat /\ first <= last
      /\ \A o \in first .. last : \E p \in flight : p.offset = o
      /\ flight' = flight \ acked
      /\ UNCHANGED <<finQueued, finSent, state, waiting, written>>
  BY StreamTxAssumption DEF Ack, finVars
<1>2. /\ Clipped(first, last) = new /\ base <= first /\ last < base + sent
      /\ state = "OPEN"
  BY <1>1, ClippedExact
<1>3. /\ Covers(Inserted(new))
      /\ buf' = SubSeq(buf, sent + 1, Len(buf)) /\ base' = base + sent /\ sent' = 0
      /\ Shrink(left) /\ ranges' = {}
      /\ writable' \in BOOLEAN /\ conn' \in {"OPEN", "CLOSING"} /\ forgotten' = forgotten
  BY <1>2, WakeTypes DEF AckReclaims, Remaining
<1>4. /\ buf \in Seq(Nat) /\ Len(buf) \in Nat /\ Len(buf) <= cap /\ cap \in 0 .. RetainedLimit
      /\ RetainedLimit \in Nat \ {0} /\ AckRangeCap \in Nat /\ block \in Nat
      /\ sent \in 0 .. Len(buf) /\ base \in Nat /\ base + sent \in Nat
  BY StreamTxAssumption DEF IInv, TypeOK
<1>5. flight' = {}
  <2> SUFFICES ASSUME NEW p \in flight, p.offset \notin first .. last PROVE FALSE
    BY <1>1
  <2>1. p.offset \in Nat /\ base <= p.offset /\ p.offset < base + sent
    BY <1>4, FlightInside
  <2>2. \A r \in Inserted(new) : \A o \in Nat :
           In(o, r) => (\E q \in ranges : In(o, q)) \/ o \in first .. last
    BY <1>1, <1>2, InsertedExact
  <2>3. PICK r \in Inserted(new) : r.start <= base /\ r.end >= base + sent
    BY <1>3 DEF Covers
  <2>4. r.start \in Nat /\ r.end \in Nat
    <3>1. Inserted(new) \subseteq AckRange
      BY <1>1, <1>2, InsertedExact
    <3> QED
      BY <3>1 DEF AckRange
  <2>5. In(p.offset, r)
    BY <1>4, <2>1, <2>3, <2>4 DEF In
  <2>6. \E q \in ranges : In(p.offset, q)
    BY <2>1, <2>2, <2>5
  <2> QED
    BY <2>6 DEF IInv, RangesSound
<1>6. /\ buf' \in Seq(Nat) /\ Len(buf') = left
      /\ \A i \in 1 .. left : buf'[i] = buf[sent + i]
  <2>1. CASE sent = Len(buf)
    <3>1. buf' = <<>>
      BY <1>3, <1>4, <2>1
    <3> QED
      BY <1>4, <2>1, <3>1
  <2>2. CASE sent < Len(buf)
    BY <1>3, <1>4, <2>2
  <2>3. sent = Len(buf) \/ sent < Len(buf)
    BY <1>4
  <2> QED
    BY <2>1, <2>2, <2>3
<1>7. cap' \in left .. RetainedLimit /\ block' \in Nat
  <2>1. left \in Nat /\ left <= cap
    BY <1>4
  <2> HIDE DEF left
  <2>2. CASE left = 0
    BY <1>3, <1>4, <2>2 DEF Shrink
  <2>3. CASE left # 0 /\ left < cap
    <3>1. NextCap(0, left, cap) \in left .. cap
      <4>1. cap \in Nat \ {0} /\ 0 \in Nat
        BY <1>4, <2>1, <2>3
      <4> QED
        BY <2>1, <4>1, NextCapEnough
    <3> QED
      BY <1>3, <1>4, <2>1, <2>3, <3>1 DEF Shrink
  <2>4. CASE left # 0 /\ ~(left < cap)
    BY <1>3, <1>4, <2>1, <2>4 DEF Shrink
  <2> QED
    BY <2>2, <2>3, <2>4
<1>8. TypeOK'
  <2>1. /\ Len(buf') <= cap' /\ cap' \in 0 .. RetainedLimit /\ sent' \in 0 .. Len(buf')
    BY <1>3, <1>4, <1>6, <1>7
  <2>2. /\ ranges' \subseteq AckRange /\ Cardinality(ranges') <= AckRangeCap
        /\ flight' \subseteq Pointer /\ base' \in Nat
    BY <1>3, <1>4, <1>5, FS_EmptySet
  <2> QED
    BY <1>1, <1>3, <1>6, <1>7, <2>1, <2>2 DEF IInv, TypeOK
<1>9. Retransmittable' /\ RangesSound' /\ RangesInside'
  BY <1>3, <1>5, FS_EmptySet DEF Retransmittable, RangesSound, RangesInside
<1>10. Contents'
  <2>1. written = base + Len(buf) /\ \A i \in 1 .. Len(buf) : buf[i] = base + i - 1
    BY <1>2 DEF IInv, Contents, InOrder
  <2>2. ASSUME NEW i \in 1 .. left PROVE buf'[i] = (base + sent) + i - 1
    <3>1. sent + i \in 1 .. Len(buf)
      BY <1>4
    <3>2. buf'[i] = base + (sent + i) - 1
      BY <1>6, <2>1, <3>1
    <3> QED
      BY <1>4, <3>2
  <2>3. base + Len(buf) = (base + sent) + left
    BY <1>4
  <2> QED
    BY <1>1, <1>2, <1>3, <1>6, <2>1, <2>2, <2>3 DEF Contents, InOrder
<1>11. RangesComplete'
  <2>1. \A b \in Nat : b .. b + 0 - 1 = {}
    OBVIOUS
  <2>2. base' .. base' + sent' - 1 = {}
    BY <1>3, <1>4, <2>1
  <2> QED
    BY <2>2 DEF RangesComplete
<1> QED
  BY <1>8, <1>9, <1>10, <1>11 DEF IInv

-----------------------------------------------------------------------------
(***************************************************************************)
(* Theorems.                                                               *)
(***************************************************************************)

\* The invariant holds when the stream is opened (quic_backend_stream_new).
LEMMA InitIInv == Init => IInv
<1> SUFFICES ASSUME Init PROVE IInv
  OBVIOUS
<1>1. Cardinality({}) = 0 /\ IsFiniteSet({}) /\ AckRangeCap \in Nat /\ RetainedLimit \in Nat
  BY FS_EmptySet, StreamTxAssumption
<1>2. TypeOK
  <2>1. /\ buf \in Seq(Nat) /\ Len(buf) <= cap /\ sent \in 0 .. Len(buf)
        /\ cap \in 0 .. RetainedLimit
    BY <1>1 DEF Init
  <2>2. /\ ranges \subseteq AckRange /\ Cardinality(ranges) <= AckRangeCap
        /\ flight \subseteq Pointer
    BY <1>1 DEF Init
  <2> QED
    BY <2>1, <2>2 DEF Init, TypeOK
<1>3. Retransmittable /\ Contents
  BY DEF Init, Retransmittable, Contents, InOrder
<1>4. RangesInside /\ RangesSound /\ RangesComplete
  BY <1>1 DEF Init, RangesInside, RangesSound, RangesComplete
<1> QED
  BY <1>2, <1>3, <1>4 DEF IInv

\* Every step of the writer, of ngtcp2 and of the callbacks keeps the invariant.
LEMMA StepIInv == IInv /\ [Next]_vars => IInv'
<1> SUFFICES ASSUME IInv, [Next]_vars PROVE IInv'
  OBVIOUS
<1>0. /\ finQueued \in BOOLEAN /\ finSent \in BOOLEAN /\ conn \in {"OPEN", "CLOSING"}
      /\ writable \in BOOLEAN /\ waiting \in BOOLEAN
  BY DEF IInv, TypeOK
<1>1. ASSUME NEW n \in 0 .. MaxBytes, NEW fin \in BOOLEAN, Write(n, fin) PROVE IInv'
  BY <1>1, WriteStep
<1>2. ASSUME NEW n \in 1 .. MaxBytes, WriteBlocked(n) PROVE IInv'
  BY <1>0, <1>2, CoreUnchanged DEF WriteBlocked, bufferVars, finVars, coreVars
<1>3. CASE Reset
  BY <1>3, DiscardStep DEF Reset
<1>4. CASE TakeWritable
  BY <1>0, <1>4, CoreUnchanged DEF TakeWritable, bufferVars, finVars, coreVars
<1>5. ASSUME NEW n \in 0 .. RetainedLimit, Transmit(n) PROVE IInv'
  BY <1>5, TransmitStep
<1>6. CASE TransmitFin
  BY <1>0, <1>6, CoreUnchanged DEF TransmitFin, bufferVars, coreVars
<1>7. ASSUME NEW first \in 0 .. MaxBytes, NEW last \in 0 .. MaxBytes, Ack(first, last)
      PROVE  IInv'
  <2>1. AckRecorded(first, last) \/ AckReclaims(first, last)
    BY <1>7 DEF Ack
  <2> QED
    BY <1>7, <2>1, AckRecordedStep, AckReclaimsStep
<1>8. CASE ExtendMaxStreamData
  <2>1. writable' \in BOOLEAN /\ conn' \in {"OPEN", "CLOSING"}
    BY <1>8, WakeTypes DEF ExtendMaxStreamData
  <2> QED
    BY <1>0, <1>8, <2>1, CoreUnchanged DEF ExtendMaxStreamData, bufferVars, finVars, coreVars
<1>9. CASE StreamClose
  BY <1>9, DiscardStep DEF StreamClose
<1>10. CASE UNCHANGED vars
  BY <1>0, <1>10, CoreUnchanged DEF vars, bufferVars, finVars, coreVars
<1> QED
  BY <1>1, <1>2, <1>3, <1>4, <1>5, <1>6, <1>7, <1>8, <1>9, <1>10 DEF Next

\* The inductive invariant holds in every reachable state.
THEOREM Invariance == Spec => []IInv
BY InitIInv, StepIInv, PTL DEF Spec

\* The buffer never holds more than its capacity, its capacity never exceeds the
\* retained limit and the range table never overflows, for every size of the three.
THEOREM TypeCorrect == Spec => []TypeOK
<1>1. IInv => TypeOK
  BY DEF IInv
<1> QED
  BY Invariance, <1>1, PTL

\* ngtcp2 always finds the bytes it retransmits: tx_data is moved, shrunk or freed only
\* when none of them is outstanding, whatever the order of the acknowledgements and
\* even if ranges were forgotten.
THEOREM RetransmissionsSafe == Spec => []Retransmittable
<1>1. IInv => Retransmittable
  BY DEF IInv
<1> QED
  BY Invariance, <1>1, PTL

\* The bytes reach ngtcp2 in the order in which they were written, without gap or
\* repetition.
THEOREM BytesInOrder == Spec => []InOrder
<1>1. IInv => InOrder
  BY DEF IInv, Contents
<1> QED
  BY Invariance, <1>1, PTL

\* The table of acknowledged ranges is exact as long as it never overflowed.
THEOREM RangesCorrect == Spec => []RangesExact
<1>1. IInv => RangesExact
  <2> SUFFICES ASSUME IInv PROVE RangesExact
    OBVIOUS
  <2>1. \A r, q \in ranges : r # q => r.end < q.start \/ q.end < r.start
    BY DEF IInv, RangesInside
  <2>2. ASSUME ~forgotten, NEW o \in base .. base + sent - 1
        PROVE  (\E r \in ranges : r.start <= o /\ o < r.end) <=> (\A p \in flight : p.offset # o)
    BY <2>2 DEF IInv, RangesSound, RangesComplete, In
  <2> QED
    BY <2>1, <2>2 DEF RangesExact
<1> QED
  BY Invariance, <1>1, PTL

\* A writer that was refused bytes has an event coming, or bytes in the buffer whose
\* acknowledgement will bring it one: the buffer is never emptied silently.
THEOREM WriterKept == Spec => []WriterNotForgotten
<1> USE DEF WriterNotForgotten
<1>1. Init => WriterNotForgotten
  BY DEF Init
<1>2. IInv /\ WriterNotForgotten /\ [Next]_vars => WriterNotForgotten'
  <2> SUFFICES ASSUME IInv, WriterNotForgotten, [Next]_vars,
                      waiting', state' = "OPEN", conn' = "OPEN", ~finQueued', buf' = <<>>
               PROVE  writable'
    OBVIOUS
  <2>0. /\ buf \in Seq(Nat) /\ Len(buf) \in Nat /\ sent \in 0 .. Len(buf)
        /\ RetainedLimit \in Nat \ {0} /\ writable \in BOOLEAN /\ Len(buf) <= RetainedLimit
    BY StreamTxAssumption DEF IInv, TypeOK
  <2>1. ASSUME NEW n \in 0 .. MaxBytes, NEW fin \in BOOLEAN, Write(n, fin) PROVE FALSE
    <3> DEFINE m == AcceptLen(n)
    <3>0. /\ waiting' = (m < n) /\ buf' = buf \o NextBytes(m)
          /\ n # 0 => Room > 0
      BY <2>1 DEF Write
    <3>1. m < n /\ n # 0 /\ Room > 0 /\ buf' = buf \o NextBytes(m) /\ m \in Nat
      <4>1. m < n
        BY <3>0
      <4>2. Room \in Nat /\ n \in Nat
        BY <2>0, StreamTxAssumption DEF Room
      <4>3. n # 0 /\ Room > 0
        BY <3>0, <4>1, <4>2 DEF AcceptLen
      <4> QED
        BY <3>0, <4>1, <4>2, <4>3 DEF AcceptLen
    <3>2. m > 0
      BY <2>0, <3>1 DEF AcceptLen, Room
    <3> HIDE DEF m
    <3>3. NextBytes(m) \in Seq(Nat) /\ Len(NextBytes(m)) = m
      <4>1. \A i \in 1 .. m : written + i - 1 \in Nat
        BY <3>1 DEF IInv, TypeOK
      <4> QED
        BY <3>1, <4>1 DEF NextBytes
    <3>4. Len(buf') = Len(buf) + m
      BY <2>0, <3>1, <3>3, ConcatProperties
    <3> QED
      BY <2>0, <3>1, <3>2, <3>4
  <2>2. ASSUME NEW n \in 1 .. MaxBytes, WriteBlocked(n) PROVE FALSE
    BY <2>0, <2>2 DEF WriteBlocked, Room, MayGrow, bufferVars
  <2>3. CASE Reset \/ StreamClose \/ TakeWritable
    BY <2>3 DEF Reset, StreamClose, TakeWritable
  <2>4. ASSUME NEW n \in 0 .. RetainedLimit, Transmit(n) PROVE FALSE
    BY <2>0, <2>4 DEF Transmit
  <2>5. CASE TransmitFin
    BY <2>0, <2>5 DEF TransmitFin, HasTx, bufferVars
  <2>6. ASSUME NEW first \in 0 .. MaxBytes, NEW last \in 0 .. MaxBytes, Ack(first, last)
        PROVE  writable'
    <3>1. CASE AckRecorded(first, last)
      BY <2>6, <3>1 DEF Ack, AckRecorded, bufferVars, finVars
    <3>2. CASE AckReclaims(first, last)
      BY <2>6, <3>2 DEF Ack, AckReclaims, WakeBlockedWriter, finVars
    <3> QED
      BY <2>6, <3>1, <3>2 DEF Ack
  <2>7. CASE ExtendMaxStreamData
    BY <2>7 DEF ExtendMaxStreamData, WakeBlockedWriter, bufferVars, finVars
  <2>8. CASE UNCHANGED vars
    BY <2>8 DEF vars, bufferVars, finVars
  <2> QED
    BY <2>1, <2>2, <2>3, <2>4, <2>5, <2>6, <2>7, <2>8 DEF Next
<1> QED
  BY Invariance, <1>1, <1>2, PTL DEF Spec

-----------------------------------------------------------------------------
(***************************************************************************)
(* The buffer implements the stream of SendStream.                         *)
(***************************************************************************)

\* The FIN goes behind the last byte, and no byte is written after it.
FinLast == finSent => finQueued /\ sent = Len(buf)

\* What ngtcp2 may send again, by its place in the stream.
Pending == {p.offset : p \in flight}

\* A step that leaves the buffer and the two flags of the FIN alone.
LEMMA FinUntouched ==
    ASSUME FinLast, UNCHANGED <<buf, sent, finQueued, finSent>>
    PROVE  FinLast'
BY DEF FinLast

\* quic_backend_write_conn_datagram sends the FIN when every byte has gone;
\* quic_backend_stream_write refuses bytes once it is queued.
LEMMA FinLastInvariant == Spec => []FinLast
<1>1. Init => FinLast
  BY DEF Init, FinLast
<1>2. IInv /\ FinLast /\ [Next]_vars => FinLast'
  <2> SUFFICES ASSUME IInv, FinLast, [Next]_vars PROVE FinLast'
    OBVIOUS
  <2>0. buf \in Seq(Nat) /\ Len(buf) \in Nat /\ sent \in 0 .. Len(buf)
    BY DEF IInv, TypeOK
  <2>1. ASSUME NEW n \in 0 .. MaxBytes, NEW fin \in BOOLEAN, Write(n, fin) PROVE FinLast'
    BY <2>1 DEF Write, MayWrite, FinLast
  <2>2. ASSUME NEW n \in 1 .. MaxBytes, WriteBlocked(n) PROVE FinLast'
    BY <2>2, FinUntouched DEF WriteBlocked, bufferVars, finVars
  <2>3. CASE Reset \/ StreamClose
    BY <2>3 DEF Reset, StreamClose, DiscardTx, FinLast
  <2>4. CASE TakeWritable
    BY <2>4, FinUntouched DEF TakeWritable, bufferVars, finVars
  <2>5. ASSUME NEW n \in 0 .. RetainedLimit, Transmit(n) PROVE FinLast'
    BY <2>0, <2>5 DEF Transmit, finVars, FinLast
  <2>6. CASE TransmitFin
    BY <2>0, <2>6 DEF TransmitFin, HasTx, bufferVars, FinLast
  <2>7. ASSUME NEW first \in 0 .. MaxBytes, NEW last \in 0 .. MaxBytes, Ack(first, last)
        PROVE  FinLast'
    <3>1. UNCHANGED <<finQueued, finSent>>
      BY <2>7 DEF Ack, finVars
    <3>2. CASE AckRecorded(first, last)
      BY <3>1, <3>2, FinUntouched DEF AckRecorded, bufferVars
    <3>3. CASE AckReclaims(first, last)
      <4>1. CASE finSent
        <5>1. finQueued /\ buf' = SubSeq(buf, Len(buf) + 1, Len(buf)) /\ sent' = 0
          BY <3>3, <4>1 DEF AckReclaims, Remaining, FinLast
        <5>2. buf' = <<>>
          BY <2>0, <5>1
        <5> QED
          BY <3>1, <5>1, <5>2 DEF FinLast
      <4>2. CASE ~finSent
        BY <3>1, <4>2 DEF FinLast
      <4> QED
        BY <4>1, <4>2
    <3> QED
      BY <2>7, <3>2, <3>3 DEF Ack
  <2>8. CASE ExtendMaxStreamData
    BY <2>8, FinUntouched DEF ExtendMaxStreamData, bufferVars, finVars
  <2>9. CASE UNCHANGED vars
    BY <2>9, FinUntouched DEF vars, bufferVars, finVars
  <2> QED
    BY <2>1, <2>2, <2>3, <2>4, <2>5, <2>6, <2>7, <2>8, <2>9 DEF Next
<1> QED
  BY Invariance, <1>1, <1>2, PTL DEF Spec

\* Ranges that are apart and together hold all of n bytes are one range that holds them.
LEMMA ApartAndComplete ==
    ASSUME NEW table, table \subseteq AckRange, NEW b \in Nat, NEW n \in Nat, n > 0,
           \A r \in table : b <= r.start,
           \A r, q \in table : r # q => r.end < q.start \/ q.end < r.start,
           \A o \in b .. b + n - 1 : \E r \in table : In(o, r)
    PROVE  \E r \in table : r.start <= b /\ r.end >= b + n
<1>0. \A r \in table : r.start \in Nat /\ r.end \in Nat
  BY DEF AckRange
<1>1. PICK r \in table : In(b, r)
  <2>1. b \in b .. b + n - 1
    OBVIOUS
  <2> QED
    BY <2>1
<1>2. r.start <= b /\ b < r.end
  BY <1>1 DEF In
<1>3. r.end >= b + n
  <2> SUFFICES ASSUME r.end < b + n PROVE FALSE
    BY <1>0
  <2>1. r.end \in b .. b + n - 1
    BY <1>0, <1>2
  <2>2. PICK q \in table : In(r.end, q)
    BY <2>1
  <2>3. q.start <= r.end /\ r.end < q.end
    BY <2>2 DEF In
  <2>4. r # q
    BY <1>0, <2>3
  <2>5. r.end < q.start \/ q.end < r.start
    BY <2>4
  <2>6. b <= q.start
    OBVIOUS
  <2> QED
    BY <1>0, <1>2, <2>3, <2>5, <2>6
<1> QED
  BY <1>2, <1>3

\* The table covers everything that was sent as soon as nothing is outstanding, unless a
\* range was forgotten.
LEMMA NothingLeftCovers ==
    ASSUME IInv', ~forgotten', flight' = {}, sent' > 0
    PROVE  \E r \in ranges' : r.start <= base' /\ r.end >= base' + sent'
<1>1. /\ base' \in Nat /\ sent' \in Nat /\ ranges' \subseteq AckRange
      /\ \A r \in ranges' : base' <= r.start
      /\ \A r, q \in ranges' : r # q => r.end < q.start \/ q.end < r.start
  BY DEF IInv, TypeOK, RangesInside
<1>2. \A o \in base' .. base' + sent' - 1 : \E r \in ranges' : In(o, r)
  BY DEF IInv, RangesComplete, In
<1> QED
  BY <1>1, <1>2, ApartAndComplete

\* The acknowledgement that makes the table cover what was sent is the last one.
LEMMA ReclaimsNothingLeft ==
    ASSUME IInv, IInv', NEW first \in 0 .. MaxBytes, NEW last \in 0 .. MaxBytes,
           Ack(first, last), AckReclaims(first, last)
    PROVE  flight' = {}
<1>1. sent' = 0
  BY DEF AckReclaims
<1>2. \A p \in flight' : p \in Pointer /\ p.at < sent'
  BY DEF IInv, TypeOK, Retransmittable
<1> QED
  BY <1>1, <1>2 DEF Pointer

\* What an acknowledgement leaves outstanding.
LEMMA AckShrinksPending ==
    ASSUME IInv, NEW first \in 0 .. MaxBytes, NEW last \in 0 .. MaxBytes, Ack(first, last)
    PROVE  /\ Pending' \subseteq Pending /\ Pending' # Pending
           /\ state = "OPEN" /\ sent > 0
           /\ UNCHANGED <<finQueued, finSent, state, waiting, written>>
<1>1. /\ first \in Nat /\ last \in Nat /\ first <= last
      /\ \A o \in first .. last : \E p \in flight : p.offset = o
      /\ flight' = {p \in flight : p.offset \notin first .. last}
      /\ UNCHANGED <<finQueued, finSent, state, waiting, written>>
  BY StreamTxAssumption DEF Ack, finVars
<1>2. PICK p \in flight : p.offset = first
  BY <1>1
<1>3. first \in Pending /\ first \notin Pending'
  BY <1>1, <1>2 DEF Pending
<1>4. Pending' \subseteq Pending
  BY <1>1 DEF Pending
<1>5. state = "OPEN" /\ sent > 0
  <2>1. state = "OPEN" /\ p.at \in Nat /\ p.at < sent
    BY FlightInside
  <2> QED
    BY <2>1 DEF IInv, TypeOK
<1> QED
  BY <1>1, <1>3, <1>4, <1>5

\* A step that the stream does not see.
LEMMA Unseen ==
    ASSUME UNCHANGED <<buf, sent, base, finVars, state, flight, written, forgotten>>
    PROVE  UNCHANGED Stream!vars
BY DEF Stream!vars, Status, finVars

\* An empty stream is opened.
LEMMA OpensStream == Init => Stream!Init
BY DEF Init, Stream!Init, Status

\* Every step of the writer, of ngtcp2 and of the callbacks is a step of the stream, or
\* one that it does not see.
LEMMA StepKeepsPromise ==
    ASSUME IInv, IInv', FinLast, [Next]_vars
    PROVE  [Stream!Next]_(Stream!vars)
<1>0. /\ buf \in Seq(Nat) /\ Len(buf) \in Nat /\ sent \in 0 .. Len(buf) /\ base \in Nat
      /\ written \in Nat /\ RetainedLimit \in Nat
      /\ finQueued \in BOOLEAN /\ finSent \in BOOLEAN /\ forgotten \in BOOLEAN
      /\ state \in {"OPEN", "RESET", "CLOSED"}
      /\ state = "OPEN" => written = base + Len(buf)
      /\ state # "OPEN" => buf = <<>> /\ flight = {}
  BY StreamTxAssumption, SMTT(30) DEF IInv, TypeOK, Contents
<1>1. ASSUME NEW n \in 0 .. MaxBytes, NEW fin \in BOOLEAN, Write(n, fin)
      PROVE  Stream!Accept
  <2>1. /\ state = "OPEN" /\ ~finQueued /\ ~finSent
        /\ UNCHANGED <<sent, base, finSent, state, flight, forgotten>>
    BY <1>1 DEF Write, MayWrite, FinLast
  <2>2. written' >= written
    <3>1. n \in Nat /\ Len(buf) <= RetainedLimit
      BY StreamTxAssumption, SMTT(30) DEF IInv, TypeOK
    <3>2. AcceptLen(n) \in Nat
      BY <1>0, <3>1 DEF AcceptLen, Room
    <3>3. written' = written + AcceptLen(n)
      BY <1>1 DEF Write
    <3> QED
      BY <1>0, <3>2, <3>3
  <2>3. written' - base <= RetainedLimit
    <3>1. /\ written' = base' + Len(buf') /\ base' = base
          /\ Len(buf') <= cap' /\ cap' \in 0 .. RetainedLimit /\ buf' \in Seq(Nat)
      BY <2>1 DEF IInv, TypeOK, Contents
    <3>2. Len(buf') \in Nat
      BY <3>1
    <3> QED
      BY <1>0, <3>1, <3>2
  <2>4. Status = "open" /\ Status' \in {"open", "final"}
    BY <2>1 DEF Status
  <2> QED
    BY <2>1, <2>2, <2>3, <2>4 DEF Stream!Accept
<1>2. ASSUME NEW n \in 1 .. MaxBytes, WriteBlocked(n) PROVE UNCHANGED Stream!vars
  BY <1>2, Unseen DEF WriteBlocked, bufferVars
<1>3. CASE TakeWritable \/ ExtendMaxStreamData
  BY <1>3, Unseen DEF TakeWritable, ExtendMaxStreamData, bufferVars
<1>4. CASE Reset \/ StreamClose
  <2>1. /\ base' = base + sent /\ sent' = 0 /\ flight' = {} /\ state' # "OPEN"
        /\ UNCHANGED <<written, forgotten>>
    BY <1>4 DEF Reset, StreamClose, DiscardTx
  <2>2. base' + sent' = base + sent /\ {p.offset : p \in flight'} = {} /\ Status' = "over"
    BY <1>0, <2>1 DEF Status
  <2>3. CASE state = "OPEN"
    <3>1. Status # "over"
      BY <2>3 DEF Status
    <3>2. Stream!End
      BY <2>1, <2>2, <3>1 DEF Stream!End
    <3> QED
      BY <3>2 DEF Stream!Next
  <2>4. CASE state # "OPEN"
    <3>1. sent = 0 /\ base' = base /\ {p.offset : p \in flight} = {} /\ Status = "over"
      BY <1>0, <2>1, <2>4 DEF Status
    <3> QED
      BY <2>1, <2>2, <3>1 DEF Stream!vars
  <2> QED
    BY <2>3, <2>4
<1>5. ASSUME NEW n \in 0 .. RetainedLimit, Transmit(n) PROVE Stream!Send
  <2>1. /\ sent < Len(buf) /\ n \in 0 .. Len(buf) - sent /\ sent' = sent + n
        /\ flight' = flight \cup
             {[offset |-> base + i, block |-> block, at |-> i] : i \in sent .. sent + n - 1}
        /\ UNCHANGED <<buf, base, finQueued, finSent, state, written, forgotten>>
    BY <1>5 DEF Transmit, finVars
  <2>2. state = "OPEN" /\ ~finSent
    BY <1>0, <2>1 DEF FinLast
  <2>3. Status \in {"open", "final"} /\ Status' = Status
    BY <2>1, <2>2 DEF Status
  <2>4. base' + sent' \in base + sent .. written
    BY <1>0, <2>1, <2>2
  <2>5. {p.offset : p \in flight'}
          = {p.offset : p \in flight} \cup (base + sent .. (base' + sent') - 1)
    <3>1. base' + sent' = base + (sent + n) /\ n \in Nat
      BY <1>0, <2>1
    <3>2. {base + i : i \in sent .. sent + n - 1} = base + sent .. (base + (sent + n)) - 1
      <4>1. ASSUME NEW o \in base + sent .. (base + (sent + n)) - 1
            PROVE  o \in {base + i : i \in sent .. sent + n - 1}
        <5>1. o - base \in sent .. sent + n - 1 /\ o = base + (o - base)
          BY <1>0, <3>1
        <5> QED
          BY <5>1
      <4>2. ASSUME NEW i \in sent .. sent + n - 1
            PROVE  base + i \in base + sent .. (base + (sent + n)) - 1
        BY <1>0, <3>1
      <4> QED
        BY <4>1, <4>2
    <3>3. {p.offset : p \in flight'}
            = {p.offset : p \in flight} \cup {base + i : i \in sent .. sent + n - 1}
      <4> DEFINE new == {[offset |-> base + i, block |-> block, at |-> i] : i \in sent .. sent + n - 1}
      <4>1. {p.offset : p \in new} = {base + i : i \in sent .. sent + n - 1}
        <5>1. ASSUME NEW p \in new PROVE p.offset \in {base + i : i \in sent .. sent + n - 1}
          OBVIOUS
        <5>2. ASSUME NEW i \in sent .. sent + n - 1 PROVE base + i \in {p.offset : p \in new}
          <6>1. [offset |-> base + i, block |-> block, at |-> i] \in new
            OBVIOUS
          <6>2. [offset |-> base + i, block |-> block, at |-> i].offset = base + i
            OBVIOUS
          <6> HIDE DEF new
          <6> QED
            BY <6>1, <6>2
        <5> HIDE DEF new
        <5> QED
          BY <5>1, <5>2
      <4>2. flight' = flight \cup new
        BY <2>1
      <4> HIDE DEF new
      <4>3. {p.offset : p \in flight'} = {p.offset : p \in flight} \cup {p.offset : p \in new}
        BY <4>2
      <4> QED
        BY <4>1, <4>3
    <3> QED
      BY <3>1, <3>2, <3>3
  <2> QED
    BY <2>1, <2>3, <2>4, <2>5 DEF Stream!Send
<1>6. CASE TransmitFin
  <2>1. /\ sent = Len(buf) /\ finQueued /\ ~finSent /\ finSent'
        /\ UNCHANGED <<buf, base, sent, finQueued, state, flight, written, forgotten>>
    BY <1>0, <1>6 DEF TransmitFin, HasTx, bufferVars
  <2>2. CASE state = "OPEN"
    <3>1. Status = "final" /\ Status' = "finished" /\ base + sent = written
      BY <1>0, <2>1, <2>2 DEF Status
    <3>2. Stream!Finish
      BY <2>1, <3>1 DEF Stream!Finish
    <3> QED
      BY <3>2 DEF Stream!Next
  <2>3. CASE state # "OPEN"
    <3>1. Status = "over" /\ Status' = "over"
      BY <2>1, <2>3 DEF Status
    <3> QED
      BY <2>1, <3>1 DEF Stream!vars
  <2> QED
    BY <2>2, <2>3
<1>7. ASSUME NEW first \in 0 .. MaxBytes, NEW last \in 0 .. MaxBytes, Ack(first, last)
      PROVE  Stream!Acknowledge
  <2>1. /\ Pending' \subseteq Pending /\ Pending' # Pending
        /\ state = "OPEN" /\ sent > 0
        /\ UNCHANGED <<finQueued, finSent, state, waiting, written>>
    BY <1>7, AckShrinksPending
  <2>2. Status # "over" /\ Status' = Status
    BY <2>1 DEF Status
  <2>3. CASE AckRecorded(first, last)
    <3>1. /\ UNCHANGED <<base, sent>>
          /\ ranges' = Inserted(Clipped(first, last)) /\ ~Covers(ranges')
          /\ (~forgotten') \in {~forgotten, FALSE}
      BY <1>0, <2>3 DEF AckRecorded, bufferVars
    <3>2. ~forgotten' => Pending' # {}
      <4> SUFFICES ASSUME ~forgotten', Pending' = {} PROVE FALSE
        OBVIOUS
      <4>1. flight' = {}
        BY DEF Pending
      <4>2. \E r \in ranges' : r.start <= base' /\ r.end >= base' + sent'
        <5>1. sent' > 0
          BY <2>1, <3>1
        <5> QED
          BY <4>1, <5>1, NothingLeftCovers
      <4> QED
        BY <3>1, <4>2 DEF Covers
    <3> QED
      BY <2>1, <2>2, <3>1, <3>2 DEF Stream!Acknowledge, Pending
  <2>4. CASE AckReclaims(first, last)
    <3>1. base' = base + sent /\ sent' = 0 /\ forgotten' = forgotten
      BY <2>4 DEF AckReclaims
    <3>2. Pending' = {}
      BY <1>7, <2>4, ReclaimsNothingLeft DEF Pending
    <3>3. base' + sent' = base + sent
      BY <1>0, <3>1
    <3> QED
      BY <2>1, <2>2, <3>1, <3>2, <3>3 DEF Stream!Acknowledge, Pending
  <2> QED
    BY <1>7, <2>3, <2>4 DEF Ack
<1>8. CASE UNCHANGED vars
  BY <1>8, Unseen DEF vars, bufferVars
<1> QED
  BY <1>1, <1>2, <1>3, <1>4, <1>5, <1>6, <1>7, <1>8 DEF Next, Stream!Next

\* The send side of a stream keeps the promise of SendStream, for every limit, every
\* capacity of the range table and every order of acknowledgements: the FIN is the last
\* thing that is sent, what may have to be sent again is kept, and is released with the
\* last acknowledgement unless a full table forgot one.
THEOREM PromiseKept == Spec => StreamPromise
<1>1. IInv /\ IInv' /\ FinLast /\ [Next]_vars => [Stream!Next]_(Stream!vars)
  BY StepKeepsPromise
<1> QED
  BY Invariance, FinLastInvariant, OpensStream, <1>1, PTL DEF Spec, StreamPromise, Stream!Spec

=============================================================================
