----------------------- MODULE HostNegotiationProofs -----------------------
(***************************************************************************)
(* Proofs about HostNegotiation, for any protocols, any buffer and any     *)
(* number of units on the wire.                                            *)
(***************************************************************************)
EXTENDS HostNegotiation, SequenceTheorems, TLAPS

-----------------------------------------------------------------------------
(***************************************************************************)
(* The inductive invariant.  What two hosts send each other is known from  *)
(* the start: it depends only on what one offers and what the other knows. *)
(***************************************************************************)

\* The frames of the outbound side, and the answers to them.
Offered == <<"multistream", offers[1], offers[2]>>
Answer(k) == IF k = 1 THEN "multistream" ELSE IF Offered[k] \in known THEN Offered[k] ELSE "na"

\* The number of frames before the first unit of a protocol.
Frames == IF offers[1] \in known THEN 2 ELSE 3

\* The units of each direction: two of each frame, then those of the protocol.
ToInUnits ==
    [i \in Nat |-> IF i <= 2 * Frames
                   THEN [msg |-> Offered[(i + 1) \div 2], n |-> IF i % 2 = 1 THEN 1 ELSE 2]
                   ELSE DataUnit(i - 2 * Frames)]
ToOutUnits ==
    [i \in Nat |-> IF i <= 2 * Frames
                   THEN [msg |-> Answer((i + 1) \div 2), n |-> IF i % 2 = 1 THEN 1 ELSE 2]
                   ELSE DataUnit(i - 2 * Frames)]

\* s holds the units of a direction that follow the first "base".
At(units, base, s) == \A i \in 1 .. Len(s) : s[i] = units[base + i]

\* The "total" units made so far are those the reader has consumed, then its
\* in_frame, the wire, and what is left of the writer's out_frame.
Pipe(units, base, inFrame, wire, frame, total) ==
    /\ At(units, base, inFrame)
    /\ At(units, base + Len(inFrame), wire)
    /\ At(units, base + Len(inFrame) + Len(wire), frame)
    /\ base + Len(inFrame) + Len(wire) + Len(frame) = total

\* The outbound side has turned to its fallback; the frame of its current offer; the
\* frames it has made and the frames it has taken.
Second == out.fallback # offers[2]
Try == IF Second THEN 3 ELSE 2
Made == IF out.neg = "OUT_SEND_MS" THEN IF out.frame = <<>> THEN 0 ELSE 1
        ELSE IF out.neg = "OUT_SEND_PROTOCOL" /\ out.frame = <<>> THEN Try - 1
        ELSE Try
Took == IF out.neg \in {Done, Failed} THEN Try
        ELSE IF Second THEN 2
        ELSE IF out.neg = "OUT_READ_PROTOCOL" THEN 1 ELSE 0

OutInv ==
    /\ out.neg \in OutStates \cup {Done, Failed}
    /\ out.protocol = Offered[Try]
    /\ Second =>
         /\ offers[2] # NoProtocol /\ out.fallback = NoProtocol /\ out.ready
         /\ offers[1] \notin known /\ out.neg \notin {"OUT_SEND_MS", "OUT_READ_MS"}
    /\ out.ready => Second \/ out.neg \notin {"OUT_SEND_MS", "OUT_SEND_PROTOCOL", "OUT_READ_MS"}
    /\ out.neg = "OUT_READ_PROTOCOL" => out.ready
    /\ out.neg \notin {"OUT_SEND_MS", "OUT_SEND_PROTOCOL"} => out.frame = <<>>
    /\ out.neg = Done => out.protocol \in known
    /\ out.neg = Failed => offers[1] \notin known /\ offers[2] \notin known
    /\ out.neg # Done => out.wrote = 0 /\ out.read = <<>>
    /\ reset => out.neg = Failed
    /\ ~fin

\* The inbound side has taken c frames.
InInv(c) ==
    /\ Took <= c /\ c <= Made
    /\ in.protocol = IF c >= 2 /\ Offered[c] \in known THEN Offered[c] ELSE NoProtocol
    /\ \/ in.neg = Failed /\ out.neg = Failed
       \/ c = 0 /\ in.neg = "IN_READ_MS"
       \/ c = 1 /\ in.neg \in {"IN_SEND_PROTOCOL", "IN_READ_PROTOCOL"}
       \/ c >= 2 /\ Offered[c] \in known /\ in.neg \in {"IN_SEND_PROTOCOL", Done}
       \/ c >= 2 /\ Offered[c] \notin known /\ in.neg \in {"IN_SEND_NA", "IN_READ_PROTOCOL"}
    /\ in.neg \in {"IN_READ_MS", "IN_READ_PROTOCOL", Done} => in.frame = <<>>
    /\ in.neg # Done => in.wrote = 0 /\ in.read = <<>>

\* What the protocols have read.
ReadsInv ==
    /\ \A i \in 1 .. Len(out.read) : out.read[i] = DataUnit(i)
    /\ \A i \in 1 .. Len(in.read) : in.read[i] = DataUnit(i)

Phase(c) ==
    /\ InInv(c)
    /\ Pipe(ToInUnits, 2 * c + Len(in.read), in.inFrame, toIn, out.frame, 2 * Made + out.wrote)
    /\ Pipe(ToOutUnits, 2 * Took + Len(out.read), out.inFrame, toOut, in.frame, 2 * c + in.wrote)

\* Whoever the inbound side talks to, its protocol is one it has.
Chosen == /\ in.protocol # NoProtocol => in.protocol \in known
          /\ in.neg = Done => in.protocol # NoProtocol

IInv ==
    /\ TypeOK /\ Chosen
    /\ remote = "host" => OutInv /\ ReadsInv /\ \E c \in 0 .. 3 : Phase(c)

-----------------------------------------------------------------------------
(***************************************************************************)
(* Parts of sequences.                                                     *)
(***************************************************************************)

LEMMA Capacity == InCapacity \in Nat /\ 0 <= InCapacity
<1>1. InCapacity \in Nat
  BY NegotiationAssumption
<1> QED
  BY <1>1

LEMMA Words == \A p \in Protocols : p \notin {"na", "ls", "bad length", "no newline", NoProtocol}
<1>1. Protocols \cap {"na", "ls", "bad length", "no newline", NoProtocol} = {}
  BY NegotiationAssumption
<1> QED
  BY <1>1

LEMMA Sums == \A c \in 0 .. 3, l \in Nat : 2 * c + l \in Nat
OBVIOUS

\* host_stream_read_message never reads more than in_frame can take.
LEMMA Room ==
    ASSUME NEW l \in Nat, NEW w \in Nat, NEW n \in 1 .. Min2(InCapacity - l, w), l <= InCapacity
    PROVE  n \in 0 .. w /\ l + n <= InCapacity
<1>1. InCapacity - l \in Int /\ n <= Min2(InCapacity - l, w) /\ n \in Nat
  BY Capacity DEF Min2
<1>2. n <= InCapacity - l /\ n <= w
  BY <1>1, Capacity DEF Min2
<1> QED
  BY <1>1, <1>2, Capacity

LEMMA Empties ==
    ASSUME NEW s \in Seq(Unit)
    PROVE  Len(s) \in Nat /\ (s = <<>> <=> Len(s) = 0)
BY LenProperties, EmptySeq

LEMMA Prefix ==
    ASSUME NEW s \in Seq(Unit), NEW k \in 0 .. Len(s)
    PROVE  /\ SubSeq(s, 1, k) \in Seq(Unit) /\ Len(SubSeq(s, 1, k)) = k
           /\ \A i \in 1 .. k : SubSeq(s, 1, k)[i] = s[i]
<1>1. Len(s) \in Nat /\ k \in Nat /\ 1 \in Int /\ k \in Int
  BY LenProperties
<1>2. \A i \in 1 .. k : s[i] \in Unit
  BY <1>1, ElementOfSeq
<1>3. /\ SubSeq(s, 1, k) \in Seq(Unit)
      /\ Len(SubSeq(s, 1, k)) = IF 1 <= k THEN k - 1 + 1 ELSE 0
      /\ \A i \in 1 .. k - 1 + 1 : SubSeq(s, 1, k)[i] = s[1 + i - 1]
  BY <1>1, <1>2, SubSeqProperties
<1>4. Len(SubSeq(s, 1, k)) = k
  BY <1>1, <1>3
<1>5. ASSUME NEW i \in 1 .. k PROVE SubSeq(s, 1, k)[i] = s[i]
  <2>1. i \in 1 .. k - 1 + 1 /\ 1 + i - 1 = i
    BY <1>1
  <2> QED
    BY <1>3, <2>1
<1> QED
  BY <1>3, <1>4, <1>5

LEMMA Suffix ==
    ASSUME NEW s \in Seq(Unit), NEW k \in 0 .. Len(s)
    PROVE  /\ SubSeq(s, k + 1, Len(s)) \in Seq(Unit)
           /\ Len(SubSeq(s, k + 1, Len(s))) = Len(s) - k
           /\ \A i \in 1 .. Len(s) - k : SubSeq(s, k + 1, Len(s))[i] = s[k + i]
<1>1. Len(s) \in Nat /\ k \in Nat /\ k + 1 \in Int /\ Len(s) \in Int
  BY LenProperties
<1>2. \A i \in k + 1 .. Len(s) : s[i] \in Unit
  BY <1>1, ElementOfSeq
<1>3. /\ SubSeq(s, k + 1, Len(s)) \in Seq(Unit)
      /\ Len(SubSeq(s, k + 1, Len(s))) =
            IF k + 1 <= Len(s) THEN Len(s) - (k + 1) + 1 ELSE 0
      /\ \A i \in 1 .. Len(s) - (k + 1) + 1 :
            SubSeq(s, k + 1, Len(s))[i] = s[(k + 1) + i - 1]
  BY <1>1, <1>2, SubSeqProperties
<1>4. Len(SubSeq(s, k + 1, Len(s))) = Len(s) - k
  BY <1>1, <1>3
<1>5. ASSUME NEW i \in 1 .. Len(s) - k PROVE SubSeq(s, k + 1, Len(s))[i] = s[k + i]
  <2>1. i \in 1 .. Len(s) - (k + 1) + 1 /\ (k + 1) + i - 1 = k + i
    BY <1>1
  <2> QED
    BY <1>3, <2>1
<1> QED
  BY <1>3, <1>4, <1>5

\* Positions in a direction stay what they are when a sequence is cut or joined.
LEMMA AtCut ==
    ASSUME NEW units, NEW base \in Nat, NEW s \in Seq(Unit), NEW k \in 0 .. Len(s),
           At(units, base, s)
    PROVE  /\ At(units, base, SubSeq(s, 1, k))
           /\ At(units, base + k, SubSeq(s, k + 1, Len(s)))
<1>1. Len(s) \in Nat /\ k \in Nat
  BY LenProperties
<1>2. At(units, base, SubSeq(s, 1, k))
  BY <1>1, Prefix DEF At
<1>3. ASSUME NEW i \in 1 .. Len(SubSeq(s, k + 1, Len(s)))
      PROVE  SubSeq(s, k + 1, Len(s))[i] = units[(base + k) + i]
  <2>1. i \in 1 .. Len(s) - k /\ SubSeq(s, k + 1, Len(s))[i] = s[k + i]
    BY <1>3, Suffix
  <2>2. k + i \in 1 .. Len(s) /\ base + (k + i) = (base + k) + i
    BY <1>1, <2>1
  <2>3. s[k + i] = units[base + (k + i)]
    BY <2>2 DEF At
  <2> QED
    BY <2>1, <2>2, <2>3
<1> QED
  BY <1>2, <1>3 DEF At

LEMMA AtJoin ==
    ASSUME NEW units, NEW base \in Nat, NEW s \in Seq(Unit), NEW t \in Seq(Unit),
           At(units, base, s), At(units, base + Len(s), t)
    PROVE  /\ s \o t \in Seq(Unit) /\ Len(s \o t) = Len(s) + Len(t)
           /\ At(units, base, s \o t)
<1>1. Len(s) \in Nat /\ Len(t) \in Nat
  BY LenProperties
<1>2. /\ s \o t \in Seq(Unit) /\ Len(s \o t) = Len(s) + Len(t)
      /\ \A i \in 1 .. Len(s) + Len(t) :
            (s \o t)[i] = IF i <= Len(s) THEN s[i] ELSE t[i - Len(s)]
  BY ConcatProperties
<1>3. ASSUME NEW i \in 1 .. Len(s \o t) PROVE (s \o t)[i] = units[base + i]
  <2>1. i \in 1 .. Len(s) + Len(t)
    BY <1>2
  <2>2. CASE i <= Len(s)
    <3>1. i \in 1 .. Len(s)
      BY <1>1, <2>1, <2>2
    <3> QED
      BY <1>2, <2>1, <2>2, <3>1 DEF At
  <2>3. CASE ~(i <= Len(s))
    <3>1. i - Len(s) \in 1 .. Len(t) /\ (base + Len(s)) + (i - Len(s)) = base + i
      BY <1>1, <2>1, <2>3
    <3>2. t[i - Len(s)] = units[(base + Len(s)) + (i - Len(s))]
      BY <3>1 DEF At
    <3> QED
      BY <1>2, <2>1, <2>3, <3>1, <3>2
  <2> QED
    BY <2>2, <2>3
<1> QED
  BY <1>2, <1>3 DEF At

LEMMA AtTail ==
    ASSUME NEW units, NEW base \in Nat, NEW s \in Seq(Unit), s # <<>>, At(units, base, s)
    PROVE  /\ Head(s) \in Unit /\ Head(s) = units[base + 1]
           /\ Tail(s) \in Seq(Unit) /\ Len(Tail(s)) = Len(s) - 1
           /\ At(units, base + 1, Tail(s))
<1>1. Len(s) \in Nat \ {0}
  BY EmptySeq
<1>2. /\ Head(s) \in Unit /\ Tail(s) \in Seq(Unit) /\ Len(Tail(s)) = Len(s) - 1
      /\ \A i \in 1 .. Len(Tail(s)) : Tail(s)[i] = s[i + 1]
  BY HeadTailProperties
<1>3. Head(s) = s[1] /\ s[1] = units[base + 1]
  BY <1>1 DEF At
<1>4. ASSUME NEW i \in 1 .. Len(Tail(s)) PROVE Tail(s)[i] = units[(base + 1) + i]
  <2>1. i + 1 \in 1 .. Len(s) /\ base + (i + 1) = (base + 1) + i
    BY <1>1, <1>2
  <2>2. s[i + 1] = units[base + (i + 1)]
    BY <2>1 DEF At
  <2> QED
    BY <1>2, <2>1, <2>2
<1> QED
  BY <1>2, <1>3, <1>4 DEF At

-----------------------------------------------------------------------------
(***************************************************************************)
(* What the steps of either side do to the units of a direction.           *)
(***************************************************************************)

\* host_stream_prepare_message
LEMMA PipeMake ==
    ASSUME NEW units, NEW base \in Nat, NEW total \in Nat,
           NEW s \in Seq(Unit), NEW w \in Seq(Unit), NEW f \in Seq(Unit),
           Pipe(units, base, s, w, <<>>, total), At(units, total, f)
    PROVE  Pipe(units, base, s, w, f, total + Len(f))
<1>1. Len(s) \in Nat /\ Len(w) \in Nat /\ Len(f) \in Nat /\ Len(<<>>) = 0
  BY LenProperties, EmptySeq
<1>2. base + Len(s) + Len(w) = total
  BY <1>1 DEF Pipe
<1> QED
  BY <1>1, <1>2 DEF Pipe

\* host_stream_send_prepared
LEMMA PipeSend ==
    ASSUME NEW units, NEW base \in Nat, NEW total \in Nat,
           NEW s \in Seq(Unit), NEW w \in Seq(Unit), NEW f \in Seq(Unit),
           NEW k \in 0 .. Len(f), Pipe(units, base, s, w, f, total)
    PROVE  /\ w \o Accepted(f, k) \in Seq(Unit)
           /\ Sent(f, k) \in Seq(Unit) /\ Len(Sent(f, k)) = Len(f) - k
           /\ Pipe(units, base, s, w \o Accepted(f, k), Sent(f, k), total)
<1>1. Len(s) \in Nat /\ Len(w) \in Nat /\ Len(f) \in Nat /\ base + Len(s) \in Nat
  BY LenProperties
<1>2. /\ At(units, base + Len(s), w) /\ At(units, base + Len(s) + Len(w), f)
      /\ base + Len(s) + Len(w) \in Nat
  BY <1>1 DEF Pipe
<1>3. /\ At(units, base + Len(s) + Len(w), SubSeq(f, 1, k))
      /\ At(units, base + Len(s) + Len(w) + k, SubSeq(f, k + 1, Len(f)))
  BY <1>2, AtCut
<1>4. /\ SubSeq(f, 1, k) \in Seq(Unit) /\ Len(SubSeq(f, 1, k)) = k
      /\ SubSeq(f, k + 1, Len(f)) \in Seq(Unit) /\ Len(SubSeq(f, k + 1, Len(f))) = Len(f) - k
  BY Prefix, Suffix
<1>5. /\ w \o SubSeq(f, 1, k) \in Seq(Unit) /\ Len(w \o SubSeq(f, 1, k)) = Len(w) + k
      /\ At(units, base + Len(s), w \o SubSeq(f, 1, k))
  <2> DEFINE a == SubSeq(f, 1, k)
  <2>1. a \in Seq(Unit) /\ Len(a) = k /\ At(units, base + Len(s) + Len(w), a)
    BY <1>3, <1>4
  <2> HIDE DEF a
  <2>2. /\ w \o a \in Seq(Unit) /\ Len(w \o a) = Len(w) + Len(a)
        /\ At(units, base + Len(s), w \o a)
    BY <1>1, <1>2, <2>1, AtJoin, Zenon
  <2> QED
    BY <2>1, <2>2, Zenon DEF a
<1>6. base + Len(s) + Len(w) + k = base + Len(s) + (Len(w) + k)
      /\ base + Len(s) + (Len(w) + k) + (Len(f) - k) = total
  BY <1>1 DEF Pipe
<1> QED
  BY <1>3, <1>4, <1>5, <1>6 DEF Pipe, Accepted, Sent

\* host_stream_read_message
LEMMA PipeRead ==
    ASSUME NEW units, NEW base \in Nat, NEW total \in Nat,
           NEW s \in Seq(Unit), NEW w \in Seq(Unit), NEW f \in Seq(Unit),
           NEW n \in 0 .. Len(w), Pipe(units, base, s, w, f, total)
    PROVE  /\ s \o Accepted(w, n) \in Seq(Unit) /\ Len(s \o Accepted(w, n)) = Len(s) + n
           /\ Sent(w, n) \in Seq(Unit)
           /\ Pipe(units, base, s \o Accepted(w, n), Sent(w, n), f, total)
<1>1. Len(s) \in Nat /\ Len(w) \in Nat /\ Len(f) \in Nat /\ base + Len(s) \in Nat
  BY LenProperties
<1>2. /\ At(units, base, s) /\ At(units, base + Len(s), w)
      /\ At(units, base + Len(s) + Len(w), f)
  BY DEF Pipe
<1>3. /\ At(units, base + Len(s), SubSeq(w, 1, n))
      /\ At(units, base + Len(s) + n, SubSeq(w, n + 1, Len(w)))
  BY <1>1, <1>2, AtCut
<1>4. /\ SubSeq(w, 1, n) \in Seq(Unit) /\ Len(SubSeq(w, 1, n)) = n
      /\ SubSeq(w, n + 1, Len(w)) \in Seq(Unit) /\ Len(SubSeq(w, n + 1, Len(w))) = Len(w) - n
  BY Prefix, Suffix
<1>5. /\ s \o SubSeq(w, 1, n) \in Seq(Unit) /\ Len(s \o SubSeq(w, 1, n)) = Len(s) + n
      /\ At(units, base, s \o SubSeq(w, 1, n))
  <2> DEFINE a == SubSeq(w, 1, n)
  <2>1. a \in Seq(Unit) /\ Len(a) = n /\ At(units, base + Len(s), a)
    BY <1>3, <1>4
  <2> HIDE DEF a
  <2>2. /\ s \o a \in Seq(Unit) /\ Len(s \o a) = Len(s) + Len(a)
        /\ At(units, base, s \o a)
    BY <1>2, <2>1, AtJoin, Zenon
  <2> QED
    BY <2>1, <2>2, Zenon DEF a
<1>6. /\ base + Len(s) + n = base + (Len(s) + n)
      /\ base + (Len(s) + n) + (Len(w) - n) = base + Len(s) + Len(w)
  BY <1>1
<1>7. base + (Len(s) + n) + (Len(w) - n) + Len(f) = total
  BY <1>1 DEF Pipe
<1> QED
  BY <1>2, <1>3, <1>4, <1>5, <1>6, <1>7 DEF Pipe, Accepted, Sent

\* A frame that was decoded leaves in_frame.
LEMMA PipeTake ==
    ASSUME NEW units, NEW base \in Nat, NEW total \in Nat,
           NEW s \in Seq(Unit), NEW w \in Seq(Unit), NEW f \in Seq(Unit),
           Len(s) >= 2, Pipe(units, base, s, w, f, total)
    PROVE  /\ s[1] = units[base + 1] /\ base + 2 <= total
           /\ Rest(s) \in Seq(Unit) /\ Len(Rest(s)) = Len(s) - 2
           /\ Pipe(units, base + 2, Rest(s), w, f, total)
<1>1. Len(s) \in Nat /\ Len(w) \in Nat /\ Len(f) \in Nat /\ 2 \in 0 .. Len(s) /\ 1 \in 1 .. Len(s)
  BY LenProperties
<1>2. /\ At(units, base, s) /\ At(units, base + Len(s), w)
      /\ At(units, base + Len(s) + Len(w), f)
      /\ base + Len(s) + Len(w) + Len(f) = total
  BY DEF Pipe
<1>3. s[1] = units[base + 1]
  BY <1>1, <1>2 DEF At
<1>4. Rest(s) = SubSeq(s, 2 + 1, Len(s))
  BY DEF Rest
<1>5. Rest(s) \in Seq(Unit) /\ Len(Rest(s)) = Len(s) - 2 /\ At(units, base + 2, Rest(s))
  BY <1>1, <1>2, <1>4, Suffix, AtCut
<1>6. /\ base + 2 + (Len(s) - 2) = base + Len(s) /\ base + 2 <= total
  BY <1>1, <1>2
<1> QED
  BY <1>2, <1>3, <1>5, <1>6 DEF Pipe

\* libp2p_host_stream_write
LEMMA PipeWrite ==
    ASSUME NEW units, NEW base \in Nat, NEW total \in Nat,
           NEW s \in Seq(Unit), NEW w \in Seq(Unit), NEW e \in Unit,
           Pipe(units, base, s, w, <<>>, total), e = units[total + 1]
    PROVE  /\ Append(w, e) \in Seq(Unit)
           /\ Pipe(units, base, s, Append(w, e), <<>>, total + 1)
<1>1. Len(s) \in Nat /\ Len(w) \in Nat /\ Len(<<>>) = 0 /\ base + Len(s) + Len(w) = total
  BY LenProperties, EmptySeq DEF Pipe
<1>2. /\ Append(w, e) \in Seq(Unit) /\ Len(Append(w, e)) = Len(w) + 1
      /\ \A i \in 1 .. Len(w) : Append(w, e)[i] = w[i]
      /\ Append(w, e)[Len(w) + 1] = e
  BY AppendProperties
<1>3. ASSUME NEW i \in 1 .. Len(Append(w, e))
      PROVE  Append(w, e)[i] = units[base + Len(s) + i]
  <2>1. i \in 1 .. Len(w) \/ i = Len(w) + 1
    BY <1>1, <1>2
  <2>2. CASE i \in 1 .. Len(w)
    BY <1>2, <2>2 DEF Pipe, At
  <2>3. CASE i = Len(w) + 1
    <3>1. base + Len(s) + i = total + 1
      BY <1>1, <2>3
    <3> QED
      BY <1>2, <2>3, <3>1
  <2> QED
    BY <2>1, <2>2, <2>3
<1>4. /\ At(units, base, s) /\ At(units, base + Len(s), Append(w, e))
      /\ At(units, base + Len(s) + Len(Append(w, e)), <<>>)
  BY <1>1, <1>3 DEF Pipe, At
<1> QED
  BY <1>1, <1>2, <1>4 DEF Pipe

\* libp2p_host_stream_read, from in_frame or from the wire.
LEMMA PipeConsume ==
    ASSUME NEW units, NEW base \in Nat, NEW total \in Nat,
           NEW s \in Seq(Unit), NEW w \in Seq(Unit), NEW f \in Seq(Unit),
           Pipe(units, base, s, w, f, total)
    PROVE  /\ s # <<>> =>
                /\ Head(s) \in Unit /\ Head(s) = units[base + 1]
                /\ Tail(s) \in Seq(Unit) /\ Len(Tail(s)) = Len(s) - 1
                /\ Pipe(units, base + 1, Tail(s), w, f, total)
           /\ s = <<>> /\ w # <<>> =>
                /\ Head(w) \in Unit /\ Head(w) = units[base + 1]
                /\ Tail(w) \in Seq(Unit)
                /\ Pipe(units, base + 1, s, Tail(w), f, total)
<1>1. /\ Len(s) \in Nat /\ Len(w) \in Nat /\ Len(f) \in Nat /\ Len(<<>>) = 0
      /\ base + Len(s) \in Nat /\ base + Len(s) + Len(w) + Len(f) = total
  BY LenProperties, EmptySeq DEF Pipe
<1>2. /\ At(units, base, s) /\ At(units, base + Len(s), w)
      /\ At(units, base + Len(s) + Len(w), f)
  BY DEF Pipe
<1>3. CASE s # <<>>
  <2>1. /\ Head(s) \in Unit /\ Head(s) = units[base + 1]
        /\ Tail(s) \in Seq(Unit) /\ Len(Tail(s)) = Len(s) - 1
        /\ At(units, base + 1, Tail(s))
    BY <1>2, <1>3, AtTail
  <2>2. base + 1 + (Len(s) - 1) = base + Len(s)
    BY <1>1
  <2> QED
    BY <1>1, <1>2, <1>3, <2>1, <2>2 DEF Pipe
<1>4. CASE s = <<>> /\ w # <<>>
  <2>1. base + Len(s) = base
    BY <1>1, <1>4
  <2>2. /\ Head(w) \in Unit /\ Head(w) = units[base + 1]
        /\ Tail(w) \in Seq(Unit) /\ Len(Tail(w)) = Len(w) - 1
        /\ At(units, base + 1, Tail(w))
    BY <1>2, <1>4, <2>1, AtTail
  <2>3. base + 1 + Len(s) = base + 1 /\ base + 1 + Len(s) + (Len(w) - 1) = base + Len(s) + Len(w)
    BY <1>1, <2>1
  <2>4. At(units, base + 1, s)
    BY <1>1, <1>4 DEF At
  <2> QED
    BY <1>1, <1>2, <1>4, <2>2, <2>3, <2>4 DEF Pipe
<1> QED
  BY <1>3, <1>4

-----------------------------------------------------------------------------
(***************************************************************************)
(* The units of the two directions.                                        *)
(***************************************************************************)

LEMMA FrameIs ==
    ASSUME NEW m \in Messages
    PROVE  Frame(m) \in Seq(Unit) /\ Len(Frame(m)) = 2
<1>1. [msg |-> m, n |-> 1] \in Unit /\ [msg |-> m, n |-> 2] \in Unit
  BY DEF Unit
<1> QED
  BY <1>1 DEF Frame

LEMMA FrameAt ==
    ASSUME NEW units, NEW m, NEW base \in Nat,
           units[base + 1] = [msg |-> m, n |-> 1], units[base + 2] = [msg |-> m, n |-> 2]
    PROVE  At(units, base, Frame(m))
<1>1. Len(Frame(m)) = 2 /\ Frame(m)[1] = [msg |-> m, n |-> 1] /\ Frame(m)[2] = [msg |-> m, n |-> 2]
  BY DEF Frame
<1>2. \A i \in 1 .. Len(Frame(m)) : i = 1 \/ i = 2
  BY <1>1
<1> QED
  BY <1>1, <1>2 DEF At

LEMMA FramesAre ==
    /\ Frames \in {2, 3}
    /\ \A k \in 1 .. Frames :
         /\ 2 * (k - 1) \in Nat
         /\ At(ToInUnits, 2 * (k - 1), Frame(Offered[k]))
         /\ ToInUnits[2 * (k - 1) + 1].msg = Offered[k]
         /\ At(ToOutUnits, 2 * (k - 1), Frame(Answer(k)))
         /\ ToOutUnits[2 * (k - 1) + 1].msg = Answer(k)
<1>1. Frames \in {2, 3}
  BY DEF Frames
<1>2. ASSUME NEW k \in 1 .. Frames
      PROVE  /\ 2 * (k - 1) \in Nat
             /\ ToInUnits[2 * (k - 1) + 1] = [msg |-> Offered[k], n |-> 1]
             /\ ToInUnits[2 * (k - 1) + 2] = [msg |-> Offered[k], n |-> 2]
             /\ ToOutUnits[2 * (k - 1) + 1] = [msg |-> Answer(k), n |-> 1]
             /\ ToOutUnits[2 * (k - 1) + 2] = [msg |-> Answer(k), n |-> 2]
  <2> DEFINE i == 2 * (k - 1) + 1
             j == 2 * (k - 1) + 2
  <2>1. i \in Nat /\ i <= 2 * Frames /\ (i + 1) \div 2 = k /\ i % 2 = 1 /\ 2 * (k - 1) \in Nat
    BY <1>1
  <2>2. j \in Nat /\ j <= 2 * Frames /\ (j + 1) \div 2 = k /\ j % 2 # 1
    BY <1>1
  <2> HIDE DEF i, j
  <2>3. ToInUnits[i] = [msg |-> Offered[k], n |-> 1] /\ ToOutUnits[i] = [msg |-> Answer(k), n |-> 1]
    BY <2>1 DEF ToInUnits, ToOutUnits
  <2>4. ToInUnits[j] = [msg |-> Offered[k], n |-> 2] /\ ToOutUnits[j] = [msg |-> Answer(k), n |-> 2]
    BY <2>2 DEF ToInUnits, ToOutUnits
  <2> QED
    BY <2>1, <2>3, <2>4 DEF i, j
<1>3. ASSUME NEW k \in 1 .. Frames
      PROVE  /\ At(ToInUnits, 2 * (k - 1), Frame(Offered[k]))
             /\ At(ToOutUnits, 2 * (k - 1), Frame(Answer(k)))
  BY <1>2, FrameAt
<1>4. ASSUME NEW k \in 1 .. Frames
      PROVE  /\ ToInUnits[2 * (k - 1) + 1].msg = Offered[k]
             /\ ToOutUnits[2 * (k - 1) + 1].msg = Answer(k)
  <2>1. /\ ToInUnits[2 * (k - 1) + 1] = [msg |-> Offered[k], n |-> 1]
        /\ ToOutUnits[2 * (k - 1) + 1] = [msg |-> Answer(k), n |-> 1]
    BY <1>2, Zenon
  <2>2. \A x : [msg |-> x, n |-> 1].msg = x
    OBVIOUS
  <2> QED
    BY <2>1, <2>2, Zenon
<1> QED
  BY <1>1, <1>2, <1>3, <1>4, Zenon

LEMMA DataAre ==
    \A i \in Nat \ {0} : /\ ToInUnits[2 * Frames + i] = DataUnit(i)
                         /\ ToOutUnits[2 * Frames + i] = DataUnit(i)
<1>1. Frames \in {2, 3}
  BY DEF Frames
<1>2. ASSUME NEW i \in Nat \ {0}
      PROVE  /\ ToInUnits[2 * Frames + i] = DataUnit(i)
             /\ ToOutUnits[2 * Frames + i] = DataUnit(i)
  <2> DEFINE j == 2 * Frames + i
  <2>1. j \in Nat /\ ~(j <= 2 * Frames) /\ j - 2 * Frames = i
    BY <1>1
  <2> HIDE DEF j
  <2>2. ToInUnits[j] = DataUnit(i) /\ ToOutUnits[j] = DataUnit(i)
    BY <2>1 DEF ToInUnits, ToOutUnits
  <2> QED
    BY <2>2 DEF j
<1> QED
  BY <1>2

\* No host sends a list request or something malformed.
LEMMA WellFormed ==
    ASSUME offers \in Protocols \X (Protocols \cup {NoProtocol}), NEW i \in Nat \ {0}
    PROVE  ToInUnits[i].msg \notin {"ls", "bad length", "no newline"}
<1>1. CASE i <= 2 * Frames
  <2>1. (i + 1) \div 2 \in 1 .. 3
    BY <1>1 DEF Frames
  <2>2. Offered[(i + 1) \div 2] \in Protocols \cup {NoProtocol, "multistream"}
    BY <2>1 DEF Offered
  <2>3. ToInUnits[i].msg = Offered[(i + 1) \div 2]
    BY <1>1 DEF ToInUnits
  <2> QED
    BY <2>2, <2>3, Words DEF NoProtocol
<1>2. CASE ~(i <= 2 * Frames)
  BY <1>2 DEF ToInUnits, DataUnit
<1> QED
  BY <1>1, <1>2

\* What is known and what is offered do not change.
LEMMA Rigid ==
    ASSUME known' = known, offers' = offers
    PROVE  /\ Offered' = Offered /\ Frames' = Frames
           /\ ToInUnits' = ToInUnits /\ ToOutUnits' = ToOutUnits
BY DEF Offered, Frames, Answer, ToInUnits, ToOutUnits

\* What the outbound side has made and taken.
LEMMA Counts ==
    ASSUME IInv, remote = "host"
    PROVE  /\ Try \in {2, 3} /\ Try <= Frames /\ Made \in 0 .. Try /\ Took \in 0 .. Try
           /\ Offered[1] = "multistream" /\ Offered[2] = offers[1] /\ Offered[3] = offers[2]
           /\ Offered[Try] = out.protocol /\ out.protocol \in Protocols
           /\ out.neg = Done => Frames = Try
           /\ Frames = IF Offered[2] \in known THEN 2 ELSE 3
<1>1. TypeOK /\ OutInv
  BY DEF IInv
<1>2. Offered[1] = "multistream" /\ Offered[2] = offers[1] /\ Offered[3] = offers[2]
  BY DEF Offered
<1>3. Try \in {2, 3} /\ (Second => Try = 3) /\ (~Second => Try = 2)
  BY DEF Try
<1>4. Made \in 0 .. Try /\ Took \in 0 .. Try
  BY <1>3 DEF Made, Took
<1>5. Try <= Frames /\ (out.neg = Done => Frames = Try)
  BY <1>1, <1>2, <1>3 DEF OutInv, Frames
<1>6. Offered[Try] = out.protocol /\ out.protocol \in Protocols
  BY <1>1, <1>2, <1>3 DEF OutInv, TypeOK
<1> QED
  BY <1>2, <1>3, <1>4, <1>5, <1>6 DEF Frames

LEMMA Typed ==
    ASSUME TypeOK
    PROVE  /\ out \in Side /\ in \in Side
           /\ out.inFrame \in Seq(Unit) /\ in.inFrame \in Seq(Unit)
           /\ out.frame \in Seq(Unit) /\ in.frame \in Seq(Unit)
           /\ out.read \in Seq(Unit) /\ in.read \in Seq(Unit)
           /\ toIn \in Seq(Unit) /\ toOut \in Seq(Unit)
           /\ Len(out.inFrame) \in Nat /\ Len(in.inFrame) \in Nat
           /\ Len(out.frame) \in Nat /\ Len(in.frame) \in Nat
           /\ Len(out.read) \in Nat /\ Len(in.read) \in Nat
           /\ Len(toIn) \in Nat /\ Len(toOut) \in Nat
           /\ out.wrote \in Nat /\ in.wrote \in Nat
           /\ Len(out.inFrame) <= InCapacity /\ Len(in.inFrame) <= InCapacity
<1>1. /\ out \in Side /\ in \in Side
      /\ toIn \in Seq(Unit) /\ toOut \in Seq(Unit)
      /\ Len(out.inFrame) <= InCapacity /\ Len(in.inFrame) <= InCapacity
  BY DEF TypeOK
<1>2. /\ out.inFrame \in Seq(Unit) /\ in.inFrame \in Seq(Unit)
      /\ out.frame \in Seq(Unit) /\ in.frame \in Seq(Unit)
      /\ out.read \in Seq(Unit) /\ in.read \in Seq(Unit)
      /\ out.wrote \in Nat /\ in.wrote \in Nat
  BY <1>1 DEF Side
<1> QED
  BY <1>1, <1>2, LenProperties

-----------------------------------------------------------------------------
(***************************************************************************)
(* The beginning, and the outbound side.                                   *)
(***************************************************************************)

LEMMA InitInvariant == Init => IInv
<1> SUFFICES ASSUME Init PROVE IInv
  OBVIOUS
<1>1. /\ offers \in Protocols \X (Protocols \cup {NoProtocol})
      /\ out = Fresh("OUT_SEND_MS", offers[1], offers[2])
      /\ in = Fresh("IN_READ_MS", NoProtocol, NoProtocol)
      /\ toIn = <<>> /\ toOut = <<>> /\ fin = FALSE /\ reset = FALSE
      /\ known \subseteq Protocols /\ remote \in {"host", "other"}
  BY DEF Init
<1>2. <<>> \in Seq(Unit) /\ Len(<<>>) = 0
  BY EmptySeq
<1>3. /\ out.neg = "OUT_SEND_MS" /\ out.protocol = offers[1] /\ out.fallback = offers[2]
      /\ out.frame = <<>> /\ out.inFrame = <<>> /\ out.wrote = 0 /\ out.read = <<>>
      /\ in.neg = "IN_READ_MS" /\ in.protocol = NoProtocol
      /\ in.frame = <<>> /\ in.inFrame = <<>> /\ in.wrote = 0 /\ in.read = <<>>
  BY <1>1 DEF Fresh
<1>4. ~out.ready
  BY <1>1 DEF Fresh
<1>5. TypeOK
  <2>1. out \in Side /\ in \in Side
    BY <1>1, <1>2 DEF Fresh, Side, OutStates, InStates
  <2>2. \A side \in {out, in} : Len(side.inFrame) <= InCapacity
    <3>1. Len(out.inFrame) = 0 /\ Len(in.inFrame) = 0
      BY <1>2, <1>3
    <3> QED
      BY <3>1, Capacity, Zenon
  <2> QED
    BY <1>1, <1>2, <2>1, <2>2 DEF TypeOK
<1>6. Chosen
  BY <1>3 DEF Chosen, Done
<1>7. Try = 2 /\ ~Second /\ Made = 0 /\ Took = 0
  BY <1>3 DEF Try, Second, Made, Took, Done, Failed
<1>8. OutInv
  BY <1>1, <1>3, <1>4, <1>7 DEF OutInv, OutStates, Done, Failed, Offered
<1>9. ReadsInv
  BY <1>2, <1>3 DEF ReadsInv
<1>10. InInv(0)
  BY <1>3, <1>7 DEF InInv, Done
<1>11. \A units : Pipe(units, 0, <<>>, <<>>, <<>>, 0)
  BY <1>2 DEF Pipe, At
<1>12. Phase(0)
  <2>1. 2 * 0 + Len(in.read) = 0 /\ 2 * Took + Len(out.read) = 0
        /\ 2 * Made + out.wrote = 0 /\ 2 * 0 + in.wrote = 0
    BY <1>2, <1>3, <1>7
  <2> QED
    BY <1>1, <1>3, <1>10, <1>11, <2>1 DEF Phase
<1> QED
  BY <1>5, <1>6, <1>8, <1>9, <1>12 DEF IInv

\* OUT_SEND_MS and OUT_SEND_PROTOCOL: a frame is made if none is under way, and a
\* part of it goes on the wire.
LEMMA OutWritesKeeps ==
    ASSUME IInv, remote = "host", NEW m, NEW then, NEW k \in Nat, OutWrites(m, k, then),
           \/ /\ out.neg = "OUT_SEND_MS" /\ m = "multistream" /\ then = "OUT_SEND_PROTOCOL"
           \/ /\ out.neg = "OUT_SEND_PROTOCOL" /\ m = out.protocol
              /\ then = IF out.ready THEN "OUT_READ_PROTOCOL" ELSE "OUT_READ_MS"
    PROVE  IInv'
<1> DEFINE f == OutFrame(m)
           n == IF out.neg = "OUT_SEND_MS" THEN 1 ELSE Try
<1>1. TypeOK /\ Chosen /\ OutInv /\ ReadsInv
  BY DEF IInv
<1>2. PICK c \in 0 .. 3 : Phase(c)
  BY DEF IInv
<1>3. /\ k \in 1 .. Len(f) /\ toIn' = toIn \o Accepted(f, k)
      /\ out' = [out EXCEPT !.frame = Sent(f, k), !.neg = IF k = Len(f) THEN then ELSE out.neg]
      /\ UNCHANGED <<known, offers, remote, fin, in, toOut, reset>>
  BY DEF OutWrites
<1>4. /\ n \in 1 .. Frames /\ Offered[n] = m /\ m \in Messages
      /\ (out.frame = <<>> => Made = n - 1) /\ (out.frame # <<>> => Made = n)
  <2>1. CASE out.neg = "OUT_SEND_MS"
    BY <2>1, Counts DEF Made, Messages
  <2>2. CASE out.neg = "OUT_SEND_PROTOCOL"
    <3>1. n = Try /\ n \in 1 .. Frames
      BY <2>2, Counts, FramesAre
    <3>2. (out.frame = <<>> => Made = n - 1) /\ (out.frame # <<>> => Made = n)
      BY <2>2, <3>1 DEF Made
    <3>3. Offered[n] = m /\ m \in Messages
      BY <2>2, <3>1, Counts DEF Messages
    <3> QED
      BY <3>1, <3>2, <3>3
  <2> QED
    BY <2>1, <2>2
<1>5. /\ f \in Seq(Unit)
      /\ out.frame = <<>> => f = Frame(m) /\ Len(f) = 2
      /\ out.frame # <<>> => f = out.frame
  BY <1>1, <1>4, FrameIs, Typed DEF OutFrame
<1>6. out.wrote = 0 /\ Len(in.read) \in Nat /\ 2 * c + Len(in.read) \in Nat
  <2>1. out.wrote = 0
    BY <1>1 DEF OutInv, Done
  <2>2. Len(in.read) \in Nat
    BY <1>1, Typed
  <2> QED
    BY <1>2, <2>1, <2>2, Sums, Zenon
<1> HIDE DEF f, n
<1>7. Pipe(ToInUnits, 2 * c + Len(in.read), in.inFrame, toIn, f, 2 * n)
  <2>1. CASE out.frame = <<>>
    <3>1. n \in Nat /\ 2 * (n - 1) \in Nat /\ 2 * Made + out.wrote = 2 * (n - 1)
          /\ 2 * (n - 1) + 2 = 2 * n
      BY <1>4, <1>6, <2>1, FramesAre
    <3>2. At(ToInUnits, 2 * (n - 1), f)
      BY <1>4, <1>5, <2>1, FramesAre
    <3>3. Pipe(ToInUnits, 2 * c + Len(in.read), in.inFrame, toIn, <<>>, 2 * (n - 1))
      BY <1>2, <2>1, <3>1 DEF Phase
    <3>4. Pipe(ToInUnits, 2 * c + Len(in.read), in.inFrame, toIn, f, 2 * (n - 1) + Len(f))
      BY <1>1, <1>5, <1>6, <3>1, <3>2, <3>3, PipeMake, Typed
    <3> QED
      BY <1>5, <2>1, <3>1, <3>4
  <2>2. CASE out.frame # <<>>
    <3>1. 2 * Made + out.wrote = 2 * n /\ f = out.frame
      BY <1>4, <1>5, <1>6, <2>2, FramesAre
    <3> QED
      BY <1>2, <3>1 DEF Phase
  <2> QED
    BY <2>1, <2>2
<1>8. /\ toIn' \in Seq(Unit) /\ Sent(f, k) \in Seq(Unit) /\ Len(Sent(f, k)) = Len(f) - k
      /\ Pipe(ToInUnits, 2 * c + Len(in.read), in.inFrame, toIn', Sent(f, k), 2 * n)
  <2>1. k \in 0 .. Len(f) /\ 2 * n \in Nat
    BY <1>3, <1>4, <1>5, FramesAre, LenProperties
  <2> QED
    BY <1>1, <1>3, <1>5, <1>6, <1>7, <2>1, PipeSend, Typed
<1>9. /\ then \in OutStates
      /\ out'.frame = Sent(f, k) /\ out'.neg = (IF k = Len(f) THEN then ELSE out.neg)
      /\ out'.protocol = out.protocol /\ out'.fallback = out.fallback
      /\ out'.inFrame = out.inFrame /\ out'.wrote = out.wrote /\ out'.read = out.read
      /\ out' \in Side
  <2>1. then \in OutStates
    BY DEF OutStates
  <2> QED
    BY <1>1, <1>3, <1>8, <2>1, Typed DEF Side
<1>10. out'.ready = out.ready /\ out.ready \in BOOLEAN
  BY <1>1, <1>3, Typed DEF Side
<1>11. TypeOK'
  BY <1>1, <1>3, <1>8, <1>9, Typed DEF TypeOK
<1>12. Chosen'
  BY <1>1, <1>3 DEF Chosen
<1>13. /\ Len(f) \in Nat
       /\ k = Len(f) => out'.frame = <<>> /\ out'.neg = then
       /\ k # Len(f) => out'.frame # <<>> /\ out'.neg = out.neg
  <2>1. Len(f) \in Nat
    BY <1>5, LenProperties
  <2>2. out'.frame = <<>> <=> Len(f) - k = 0
    BY <1>8, <1>9, Empties
  <2> QED
    BY <1>3, <1>9, <2>1, <2>2
<1>14. Second' = Second /\ Try' = Try /\ Offered' = Offered
  BY <1>3, <1>9, Rigid DEF Second, Try
<1>15. Made' = n
  <2>1. CASE out.neg = "OUT_SEND_MS"
    <3>1. ~Second /\ Try = 2
      BY <1>1, <2>1 DEF OutInv, Try
    <3> QED
      BY <1>13, <1>14, <2>1, <3>1 DEF Made, n
  <2>2. CASE out.neg = "OUT_SEND_PROTOCOL"
    BY <1>13, <1>14, <2>2 DEF Made, n
  <2> QED
    BY <2>1, <2>2
<1>16. Took' = Took
  <2>1. CASE out.neg = "OUT_SEND_MS"
    BY <1>1, <1>13, <1>14, <2>1 DEF Took, OutInv, Done, Failed
  <2>2. CASE out.neg = "OUT_SEND_PROTOCOL"
    BY <1>1, <1>13, <1>14, <2>2 DEF Took, OutInv, Done, Failed
  <2> QED
    BY <2>1, <2>2
<1>17. OutInv'
  <2>1. out'.neg \in OutStates /\ out'.neg # Done /\ out'.neg # Failed
    BY <1>9, <1>13 DEF OutStates, Done, Failed
  <2>2. out'.neg \notin {"OUT_SEND_MS", "OUT_SEND_PROTOCOL"} => out'.frame = <<>>
    BY <1>13
  <2>3. Second' => out'.neg \notin {"OUT_SEND_MS", "OUT_READ_MS"}
    BY <1>1, <1>13, <1>14 DEF OutInv
  <2>4. out.ready => Second
    BY <1>1 DEF OutInv
  <2>5. out'.protocol = Offered'[Try']
    BY <1>1, <1>9, <1>14 DEF OutInv
  <2>6. ~reset /\ ~fin /\ out.neg # Done
    BY <1>1 DEF OutInv, Failed, Done
  <2>7. out'.neg = "OUT_READ_PROTOCOL" => out.ready
    BY <1>13
  <2> QED
    BY <1>1, <1>3, <1>9, <1>10, <1>14, <2>1, <2>2, <2>3, <2>4, <2>5, <2>6, <2>7 DEF OutInv
<1>18. ReadsInv'
  BY <1>1, <1>3, <1>9 DEF ReadsInv
<1>19. InInv(c)'
  <2>1. InInv(c) /\ out.neg # Failed /\ c <= Made' /\ Took' <= c
    BY <1>2, <1>4, <1>15, <1>16, FramesAre DEF Phase, InInv, Failed
  <2> QED
    BY <1>3, <1>14, <2>1 DEF InInv
<1>20. Phase(c)'
  <2>1. Pipe(ToInUnits, 2 * c + Len(in.read), in.inFrame, toIn', out'.frame, 2 * Made' + out'.wrote)
    <3>1. 2 * Made' + out'.wrote = 2 * n
      BY <1>4, <1>6, <1>9, <1>15, FramesAre
    <3> QED
      BY <1>8, <1>9, <3>1
  <2>2. Pipe(ToOutUnits, 2 * Took' + Len(out'.read), out'.inFrame, toOut, in.frame, 2 * c + in.wrote)
    BY <1>2, <1>9, <1>16 DEF Phase
  <2> QED
    BY <1>3, <1>19, <2>1, <2>2, Rigid DEF Phase
<1> QED
  BY <1>11, <1>12, <1>17, <1>18, <1>20 DEF IInv

\* Either side of host_stream_read_message leaves the counts alone.
LEMMA OutReadKeeps ==
    ASSUME IInv, NEW n \in Nat, OutRead(n)
    PROVE  IInv'
<1>1. /\ TypeOK /\ Chosen /\ remote = "host" /\ OutInv /\ ReadsInv
      /\ out.neg \in {"OUT_READ_MS", "OUT_READ_PROTOCOL"}
  BY DEF IInv, OutRead, OutTurn
<1>2. PICK c \in 0 .. 3 : Phase(c)
  BY <1>1 DEF IInv
<1>3. /\ MayRead(out, toOut, n)
      /\ out' = [out EXCEPT !.inFrame = out.inFrame \o SubSeq(toOut, 1, n)]
      /\ toOut' = SubSeq(toOut, n + 1, Len(toOut))
      /\ UNCHANGED <<known, offers, remote, fin, in, toIn, reset>>
  BY DEF OutRead
<1>4. n \in 0 .. Len(toOut) /\ Len(out.inFrame) + n <= InCapacity
  <2>1. n \in 1 .. Min2(InCapacity - Len(out.inFrame), Len(toOut))
    BY <1>3 DEF MayRead
  <2> QED
    BY <1>1, <2>1, Typed, Room, Zenon
<1>5. /\ 2 * Took + Len(out.read) \in Nat /\ 2 * c + in.wrote \in Nat
  <2>1. Took \in 0 .. 3
    BY DEF Took, Try
  <2> QED
    BY <1>1, <1>2, <2>1, Sums, Typed, Zenon
<1> DEFINE f == out.inFrame \o Accepted(toOut, n)
<1>6. /\ f \in Seq(Unit) /\ Len(f) = Len(out.inFrame) + n /\ toOut' \in Seq(Unit)
      /\ Pipe(ToOutUnits, 2 * Took + Len(out.read), f, toOut', in.frame, 2 * c + in.wrote)
  <2>1. Pipe(ToOutUnits, 2 * Took + Len(out.read), out.inFrame, toOut, in.frame, 2 * c + in.wrote)
    BY <1>2 DEF Phase
  <2>2. toOut' = Sent(toOut, n)
    BY <1>3 DEF Sent
  <2> DEFINE base == 2 * Took + Len(out.read)
             total == 2 * c + in.wrote
             s == out.inFrame
             w == toOut
  <2>3. /\ base \in Nat /\ total \in Nat /\ Pipe(ToOutUnits, base, s, w, in.frame, total)
        /\ s \in Seq(Unit) /\ w \in Seq(Unit) /\ in.frame \in Seq(Unit) /\ n \in 0 .. Len(w)
    BY <1>1, <1>4, <1>5, <2>1, Typed
  <2> HIDE DEF base, total, s, w
  <2>4. /\ s \o Accepted(w, n) \in Seq(Unit) /\ Len(s \o Accepted(w, n)) = Len(s) + n
        /\ Sent(w, n) \in Seq(Unit)
        /\ Pipe(ToOutUnits, base, s \o Accepted(w, n), Sent(w, n), in.frame, total)
    BY <2>3, PipeRead, Zenon
  <2> QED
    BY <2>2, <2>4, Zenon DEF base, total, s, w
<1> HIDE DEF f
<1>7. /\ out' = [out EXCEPT !.inFrame = f] /\ f \in Seq(Unit) /\ Len(f) <= InCapacity
      /\ Pipe(ToOutUnits, 2 * Took + Len(out.read), f, toOut', in.frame, 2 * c + in.wrote)
  BY <1>3, <1>4, <1>6 DEF f, Accepted
<1>8. /\ out' \in Side /\ out'.inFrame = f
      /\ out'.frame = out.frame /\ out'.neg = out.neg
      /\ out'.protocol = out.protocol /\ out'.fallback = out.fallback
      /\ out'.wrote = out.wrote /\ out'.read = out.read
  BY <1>1, <1>7, Typed DEF Side
<1>9. out'.ready = out.ready
  BY <1>1, <1>7, Typed DEF Side
<1>10. TypeOK'
  <2>1. \A side \in {out', in'} : Len(side.inFrame) <= InCapacity
    BY <1>1, <1>3, <1>7, <1>8, Typed
  <2> QED
    BY <1>1, <1>3, <1>6, <1>8, <2>1 DEF TypeOK
<1>11. Chosen' /\ ReadsInv'
  BY <1>1, <1>3, <1>8 DEF Chosen, ReadsInv
<1>12. Second' = Second /\ Try' = Try /\ Made' = Made /\ Took' = Took /\ Offered' = Offered
  BY <1>3, <1>8, Rigid DEF Second, Try, Made, Took
<1>13. OutInv'
  BY <1>1, <1>3, <1>8, <1>9, <1>12 DEF OutInv
<1>14. InInv(c)'
  BY <1>2, <1>3, <1>8, <1>12 DEF Phase, InInv
<1>15. Phase(c)'
  BY <1>2, <1>3, <1>7, <1>8, <1>12, <1>14, Rigid DEF Phase
<1> QED
  BY <1>2, <1>10, <1>11, <1>13, <1>15 DEF IInv

\* OUT_READ_MS: the first answer is the header.
LEMMA OutTakeMsKeeps ==
    ASSUME IInv, OutTakeMs
    PROVE  IInv'
<1>1. /\ TypeOK /\ Chosen /\ remote = "host" /\ OutInv /\ ReadsInv /\ out.neg = "OUT_READ_MS"
  BY DEF IInv, OutTakeMs, OutTurn
<1>2. PICK c \in 0 .. 3 : Phase(c)
  BY <1>1 DEF IInv
<1>3. ~Second /\ Try = 2 /\ Made = 2 /\ Took = 0 /\ out.read = <<>> /\ Len(out.read) = 0 /\ ~out.ready
      /\ ~reset /\ out.frame = <<>> /\ out.wrote = 0
  BY <1>1, EmptySeq DEF OutInv, Try, Made, Took, Done, Failed
<1>4. /\ 2 * Took + Len(out.read) = 0 /\ 2 * c + in.wrote \in Nat /\ in.wrote \in Nat
  BY <1>1, <1>2, <1>3, Typed
<1>5. /\ out.inFrame[1] = ToOutUnits[0 + 1] /\ 0 + 2 <= 2 * c + in.wrote
      /\ Rest(out.inFrame) \in Seq(Unit) /\ Len(Rest(out.inFrame)) = Len(out.inFrame) - 2
      /\ Pipe(ToOutUnits, 0 + 2, Rest(out.inFrame), toOut, in.frame, 2 * c + in.wrote)
  <2>1. Pipe(ToOutUnits, 0, out.inFrame, toOut, in.frame, 2 * c + in.wrote)
    BY <1>2, <1>4 DEF Phase
  <2>2. Len(out.inFrame) >= 2
    BY DEF OutTakeMs, Decodes
  <2>3. 0 \in Nat
    OBVIOUS
  <2> QED
    BY <1>1, <1>4, <2>1, <2>2, <2>3, PipeTake, Typed
<1>6. Message(out.inFrame) = "multistream"
  <2>1. 1 \in 1 .. Frames /\ 2 * (1 - 1) + 1 = 0 + 1
    BY FramesAre
  <2>2. ToOutUnits[0 + 1].msg = Answer(1)
    BY <2>1, FramesAre
  <2> QED
    BY <1>5, <2>2 DEF Message, Answer
<1>7. c >= 1
  <2>1. in.wrote = 0 \/ c >= 2
    BY <1>1, <1>2 DEF Phase, InInv, Done, Failed
  <2> QED
    BY <1>2, <1>4, <1>5, <2>1
<1>8. /\ out' = [out EXCEPT !.inFrame = Rest(out.inFrame), !.ready = TRUE,
                            !.neg = "OUT_READ_PROTOCOL"]
      /\ reset' = reset
      /\ UNCHANGED <<known, offers, remote, fin, in, toIn, toOut>>
  <2>1. reset' = (reset \/ FALSE)
    BY <1>6 DEF OutTakeMs
  <2>2. reset' = reset
    BY <1>1, <2>1 DEF TypeOK
  <2>3. (Message(out.inFrame) = "multistream") = TRUE
    BY <1>6
  <2> QED
    BY <1>6, <2>2, <2>3 DEF OutTakeMs
<1>9. /\ out' \in Side /\ out'.inFrame = Rest(out.inFrame)
      /\ out'.frame = out.frame /\ out'.neg = "OUT_READ_PROTOCOL"
      /\ out'.protocol = out.protocol /\ out'.fallback = out.fallback
      /\ out'.wrote = out.wrote /\ out'.read = out.read
  BY <1>1, <1>5, <1>8, Typed DEF Side, OutStates
<1>10. out'.ready
  BY <1>1, <1>8, Typed DEF Side
<1>11. TypeOK'
  <2>1. Len(out'.inFrame) <= InCapacity
    BY <1>1, <1>5, <1>9, Typed, Capacity
  <2>2. \A side \in {out', in'} : Len(side.inFrame) <= InCapacity
    BY <1>1, <1>8, <2>1, Typed
  <2> QED
    BY <1>1, <1>8, <1>9, <2>2 DEF TypeOK
<1>12. Chosen' /\ ReadsInv'
  BY <1>1, <1>8, <1>9 DEF Chosen, ReadsInv
<1>13. ~Second' /\ Try' = 2 /\ Made' = 2 /\ Took' = 1 /\ Offered' = Offered
  BY <1>3, <1>8, <1>9, Rigid DEF Second, Try, Made, Took, Done, Failed
<1>14. OutInv'
  BY <1>1, <1>3, <1>8, <1>9, <1>10, <1>13 DEF OutInv, OutStates, Done, Failed
<1>15. InInv(c)'
  BY <1>1, <1>2, <1>3, <1>7, <1>8, <1>9, <1>13 DEF Phase, InInv, Failed
<1>16. Phase(c)'
  <2>1. 2 * Took' + Len(out'.read) = 0 + 2 /\ 2 * Made' + out'.wrote = 2 * Made + out.wrote
    BY <1>3, <1>9, <1>13
  <2>2. Pipe(ToInUnits, 2 * c + Len(in.read), in.inFrame, toIn, out'.frame, 2 * Made' + out'.wrote)
    BY <1>2, <1>9, <2>1 DEF Phase
  <2>3. Pipe(ToOutUnits, 2 * Took' + Len(out'.read), out'.inFrame, toOut, in.frame, 2 * c + in.wrote)
    BY <1>5, <1>9, <2>1
  <2> QED
    BY <1>8, <1>15, <2>2, <2>3, Rigid DEF Phase
<1> QED
  BY <1>2, <1>11, <1>12, <1>14, <1>16 DEF IInv

\* The inbound side opens the stream only after the last frame.
LEMMA InDone ==
    ASSUME IInv, remote = "host", NEW c \in 0 .. 3, InInv(c), in.neg = Done
    PROVE  c = Frames
<1>1. c >= 2 /\ Offered[c] \in known
  BY DEF InInv, Done, Failed
<1>2. c <= Made /\ Made <= Try /\ Try <= Frames /\ Made \in Nat /\ Try \in Nat
  BY Counts DEF InInv
<1>3. Frames = IF Offered[2] \in known THEN 2 ELSE 3
  BY Counts
<1>4. c = 2 \/ c = 3
  BY <1>1
<1> QED
  BY <1>1, <1>2, <1>3, <1>4

\* OUT_READ_PROTOCOL: the answer to the current offer is its name or "na".
LEMMA OutTakeProtocolKeeps ==
    ASSUME IInv, OutTakeProtocol
    PROVE  IInv'
<1> DEFINE m == Message(out.inFrame)
           after == IF m = out.protocol THEN Done
                    ELSE IF m = "na" /\ out.fallback # NoProtocol THEN "OUT_SEND_PROTOCOL"
                    ELSE Failed
<1>1. /\ TypeOK /\ Chosen /\ remote = "host" /\ OutInv /\ ReadsInv /\ out.neg = "OUT_READ_PROTOCOL"
  BY DEF IInv, OutTakeProtocol, OutTurn
<1>2. PICK c \in 0 .. 3 : Phase(c)
  BY <1>1 DEF IInv
<1>3. /\ Made = Try /\ Took = Try - 1 /\ Try \in {2, 3} /\ out.read = <<>> /\ Len(out.read) = 0
      /\ out.frame = <<>> /\ out.wrote = 0
  BY <1>1, EmptySeq DEF OutInv, Try, Made, Took, Done, Failed
<1>4. out.ready /\ ~reset /\ ~fin
  BY <1>1 DEF OutInv, Failed
<1>5. /\ 2 * Took + Len(out.read) = 2 * (Try - 1) /\ 2 * (Try - 1) \in Nat
      /\ 2 * (Try - 1) + 2 = 2 * Try
  BY <1>3
<1>6. 2 * c + in.wrote \in Nat /\ in.wrote \in Nat
  BY <1>1, <1>2, Sums, Typed, Zenon
<1>7. /\ out.inFrame[1] = ToOutUnits[2 * (Try - 1) + 1] /\ 2 * (Try - 1) + 2 <= 2 * c + in.wrote
      /\ Rest(out.inFrame) \in Seq(Unit) /\ Len(Rest(out.inFrame)) = Len(out.inFrame) - 2
      /\ Pipe(ToOutUnits, 2 * (Try - 1) + 2, Rest(out.inFrame), toOut, in.frame, 2 * c + in.wrote)
  <2> DEFINE base == 2 * (Try - 1)
             total == 2 * c + in.wrote
  <2>1. Pipe(ToOutUnits, base, out.inFrame, toOut, in.frame, total)
    BY <1>2, <1>5 DEF Phase
  <2>2. Len(out.inFrame) >= 2
    BY DEF OutTakeProtocol, Decodes
  <2>3. base \in Nat /\ total \in Nat
    BY <1>5, <1>6
  <2> HIDE DEF base, total
  <2>4. /\ out.inFrame[1] = ToOutUnits[base + 1] /\ base + 2 <= total
        /\ Rest(out.inFrame) \in Seq(Unit) /\ Len(Rest(out.inFrame)) = Len(out.inFrame) - 2
        /\ Pipe(ToOutUnits, base + 2, Rest(out.inFrame), toOut, in.frame, total)
    BY <1>1, <2>1, <2>2, <2>3, PipeTake, Typed
  <2> QED
    BY <2>4 DEF base, total
<1>8. InInv(c) /\ c = Try
  <2>1. InInv(c) /\ c <= Try
    BY <1>2, <1>3 DEF Phase, InInv
  <2>2. CASE in.neg = Done
    <3>1. c = Frames /\ Try <= Frames
      BY <1>1, <2>1, <2>2, InDone, Counts
    <3> QED
      BY <1>3, <2>1, <3>1
  <2>3. CASE in.neg # Done
    <3>1. in.wrote = 0
      BY <2>1, <2>3 DEF InInv
    <3> QED
      BY <1>3, <1>7, <2>1, <3>1
  <2> QED
    BY <2>1, <2>2, <2>3
<1>9. m = (IF out.protocol \in known THEN out.protocol ELSE "na") /\ out.protocol \in Protocols
  <2>1. Try \in 1 .. Frames /\ Try # 1 /\ Offered[Try] = out.protocol /\ out.protocol \in Protocols
    BY <1>1, <1>3, Counts, FramesAre
  <2>2. ToOutUnits[2 * (Try - 1) + 1].msg = Answer(Try)
    BY <2>1, FramesAre
  <2>3. Answer(Try) = IF out.protocol \in known THEN out.protocol ELSE "na"
    BY <2>1 DEF Answer
  <2> QED
    BY <1>7, <2>1, <2>2, <2>3 DEF Message
<1>10. /\ out' = [out EXCEPT !.inFrame = Rest(out.inFrame), !.neg = after,
                     !.protocol = IF after = "OUT_SEND_PROTOCOL" THEN out.fallback ELSE out.protocol,
                     !.fallback = IF after = "OUT_SEND_PROTOCOL" THEN NoProtocol ELSE out.fallback]
       /\ UNCHANGED <<known, offers, remote, fin, in, toIn, toOut>>
  BY DEF OutTakeProtocol
<1>11. reset' = (after = Failed)
  <2>1. reset' = (reset \/ after = Failed)
    BY DEF OutTakeProtocol
  <2> QED
    BY <1>4, <2>1
<1> HIDE DEF m, after
<1>12. /\ out'.inFrame = Rest(out.inFrame) /\ out'.neg = after
       /\ out'.protocol = (IF after = "OUT_SEND_PROTOCOL" THEN out.fallback ELSE out.protocol)
       /\ out'.fallback = (IF after = "OUT_SEND_PROTOCOL" THEN NoProtocol ELSE out.fallback)
       /\ out'.frame = out.frame /\ out'.wrote = out.wrote /\ out'.read = out.read
       /\ out' \in Side
  <2>1. after \in OutStates \cup {Done, Failed}
    BY DEF after, OutStates
  <2> QED
    BY <1>1, <1>7, <1>10, <2>1, Typed DEF Side
<1>13. out'.ready
  BY <1>1, <1>4, <1>10, Typed DEF Side
<1>14. TypeOK'
  <2>1. Len(out'.inFrame) <= InCapacity
    BY <1>1, <1>7, <1>12, Typed, Capacity
  <2>2. \A side \in {out', in'} : Len(side.inFrame) <= InCapacity
    BY <1>1, <1>10, <2>1, Typed
  <2>3. reset' \in BOOLEAN
    BY <1>11
  <2> QED
    BY <1>1, <1>10, <1>12, <2>2, <2>3 DEF TypeOK
<1>15. Chosen' /\ ReadsInv'
  BY <1>1, <1>10, <1>12 DEF Chosen, ReadsInv
<1>16. Offered' = Offered /\ Offered[2] = offers[1] /\ Offered[3] = offers[2] /\ NoProtocol \notin known
  <2>1. NoProtocol \notin known
    BY <1>1, Words DEF TypeOK
  <2> QED
    BY <1>1, <1>10, <2>1, Rigid, Counts
<1>17. /\ OutInv' /\ Took' = Try /\ Made' = Try
       /\ after = Failed => out.protocol \notin known
  <2>1. CASE m = out.protocol
    <3>1. after = Done /\ out.protocol \in known
      <4>1. out.protocol # "na"
        BY <1>9, Words
      <4> QED
        BY <1>9, <2>1, <4>1 DEF after
    <3>2. ~reset'
      BY <1>11, <3>1 DEF Done, Failed
    <3>3. Second' = Second /\ Try' = Try /\ Took' = Try /\ Made' = Try
      BY <1>10, <1>12, <3>1 DEF Second, Try, Took, Made, Done
    <3> QED
      BY <1>1, <1>3, <1>10, <1>12, <1>13, <1>16, <3>1, <3>2, <3>3 DEF OutInv, Done, Failed
  <2>2. CASE m # out.protocol /\ out.fallback # NoProtocol
    <3>1. out.protocol \notin known /\ after = "OUT_SEND_PROTOCOL"
      BY <1>9, <2>2 DEF after
    <3>2. ~Second /\ out.fallback = offers[2] /\ Try = 2 /\ out.protocol = offers[1]
      BY <1>1, <1>16, <2>2 DEF OutInv, Second, Try
    <3>3. ~reset'
      BY <1>11, <3>1 DEF Failed
    <3>4. out'.fallback = NoProtocol /\ out'.protocol = offers[2] /\ offers[2] # NoProtocol
          /\ out'.neg = "OUT_SEND_PROTOCOL"
      BY <1>12, <2>2, <3>1, <3>2
    <3>5. Second' /\ Try' = 3 /\ Took' = 2 /\ Made' = 2
      BY <1>3, <1>10, <1>12, <3>4 DEF Second, Try, Took, Made, Done, Failed
    <3> QED
      BY <1>1, <1>3, <1>10, <1>12, <1>13, <1>16, <3>1, <3>2, <3>3, <3>4, <3>5
      DEF OutInv, OutStates, Done, Failed
  <2>3. CASE m # out.protocol /\ out.fallback = NoProtocol
    <3>1. out.protocol \notin known /\ after = Failed
      BY <1>9, <2>3 DEF after
    <3>2. offers[1] \notin known /\ offers[2] \notin known
      BY <1>1, <1>16, <2>3, <3>1 DEF OutInv, Second, Try
    <3>3. Second' = Second /\ Try' = Try /\ Took' = Try /\ Made' = Try
      BY <1>10, <1>12, <3>1 DEF Second, Try, Took, Made, Failed
    <3> QED
      BY <1>1, <1>3, <1>10, <1>12, <1>13, <1>16, <3>1, <3>2, <3>3 DEF OutInv, Done, Failed
  <2> QED
    BY <2>1, <2>2, <2>3
<1>18. InInv(c)'
  <2>1. in.neg # Failed
    BY <1>1, <1>8 DEF InInv, Done, Failed
  <2>2. Took' <= c /\ c <= Made'
    BY <1>3, <1>8, <1>17
  <2>3. in' = in /\ known' = known
    BY <1>10
  <2> QED
    BY <1>8, <1>16, <2>1, <2>2, <2>3 DEF InInv
<1>19. Phase(c)'
  <2>1. 2 * Took' + Len(out'.read) = 2 * (Try - 1) + 2 /\ 2 * Made' + out'.wrote = 2 * Made + out.wrote
    BY <1>3, <1>5, <1>12, <1>17
  <2>2. Pipe(ToInUnits, 2 * c + Len(in.read), in.inFrame, toIn, out'.frame, 2 * Made' + out'.wrote)
    BY <1>2, <1>12, <2>1 DEF Phase
  <2>3. Pipe(ToOutUnits, 2 * Took' + Len(out'.read), out'.inFrame, toOut, in.frame, 2 * c + in.wrote)
    BY <1>7, <1>12, <2>1
  <2> QED
    BY <1>10, <1>18, <2>2, <2>3, Rigid DEF Phase
<1> QED
  BY <1>2, <1>14, <1>15, <1>17, <1>19 DEF IInv

-----------------------------------------------------------------------------
(***************************************************************************)
(* The inbound side.                                                       *)
(***************************************************************************)

\* A step of the inbound side leaves what it knows of the outbound side.
LEMMA OutSame ==
    ASSUME UNCHANGED <<known, offers, out>>
    PROVE  /\ Second' = Second /\ Try' = Try /\ Made' = Made /\ Took' = Took
           /\ Offered' = Offered /\ Frames' = Frames
           /\ ToInUnits' = ToInUnits /\ ToOutUnits' = ToOutUnits
<1>1. out' = out /\ known' = known /\ offers' = offers
  OBVIOUS
<1>2. Second' = Second
  BY <1>1 DEF Second
<1>3. Try' = Try /\ Made' = Made /\ Took' = Took
  BY <1>1, <1>2 DEF Try, Made, Took
<1> QED
  BY <1>1, <1>2, <1>3, Rigid

\* What is left to show of such a step.
LEMMA InStepKeeps ==
    ASSUME IInv, UNCHANGED <<known, offers, remote, out>>, TypeOK', Chosen',
           NEW d \in 0 .. 3,
           remote = "host" =>
               /\ UNCHANGED <<fin, reset>> /\ ReadsInv' /\ InInv(d)'
               /\ Pipe(ToInUnits, 2 * d + Len(in'.read), in'.inFrame, toIn', out.frame,
                       2 * Made + out.wrote)
               /\ Pipe(ToOutUnits, 2 * Took + Len(out.read), out.inFrame, toOut', in'.frame,
                       2 * d + in'.wrote)
    PROVE  IInv'
<1>1. CASE remote = "host"
  <2>1. OutInv'
    <3>1. OutInv /\ reset' = reset /\ fin' = fin /\ out' = out /\ known' = known /\ offers' = offers
      BY <1>1 DEF IInv
    <3> QED
      BY <3>1, OutSame DEF OutInv
  <2>2. Phase(d)'
    BY <1>1, OutSame DEF Phase
  <2> QED
    BY <1>1, <2>1, <2>2 DEF IInv
<1>2. CASE remote # "host"
  BY <1>2 DEF IInv
<1> QED
  BY <1>1, <1>2

\* The lengths and the positions the steps below start from.
LEMMA Positions ==
    ASSUME IInv, remote = "host", NEW c \in 0 .. 3
    PROVE  /\ 2 * c + Len(in.read) \in Nat /\ 2 * c + in.wrote \in Nat
           /\ 2 * Made + out.wrote \in Nat /\ 2 * Took + Len(out.read) \in Nat
<1>1. Made \in 0 .. 3 /\ Took \in 0 .. 3
  BY Counts
<1>2. Len(in.read) \in Nat /\ in.wrote \in Nat /\ Len(out.read) \in Nat /\ out.wrote \in Nat
  BY Typed DEF IInv
<1> QED
  BY <1>1, <1>2, Sums, Zenon

LEMMA InReadKeeps ==
    ASSUME IInv, NEW n \in Nat, InRead(n)
    PROVE  IInv'
<1> DEFINE f == in.inFrame \o Accepted(toIn, n)
<1>1. TypeOK /\ Chosen /\ in.neg \in {"IN_READ_MS", "IN_READ_PROTOCOL"}
  BY DEF IInv, InRead
<1>2. /\ MayRead(in, toIn, n) /\ in' = [in EXCEPT !.inFrame = f] /\ toIn' = Sent(toIn, n)
      /\ UNCHANGED <<known, offers, remote, fin, out, toOut, reset>>
  BY DEF InRead, Accepted, Sent
<1>3. n \in 0 .. Len(toIn) /\ Len(in.inFrame) + n <= InCapacity
  <2>1. n \in 1 .. Min2(InCapacity - Len(in.inFrame), Len(toIn))
    BY <1>2 DEF MayRead
  <2> QED
    BY <1>1, <2>1, Typed, Room, Zenon
<1>4. f \in Seq(Unit) /\ Len(f) = Len(in.inFrame) + n /\ toIn' \in Seq(Unit)
  <2>1. /\ Accepted(toIn, n) \in Seq(Unit) /\ Len(Accepted(toIn, n)) = n
        /\ Sent(toIn, n) \in Seq(Unit)
    BY <1>1, <1>3, Prefix, Suffix, Typed DEF Accepted, Sent
  <2> QED
    BY <1>1, <1>2, <2>1, ConcatProperties, Typed
<1> HIDE DEF f
<1>5. /\ in' \in Side /\ in'.inFrame = f
      /\ in'.frame = in.frame /\ in'.neg = in.neg /\ in'.protocol = in.protocol
      /\ in'.wrote = in.wrote /\ in'.read = in.read
  BY <1>1, <1>2, <1>4, Typed DEF Side
<1>6. TypeOK'
  <2>1. \A side \in {out', in'} : Len(side.inFrame) <= InCapacity
    BY <1>1, <1>2, <1>3, <1>4, <1>5, Typed
  <2> QED
    BY <1>1, <1>2, <1>4, <1>5, <2>1 DEF TypeOK
<1>7. Chosen'
  BY <1>1, <1>2, <1>5 DEF Chosen
<1>8. CASE remote # "host"
  <2>1. 0 \in 0 .. 3
    OBVIOUS
  <2> QED
    BY <1>2, <1>6, <1>7, <1>8, <2>1, InStepKeeps
<1>9. CASE remote = "host"
  <2>1. PICK c \in 0 .. 3 : Phase(c)
    BY <1>9 DEF IInv
  <2>2. ReadsInv'
    BY <1>2, <1>5, <1>9 DEF IInv, ReadsInv
  <2>3. InInv(c)'
    BY <1>2, <1>5, <2>1, OutSame DEF Phase, InInv
  <2>4. Pipe(ToInUnits, 2 * c + Len(in.read), f, toIn', out.frame, 2 * Made + out.wrote)
    <3> DEFINE base == 2 * c + Len(in.read)
               total == 2 * Made + out.wrote
               s == in.inFrame
               w == toIn
    <3>1. /\ base \in Nat /\ total \in Nat /\ Pipe(ToInUnits, base, s, w, out.frame, total)
          /\ s \in Seq(Unit) /\ w \in Seq(Unit) /\ out.frame \in Seq(Unit) /\ n \in 0 .. Len(w)
      BY <1>1, <1>3, <1>9, <2>1, Positions, Typed DEF Phase
    <3> HIDE DEF base, total, s, w
    <3>2. Pipe(ToInUnits, base, s \o Accepted(w, n), Sent(w, n), out.frame, total)
      BY <3>1, PipeRead, Zenon
    <3> QED
      BY <1>2, <3>2, Zenon DEF base, total, s, w, f
  <2>5. Pipe(ToInUnits, 2 * c + Len(in'.read), in'.inFrame, toIn', out.frame, 2 * Made + out.wrote)
    BY <1>5, <2>4
  <2>6. Pipe(ToOutUnits, 2 * Took + Len(out.read), out.inFrame, toOut', in'.frame, 2 * c + in'.wrote)
    BY <1>2, <1>5, <2>1 DEF Phase
  <2> QED
    BY <1>2, <1>6, <1>7, <2>1, <2>2, <2>3, <2>5, <2>6, InStepKeeps
<1> QED
  BY <1>8, <1>9

\* Between two hosts the next message is the next offer, and the answer to it is
\* what the outbound side waits for.
LEMMA InTakes ==
    ASSUME IInv, remote = "host", NEW c \in 0 .. 3, Phase(c),
           in.neg \in {"IN_READ_MS", "IN_READ_PROTOCOL"}, Len(in.inFrame) >= 2
    PROVE  /\ c + 1 \in 0 .. 3 /\ c + 1 <= Made /\ Took <= c + 1
           /\ in.frame = <<>> /\ in.wrote = 0 /\ in.read = <<>> /\ in.protocol = NoProtocol
           /\ (in.neg = "IN_READ_MS" <=> c = 0)
           /\ Message(in.inFrame) = Offered[c + 1] /\ Answer(c + 1) \in Messages
           /\ Pipe(ToInUnits, 2 * (c + 1), Rest(in.inFrame), toIn, out.frame, 2 * Made + out.wrote)
           /\ Pipe(ToOutUnits, 2 * Took + Len(out.read), out.inFrame, toOut,
                   Frame(Answer(c + 1)), 2 * (c + 1))
<1>1. TypeOK /\ OutInv /\ InInv(c)
  BY DEF IInv, Phase
<1>2. /\ in.frame = <<>> /\ in.wrote = 0 /\ in.read = <<>> /\ Len(in.read) = 0
      /\ in.protocol = NoProtocol /\ (in.neg = "IN_READ_MS" <=> c = 0)
      /\ c \in {0, 1} \/ Offered[c] \notin known
  BY <1>1, EmptySeq DEF InInv, Done, Failed
<1>3. /\ 2 * c + Len(in.read) = 2 * c /\ 2 * c + in.wrote = 2 * c /\ 2 * c \in Nat
      /\ 2 * c + 2 = 2 * (c + 1)
  BY <1>2
<1>4. /\ in.inFrame[1] = ToInUnits[2 * c + 1] /\ 2 * c + 2 <= 2 * Made + out.wrote
      /\ Pipe(ToInUnits, 2 * c + 2, Rest(in.inFrame), toIn, out.frame, 2 * Made + out.wrote)
  <2> DEFINE base == 2 * c
             total == 2 * Made + out.wrote
             s == in.inFrame
             w == toIn
             f == out.frame
  <2>1. /\ Pipe(ToInUnits, base, s, w, f, total) /\ base \in Nat /\ total \in Nat
        /\ s \in Seq(Unit) /\ w \in Seq(Unit) /\ f \in Seq(Unit) /\ Len(s) >= 2
    BY <1>1, <1>3, Positions, Typed DEF Phase
  <2> HIDE DEF base, total, s, w, f
  <2>2. /\ s[1] = ToInUnits[base + 1] /\ base + 2 <= total
        /\ Rest(s) \in Seq(Unit) /\ Len(Rest(s)) = Len(s) - 2
        /\ Pipe(ToInUnits, base + 2, Rest(s), w, f, total)
    BY <2>1, PipeTake
  <2> QED
    BY <2>2 DEF base, total, s, w, f
<1>5. c + 1 <= Made /\ c + 1 \in 1 .. Frames /\ Made \in Nat /\ c + 1 \in 0 .. 3 /\ Took <= c + 1
  <2>1. /\ Made \in Nat /\ Took \in Nat /\ Try \in {2, 3} /\ Made <= Try /\ Try <= Frames
        /\ Frames \in {2, 3} /\ Took <= c /\ c <= Made
    BY <1>1, Counts, FramesAre DEF InInv
  <2>2. CASE out.neg = Done
    <3>1. Took = Try /\ Offered[Try] \in known
      BY <1>1, <2>2, Counts DEF Took, OutInv
    <3>2. c = Try
      BY <2>1, <3>1
    <3> QED
      BY <1>2, <2>1, <3>1, <3>2
  <2>3. CASE out.neg # Done
    <3>1. out.wrote = 0
      BY <1>1, <2>3 DEF OutInv
    <3> QED
      BY <1>4, <2>1, <3>1
  <2> QED
    BY <2>2, <2>3
<1> DEFINE k == c + 1
<1>A. /\ At(ToOutUnits, 2 * c, Frame(Answer(c + 1)))
      /\ ToInUnits[2 * c + 1].msg = Offered[c + 1]
  <2>1. k \in 1 .. Frames /\ 2 * (k - 1) = 2 * c
    BY <1>5
  <2> HIDE DEF k
  <2>2. /\ At(ToOutUnits, 2 * (k - 1), Frame(Answer(k)))
        /\ ToInUnits[2 * (k - 1) + 1].msg = Offered[k]
    BY <2>1, FramesAre
  <2> QED
    BY <2>1, <2>2 DEF k
<1>6. Message(in.inFrame) = Offered[c + 1]
  BY <1>4, <1>A DEF Message
<1>7. Answer(c + 1) \in Messages
  BY <1>1 DEF Answer, Messages, TypeOK
<1>8. Pipe(ToOutUnits, 2 * Took + Len(out.read), out.inFrame, toOut, Frame(Answer(c + 1)), 2 * (c + 1))
  <2> DEFINE f == Frame(Answer(c + 1))
             base == 2 * Took + Len(out.read)
             total == 2 * c
  <2>1. f \in Seq(Unit) /\ Len(f) = 2
    BY <1>7, FrameIs
  <2>2. At(ToOutUnits, total, f)
    BY <1>A
  <2>3. Pipe(ToOutUnits, base, out.inFrame, toOut, <<>>, total) /\ base \in Nat /\ total \in Nat
    BY <1>2, <1>3, Positions DEF Phase
  <2> HIDE DEF f, base, total
  <2>4. Pipe(ToOutUnits, base, out.inFrame, toOut, f, total + Len(f))
    BY <1>1, <2>1, <2>2, <2>3, PipeMake, Typed
  <2> QED
    BY <1>3, <2>1, <2>4 DEF f, base, total
<1> QED
  BY <1>2, <1>3, <1>4, <1>5, <1>6, <1>7, <1>8

\* Taking a message leaves in_frame within its bounds.
LEMMA TakeTypes ==
    ASSUME NEW s \in Seq(Unit), Len(s) >= 2, Len(s) <= InCapacity
    PROVE  Rest(s) \in Seq(Unit) /\ Len(Rest(s)) <= InCapacity
<1>1. 2 \in 0 .. Len(s) /\ Len(s) \in Nat
  BY LenProperties
<1>2. Rest(s) = SubSeq(s, 2 + 1, Len(s))
  BY DEF Rest
<1>3. Rest(s) \in Seq(Unit) /\ Len(Rest(s)) = Len(s) - 2
  BY <1>1, <1>2, Suffix
<1> QED
  BY <1>1, <1>3, Capacity

\* IN_READ_MS: the header is answered with the header.
LEMMA InTakeMsKeeps ==
    ASSUME IInv, InTakeMs
    PROVE  IInv'
<1> DEFINE ok == Message(in.inFrame) = "multistream"
           f == IF ok THEN Frame("multistream") ELSE in.frame
           neg == IF ok THEN "IN_SEND_PROTOCOL" ELSE Failed
<1>1. TypeOK /\ Chosen /\ in.neg = "IN_READ_MS" /\ Len(in.inFrame) >= 2
  BY DEF IInv, InTakeMs, Decodes
<1>2. /\ in' = [in EXCEPT !.inFrame = Rest(in.inFrame), !.frame = f, !.neg = neg]
      /\ reset' = (reset \/ ~ok)
      /\ UNCHANGED <<known, offers, remote, fin, out, toIn, toOut>>
  BY DEF InTakeMs
<1>3. Rest(in.inFrame) \in Seq(Unit) /\ Len(Rest(in.inFrame)) <= InCapacity
  BY <1>1, TakeTypes, Typed
<1>4. f \in Seq(Unit) /\ neg \in InStates \cup {Failed} /\ neg # Done
  BY <1>1, FrameIs, Typed DEF Messages, InStates, Done, Failed
<1>5. ok => f = Frame("multistream") /\ neg = "IN_SEND_PROTOCOL"
  OBVIOUS
<1> HIDE DEF f, neg
<1>6. /\ in' \in Side /\ in'.inFrame = Rest(in.inFrame) /\ in'.frame = f /\ in'.neg = neg
      /\ in'.protocol = in.protocol /\ in'.wrote = in.wrote /\ in'.read = in.read
  BY <1>1, <1>2, <1>3, <1>4, Typed DEF Side
<1>7. TypeOK'
  <2>1. \A side \in {out', in'} : Len(side.inFrame) <= InCapacity
    BY <1>1, <1>2, <1>3, <1>6, Typed
  <2>2. reset' \in BOOLEAN
    BY <1>1, <1>2 DEF TypeOK
  <2> QED
    BY <1>1, <1>2, <1>6, <2>1, <2>2 DEF TypeOK
<1>8. Chosen'
  BY <1>1, <1>2, <1>4, <1>6 DEF Chosen
<1>9. CASE remote # "host"
  <2>1. 0 \in 0 .. 3
    OBVIOUS
  <2> QED
    BY <1>2, <1>7, <1>8, <1>9, <2>1, InStepKeeps
<1>10. CASE remote = "host"
  <2>1. PICK c \in 0 .. 3 : Phase(c)
    BY <1>10 DEF IInv
  <2>2. /\ c + 1 \in 0 .. 3 /\ c + 1 <= Made /\ Took <= c + 1 /\ c = 0
        /\ in.frame = <<>> /\ in.wrote = 0 /\ in.read = <<>> /\ in.protocol = NoProtocol
        /\ Message(in.inFrame) = Offered[c + 1]
        /\ Pipe(ToInUnits, 2 * (c + 1), Rest(in.inFrame), toIn, out.frame, 2 * Made + out.wrote)
        /\ Pipe(ToOutUnits, 2 * Took + Len(out.read), out.inFrame, toOut,
                Frame(Answer(c + 1)), 2 * (c + 1))
    BY <1>1, <1>10, <2>1, InTakes
  <2>3. ok /\ f = Frame(Answer(c + 1)) /\ neg = "IN_SEND_PROTOCOL"
    <3>1. Offered[1] = "multistream" /\ c + 1 = 1
      BY <1>10, <2>2, Counts
    <3> QED
      BY <1>5, <2>2, <3>1 DEF Answer
  <2>4. reset' = reset
    BY <1>1, <1>2, <2>3 DEF TypeOK
  <2>5. ReadsInv'
    BY <1>2, <1>6, <1>10 DEF IInv, ReadsInv
  <2>6. InInv(c + 1)'
    <3>1. c + 1 = 1 /\ Took' <= 1 /\ 1 <= Made'
      BY <1>2, <2>2, OutSame
    <3> QED
      BY <1>2, <1>6, <2>2, <2>3, <3>1 DEF InInv, Done, Failed
  <2>7. /\ Pipe(ToInUnits, 2 * (c + 1) + Len(in'.read), in'.inFrame, toIn', out.frame,
                2 * Made + out.wrote)
        /\ Pipe(ToOutUnits, 2 * Took + Len(out.read), out.inFrame, toOut', in'.frame,
                2 * (c + 1) + in'.wrote)
    <3>1. 2 * (c + 1) + Len(in'.read) = 2 * (c + 1) /\ 2 * (c + 1) + in'.wrote = 2 * (c + 1)
      BY <1>6, <2>2, EmptySeq
    <3> QED
      BY <1>2, <1>6, <2>2, <2>3, <3>1
  <2> QED
    BY <1>2, <1>7, <1>8, <2>2, <2>4, <2>5, <2>6, <2>7, InStepKeeps
<1> QED
  BY <1>9, <1>10

\* "ls" and what cannot be decoded come from another program only.
LEMMA HostSendsWell ==
    ASSUME IInv, remote = "host", Len(in.inFrame) >= 1
    PROVE  ~fin /\ in.inFrame[1].msg \notin {"ls", "bad length", "no newline"}
<1>1. TypeOK /\ OutInv
  BY DEF IInv
<1>2. PICK c \in 0 .. 3 : Phase(c)
  BY DEF IInv
<1> DEFINE base == 2 * c + Len(in.read)
           i == base + 1
<1>3. base \in Nat /\ At(ToInUnits, base, in.inFrame) /\ Len(in.inFrame) \in Nat
  BY <1>1, <1>2, Positions, Typed DEF Phase, Pipe
<1> HIDE DEF base
<1>4. i \in Nat \ {0} /\ in.inFrame[1] = ToInUnits[i]
  BY <1>3 DEF At
<1>5. offers \in Protocols \X (Protocols \cup {NoProtocol})
  BY <1>1 DEF TypeOK
<1> HIDE DEF i
<1>6. ToInUnits[i].msg \notin {"ls", "bad length", "no newline"}
  BY <1>4, <1>5, WellFormed
<1>7. ~fin
  BY <1>1 DEF OutInv
<1> QED
  BY <1>4, <1>6, <1>7

LEMMA InBrokenKeeps ==
    ASSUME IInv, InBroken
    PROVE  IInv'
<1>1. TypeOK /\ Chosen
  BY DEF IInv
<1>2. /\ in' = [in EXCEPT !.neg = Failed] /\ reset' = TRUE
      /\ UNCHANGED <<known, offers, remote, out, toIn, toOut, fin>>
  BY DEF InBroken
<1>3. remote # "host"
  <2>1. SUFFICES ASSUME remote = "host" PROVE FALSE
    OBVIOUS
  <2>2. CASE fin
    <3>1. OutInv
      BY <2>1 DEF IInv
    <3> QED
      BY <2>2, <3>1 DEF OutInv
  <2>3. CASE Malformed(in.inFrame)
    <3> DEFINE s == in.inFrame
    <3>1. Len(s) \in Nat /\ Malformed(s)
      BY <1>1, <2>3, Typed
    <3> HIDE DEF s
    <3>2. s[1].msg \in {"bad length", "no newline"} /\ (Len(s) >= 1 \/ Len(s) >= 2)
      BY <3>1, Zenon DEF Malformed
    <3>3. \A l \in Nat : l >= 2 => l >= 1
      OBVIOUS
    <3> QED
      BY <2>1, <3>1, <3>2, <3>3, HostSendsWell, Zenon DEF s
  <2>4. Malformed(in.inFrame) \/ fin
    BY DEF InBroken
  <2> QED
    BY <2>2, <2>3, <2>4
<1>4. in' \in Side /\ in'.inFrame = in.inFrame /\ in'.protocol = in.protocol /\ in'.neg = Failed
  BY <1>1, <1>2, Typed DEF Side
<1>5. TypeOK'
  <2>1. \A side \in {out', in'} : Len(side.inFrame) <= InCapacity
    BY <1>1, <1>2, <1>4, Typed
  <2> QED
    BY <1>1, <1>2, <1>4, <2>1 DEF TypeOK
<1>6. Chosen'
  BY <1>1, <1>2, <1>4 DEF Chosen, Done, Failed
<1> QED
  BY <1>2, <1>3, <1>5, <1>6 DEF IInv

LEMMA InTakeLsKeeps ==
    ASSUME IInv, InTakeLs
    PROVE  IInv'
<1> DEFINE f == IF ListFits THEN Frame("list") ELSE in.frame
           neg == IF ListFits THEN "IN_SEND_LS" ELSE Failed
<1>1. TypeOK /\ Chosen /\ Len(in.inFrame) >= 2 /\ Message(in.inFrame) = "ls"
  BY DEF IInv, InTakeLs, Decodes
<1>2. /\ in' = [in EXCEPT !.inFrame = Rest(in.inFrame), !.frame = f, !.neg = neg]
      /\ reset' = (reset \/ ~ListFits)
      /\ UNCHANGED <<known, offers, remote, out, toIn, toOut, fin>>
  BY DEF InTakeLs
<1>3. remote # "host"
  <2>1. Len(in.inFrame) >= 1
    BY <1>1, Typed
  <2> QED
    BY <1>1, <2>1, HostSendsWell DEF Message
<1>4. Rest(in.inFrame) \in Seq(Unit) /\ Len(Rest(in.inFrame)) <= InCapacity
  BY <1>1, TakeTypes, Typed
<1>5. f \in Seq(Unit) /\ neg \in InStates \cup {Failed} /\ neg # Done
  BY <1>1, FrameIs, Typed DEF Messages, InStates, Done, Failed
<1> HIDE DEF f, neg
<1>6. /\ in' \in Side /\ in'.inFrame = Rest(in.inFrame) /\ in'.neg = neg
      /\ in'.protocol = in.protocol
  BY <1>1, <1>2, <1>4, <1>5, Typed DEF Side
<1>7. TypeOK'
  <2>1. \A side \in {out', in'} : Len(side.inFrame) <= InCapacity
    BY <1>1, <1>2, <1>4, <1>6, Typed
  <2>2. reset' \in BOOLEAN
    BY <1>1, <1>2 DEF TypeOK, ListFits
  <2> QED
    BY <1>1, <1>2, <1>6, <2>1, <2>2 DEF TypeOK
<1>8. Chosen'
  BY <1>1, <1>2, <1>5, <1>6 DEF Chosen
<1> QED
  BY <1>2, <1>3, <1>7, <1>8 DEF IInv

\* IN_READ_PROTOCOL: an offer is answered with its name or with "na".
LEMMA InTakeProtocolKeeps ==
    ASSUME IInv, InTakeProtocol
    PROVE  IInv'
<1> DEFINE m == Message(in.inFrame)
           a == IF Registered(m) THEN m ELSE "na"
           f == Frame(a)
           neg == IF Registered(m) THEN "IN_SEND_PROTOCOL" ELSE "IN_SEND_NA"
           p == IF Registered(m) THEN m ELSE in.protocol
<1>1. TypeOK /\ Chosen /\ in.neg = "IN_READ_PROTOCOL" /\ Len(in.inFrame) >= 2
  BY DEF IInv, InTakeProtocol, Decodes
<1>2. /\ in' = [in EXCEPT !.inFrame = Rest(in.inFrame), !.protocol = p, !.frame = f, !.neg = neg]
      /\ UNCHANGED <<known, offers, remote, fin, out, toIn, toOut, reset>>
  BY DEF InTakeProtocol
<1>3. Rest(in.inFrame) \in Seq(Unit) /\ Len(Rest(in.inFrame)) <= InCapacity
  BY <1>1, TakeTypes, Typed
<1>4. /\ p \in Protocols \cup {NoProtocol} /\ f \in Seq(Unit) /\ neg \in InStates /\ neg # Done
      /\ p # NoProtocol => p \in known
  <2>1. m \in known => m \in Protocols
    BY <1>1 DEF TypeOK
  <2>2. a \in Messages
    BY <2>1 DEF Messages, Registered
  <2>3. in.protocol \in Protocols \cup {NoProtocol} /\ (in.protocol # NoProtocol => in.protocol \in known)
    BY <1>1, Typed DEF Chosen, Side
  <2> QED
    BY <2>1, <2>2, <2>3, FrameIs DEF Registered, InStates, Done
<1>5. /\ m \in known => p = m /\ neg = "IN_SEND_PROTOCOL" /\ f = Frame(m)
      /\ m \notin known => p = in.protocol /\ neg = "IN_SEND_NA" /\ f = Frame("na")
  BY DEF Registered
<1> HIDE DEF f, neg, p, a, m
<1>6. /\ in' \in Side /\ in'.inFrame = Rest(in.inFrame) /\ in'.frame = f /\ in'.neg = neg
      /\ in'.protocol = p /\ in'.wrote = in.wrote /\ in'.read = in.read
  BY <1>1, <1>2, <1>3, <1>4, Typed DEF Side
<1>7. TypeOK'
  <2>1. \A side \in {out', in'} : Len(side.inFrame) <= InCapacity
    BY <1>1, <1>2, <1>3, <1>6, Typed
  <2> QED
    BY <1>1, <1>2, <1>6, <2>1 DEF TypeOK
<1>8. Chosen'
  BY <1>1, <1>2, <1>4, <1>6 DEF Chosen
<1>9. CASE remote # "host"
  <2>1. 0 \in 0 .. 3
    OBVIOUS
  <2> QED
    BY <1>2, <1>7, <1>8, <1>9, <2>1, InStepKeeps
<1>10. CASE remote = "host"
  <2>1. PICK c \in 0 .. 3 : Phase(c)
    BY <1>10 DEF IInv
  <2>2. /\ c + 1 \in 0 .. 3 /\ c + 1 <= Made /\ Took <= c + 1 /\ c # 0
        /\ in.frame = <<>> /\ in.wrote = 0 /\ in.read = <<>> /\ in.protocol = NoProtocol
        /\ m = Offered[c + 1]
        /\ Pipe(ToInUnits, 2 * (c + 1), Rest(in.inFrame), toIn, out.frame, 2 * Made + out.wrote)
        /\ Pipe(ToOutUnits, 2 * Took + Len(out.read), out.inFrame, toOut,
                Frame(Answer(c + 1)), 2 * (c + 1))
    BY <1>1, <1>10, <2>1, InTakes DEF m
  <2>3. f = Frame(Answer(c + 1))
    <3>1. c + 1 # 1
      BY <2>1, <2>2
    <3> QED
      BY <1>5, <2>2, <3>1 DEF Answer
  <2>4. ReadsInv'
    BY <1>2, <1>6, <1>10 DEF IInv, ReadsInv
  <2>5. InInv(c + 1)'
    <3>1. c + 1 >= 2 /\ Took' <= c + 1 /\ c + 1 <= Made' /\ Offered' = Offered
      BY <1>2, <2>1, <2>2, OutSame
    <3>2. neg \in {"IN_SEND_PROTOCOL", "IN_SEND_NA"}
      BY DEF neg
    <3> QED
      BY <1>2, <1>5, <1>6, <2>2, <3>1, <3>2 DEF InInv, Done, Failed
  <2>6. /\ Pipe(ToInUnits, 2 * (c + 1) + Len(in'.read), in'.inFrame, toIn', out.frame,
                2 * Made + out.wrote)
        /\ Pipe(ToOutUnits, 2 * Took + Len(out.read), out.inFrame, toOut', in'.frame,
                2 * (c + 1) + in'.wrote)
    <3>1. 2 * (c + 1) + Len(in'.read) = 2 * (c + 1) /\ 2 * (c + 1) + in'.wrote = 2 * (c + 1)
      BY <1>6, <2>2, EmptySeq
    <3> QED
      BY <1>2, <1>6, <2>2, <2>3, <3>1
  <2> QED
    BY <1>2, <1>7, <1>8, <2>2, <2>4, <2>5, <2>6, InStepKeeps
<1> QED
  BY <1>9, <1>10

\* IN_SEND_PROTOCOL, IN_SEND_NA and IN_SEND_LS: a part of the answer goes on the wire.
LEMMA InSendKeeps ==
    ASSUME IInv, NEW k \in Nat, InSend(k)
    PROVE  IInv'
<1> DEFINE neg == IF k = Len(in.frame) THEN AfterSend ELSE in.neg
           f == Sent(in.frame, k)
<1>1. TypeOK /\ Chosen /\ in.neg \in {"IN_SEND_PROTOCOL", "IN_SEND_NA", "IN_SEND_LS"}
  BY DEF IInv, InSend
<1>2. /\ k \in 1 .. Len(in.frame) /\ toOut' = toOut \o Accepted(in.frame, k)
      /\ in' = [in EXCEPT !.frame = f, !.neg = neg]
      /\ UNCHANGED <<known, offers, remote, fin, out, toIn, reset>>
  BY DEF InSend
<1>3. k \in 0 .. Len(in.frame)
  BY <1>1, <1>2, Typed
<1>4. toOut' \in Seq(Unit) /\ f \in Seq(Unit) /\ Len(f) = Len(in.frame) - k
  <2>1. /\ Accepted(in.frame, k) \in Seq(Unit)
        /\ Sent(in.frame, k) \in Seq(Unit) /\ Len(Sent(in.frame, k)) = Len(in.frame) - k
    BY <1>1, <1>3, Prefix, Suffix, Typed DEF Accepted, Sent
  <2> QED
    BY <1>1, <1>2, <2>1, ConcatProperties, Typed
<1>5. /\ neg \in InStates \cup {Done}
      /\ neg = Done => in.protocol # NoProtocol
      /\ k = Len(in.frame) => neg = AfterSend /\ f = <<>>
      /\ k # Len(in.frame) => neg = in.neg
  <2>1. k = Len(in.frame) => f = <<>>
    BY <1>1, <1>2, <1>4, Empties, Typed
  <2> QED
    BY <1>1, <2>1 DEF AfterSend, InStates, Done
<1> HIDE DEF f, neg
<1>6. /\ in' \in Side /\ in'.inFrame = in.inFrame /\ in'.frame = f /\ in'.neg = neg
      /\ in'.protocol = in.protocol /\ in'.wrote = in.wrote /\ in'.read = in.read
  BY <1>1, <1>2, <1>4, <1>5, Typed DEF Side
<1>7. TypeOK'
  <2>1. \A side \in {out', in'} : Len(side.inFrame) <= InCapacity
    BY <1>1, <1>2, <1>6, Typed
  <2> QED
    BY <1>1, <1>2, <1>4, <1>6, <2>1 DEF TypeOK
<1>8. Chosen'
  BY <1>1, <1>2, <1>5, <1>6 DEF Chosen
<1>9. CASE remote # "host"
  <2>1. 0 \in 0 .. 3
    OBVIOUS
  <2> QED
    BY <1>2, <1>7, <1>8, <1>9, <2>1, InStepKeeps
<1>10. CASE remote = "host"
  <2>1. PICK c \in 0 .. 3 : Phase(c)
    BY <1>10 DEF IInv
  <2>2. ReadsInv'
    BY <1>2, <1>6, <1>10 DEF IInv, ReadsInv
  <2>3. InInv(c)'
    <3>1. InInv(c) /\ known \subseteq Protocols /\ NoProtocol \notin known
      BY <1>1, <2>1, Words DEF Phase, TypeOK
    <3>2. /\ Took' <= c /\ c <= Made' /\ Offered' = Offered /\ known' = known /\ out' = out
      BY <1>2, <3>1, OutSame DEF InInv
    <3>3. /\ in.neg # Done /\ in.neg # Failed
          /\ \/ c = 1 /\ in.neg = "IN_SEND_PROTOCOL" /\ in.protocol = NoProtocol
             \/ c >= 2 /\ Offered[c] \in known /\ in.neg = "IN_SEND_PROTOCOL"
             \/ c >= 2 /\ Offered[c] \notin known /\ in.neg = "IN_SEND_NA"
      BY <1>1, <3>1 DEF InInv, Done, Failed
    <3>4. /\ c = 1 => in'.neg \in {"IN_SEND_PROTOCOL", "IN_READ_PROTOCOL"}
          /\ c >= 2 /\ Offered[c] \in known => in'.neg \in {"IN_SEND_PROTOCOL", Done}
          /\ c >= 2 /\ Offered[c] \notin known => in'.neg \in {"IN_SEND_NA", "IN_READ_PROTOCOL"}
          /\ c = 1 \/ c >= 2
      BY <1>5, <1>6, <2>1, <3>1, <3>3 DEF AfterSend, InInv
    <3>5. in'.neg \in {"IN_READ_MS", "IN_READ_PROTOCOL", Done} => in'.frame = <<>>
      BY <1>1, <1>5, <1>6, <3>3
    <3>6. in'.wrote = 0 /\ in'.read = <<>>
      BY <1>6, <3>1, <3>3 DEF InInv
    <3>7. in'.protocol = IF c >= 2 /\ Offered[c] \in known THEN Offered[c] ELSE NoProtocol
      BY <1>6, <3>1 DEF InInv
    <3> QED
      BY <3>2, <3>4, <3>5, <3>6, <3>7 DEF InInv
  <2>4. Pipe(ToOutUnits, 2 * Took + Len(out.read), out.inFrame, toOut', f, 2 * c + in.wrote)
    <3> DEFINE base == 2 * Took + Len(out.read)
               total == 2 * c + in.wrote
               s == out.inFrame
               w == toOut
               g == in.frame
    <3>1. /\ base \in Nat /\ total \in Nat /\ Pipe(ToOutUnits, base, s, w, g, total)
          /\ s \in Seq(Unit) /\ w \in Seq(Unit) /\ g \in Seq(Unit) /\ k \in 0 .. Len(g)
      BY <1>1, <1>3, <1>10, <2>1, Positions, Typed DEF Phase
    <3> HIDE DEF base, total, s, w, g
    <3>2. Pipe(ToOutUnits, base, s, w \o Accepted(g, k), Sent(g, k), total)
      BY <3>1, PipeSend, Zenon
    <3> QED
      BY <1>2, <3>2, Zenon DEF base, total, s, w, g, f
  <2>5. Pipe(ToInUnits, 2 * c + Len(in'.read), in'.inFrame, toIn', out.frame, 2 * Made + out.wrote)
    BY <1>2, <1>6, <2>1 DEF Phase
  <2>6. Pipe(ToOutUnits, 2 * Took + Len(out.read), out.inFrame, toOut', in'.frame, 2 * c + in'.wrote)
    BY <1>6, <2>4
  <2> QED
    BY <1>2, <1>7, <1>8, <2>1, <2>2, <2>3, <2>5, <2>6, InStepKeeps
<1> QED
  BY <1>9, <1>10

-----------------------------------------------------------------------------
(***************************************************************************)
(* The protocols, a reset, and another program.                            *)
(***************************************************************************)

LEMMA DataTyped == \A i \in Nat : DataUnit(i) \in Unit
BY DEF DataUnit, Unit

LEMMA InWriteDataKeeps ==
    ASSUME IInv, InWriteData
    PROVE  IInv'
<1> DEFINE e == DataUnit(in.wrote + 1)
<1>1. TypeOK /\ Chosen /\ in.neg = Done
  BY DEF IInv, InWriteData
<1>2. /\ toOut' = Append(toOut, e) /\ in' = [in EXCEPT !.wrote = in.wrote + 1]
      /\ UNCHANGED <<known, offers, remote, fin, out, toIn, reset>>
  BY DEF InWriteData
<1>3. e \in Unit /\ in.wrote + 1 \in Nat \ {0} /\ in.wrote \in Nat
  BY <1>1, DataTyped, Typed
<1>4. toOut' \in Seq(Unit)
  BY <1>1, <1>2, <1>3, AppendProperties, Typed
<1>5. /\ in' \in Side /\ in'.wrote = in.wrote + 1 /\ in'.inFrame = in.inFrame
      /\ in'.frame = in.frame /\ in'.neg = in.neg /\ in'.protocol = in.protocol /\ in'.read = in.read
  BY <1>1, <1>2, <1>3, Typed DEF Side
<1>6. TypeOK'
  <2>1. \A side \in {out', in'} : Len(side.inFrame) <= InCapacity
    BY <1>1, <1>2, <1>5, Typed
  <2> QED
    BY <1>1, <1>2, <1>4, <1>5, <2>1 DEF TypeOK
<1>7. Chosen'
  BY <1>1, <1>2, <1>5 DEF Chosen
<1>8. CASE remote # "host"
  <2>1. 0 \in 0 .. 3
    OBVIOUS
  <2> QED
    BY <1>2, <1>6, <1>7, <1>8, <2>1, InStepKeeps
<1>9. CASE remote = "host"
  <2>1. PICK c \in 0 .. 3 : Phase(c)
    BY <1>9 DEF IInv
  <2>2. c = Frames /\ in.frame = <<>> /\ InInv(c)
    BY <1>1, <1>9, <2>1, InDone DEF Phase, InInv
  <2>3. ReadsInv'
    BY <1>2, <1>5, <1>9 DEF IInv, ReadsInv
  <2>4. InInv(c)'
    BY <1>1, <1>2, <1>5, <2>2, OutSame DEF InInv
  <2>5. Pipe(ToOutUnits, 2 * Took + Len(out.read), out.inFrame, toOut', <<>>, 2 * c + in.wrote + 1)
    <3> DEFINE base == 2 * Took + Len(out.read)
               total == 2 * c + in.wrote
               s == out.inFrame
               w == toOut
    <3>1. /\ base \in Nat /\ total \in Nat /\ Pipe(ToOutUnits, base, s, w, <<>>, total)
          /\ s \in Seq(Unit) /\ w \in Seq(Unit)
      BY <1>1, <1>9, <2>1, <2>2, Positions, Typed DEF Phase
    <3>2. e = ToOutUnits[total + 1]
      <4>1. 2 * Frames + (in.wrote + 1) = total + 1
        BY <1>3, <2>2, FramesAre
      <4> QED
        BY <1>3, <4>1, DataAre
    <3> HIDE DEF base, total, s, w, e
    <3>3. Pipe(ToOutUnits, base, s, Append(w, e), <<>>, total + 1)
      BY <1>3, <3>1, <3>2, PipeWrite
    <3> QED
      BY <1>2, <3>3, Zenon DEF base, total, s, w
  <2>6. Pipe(ToInUnits, 2 * c + Len(in'.read), in'.inFrame, toIn', out.frame, 2 * Made + out.wrote)
    BY <1>2, <1>5, <2>1 DEF Phase
  <2>7. Pipe(ToOutUnits, 2 * Took + Len(out.read), out.inFrame, toOut', in'.frame, 2 * c + in'.wrote)
    <3>1. 2 * c + in'.wrote = 2 * c + in.wrote + 1
      BY <1>3, <1>5, <2>1
    <3> QED
      BY <1>5, <2>2, <2>5, <3>1
  <2> QED
    BY <1>2, <1>6, <1>7, <2>1, <2>3, <2>4, <2>6, <2>7, InStepKeeps
<1> QED
  BY <1>8, <1>9

\* What a protocol reads next is the next unit of the other one.
LEMMA NextRead ==
    ASSUME NEW r \in Seq(Unit), \A i \in 1 .. Len(r) : r[i] = DataUnit(i)
    PROVE  LET t == Append(r, DataUnit(Len(r) + 1))
           IN  /\ t \in Seq(Unit) /\ Len(t) = Len(r) + 1
               /\ \A i \in 1 .. Len(t) : t[i] = DataUnit(i)
<1> DEFINE e == DataUnit(Len(r) + 1)
           t == Append(r, e)
<1>1. Len(r) \in Nat /\ e \in Unit
  BY LenProperties, DataTyped
<1> HIDE DEF e
<1>2. /\ t \in Seq(Unit) /\ Len(t) = Len(r) + 1
      /\ \A i \in 1 .. Len(r) : t[i] = r[i]
      /\ t[Len(r) + 1] = e
  BY <1>1, AppendProperties
<1> HIDE DEF t
<1>3. ASSUME NEW i \in 1 .. Len(t) PROVE t[i] = DataUnit(i)
  <2>1. i \in 1 .. Len(r) \/ i = Len(r) + 1
    BY <1>1, <1>2
  <2> QED
    BY <1>2, <2>1 DEF e
<1> QED
  BY <1>2, <1>3 DEF t, e

\* A side whose negotiation is over: s is its in_frame, w its wire, and r what the
\* protocol has read of the units that follow the first 2 * c.
DataLeft(units, c, r, s, w, f, total) ==
    /\ r \in Seq(Unit) /\ s \in Seq(Unit) /\ w \in Seq(Unit) /\ f \in Seq(Unit)
    /\ \A i \in 1 .. Len(r) : r[i] = DataUnit(i)
    /\ Pipe(units, 2 * c + Len(r), s, w, f, total)

LEMMA Following ==
    \A c \in 0 .. 3, l \in Nat :
        2 * c + l + 1 = 2 * c + (l + 1) /\ 2 * c + l \in Nat /\ l + 1 \in Nat \ {0}
OBVIOUS

\* libp2p_host_stream_read
LEMMA DataRead ==
    ASSUME NEW units, NEW c \in 0 .. 3, NEW total \in Nat, NEW r, NEW s, NEW w, NEW f,
           \A i \in Nat \ {0} : units[2 * c + i] = DataUnit(i),
           DataLeft(units, c, r, s, w, f, total)
    PROVE  /\ s # <<>> => /\ DataLeft(units, c, Append(r, Head(s)), Tail(s), w, f, total)
                          /\ Len(Tail(s)) <= Len(s)
           /\ s = <<>> /\ w # <<>> =>
                  DataLeft(units, c, Append(r, Head(w)), s, Tail(w), f, total)
<1> DEFINE base == 2 * c + Len(r)
           t == Append(r, DataUnit(Len(r) + 1))
<1>1. /\ r \in Seq(Unit) /\ s \in Seq(Unit) /\ w \in Seq(Unit) /\ f \in Seq(Unit)
      /\ \A i \in 1 .. Len(r) : r[i] = DataUnit(i)
      /\ Pipe(units, base, s, w, f, total)
  BY DEF DataLeft
<1>2. Len(r) \in Nat /\ Len(s) \in Nat
  BY <1>1, LenProperties
<1>3. base \in Nat /\ base + 1 = 2 * c + (Len(r) + 1) /\ Len(r) + 1 \in Nat \ {0}
  BY <1>2, Following, Zenon
<1>4. units[2 * c + (Len(r) + 1)] = DataUnit(Len(r) + 1)
  BY <1>3, Zenon
<1>5. t \in Seq(Unit) /\ Len(t) = Len(r) + 1 /\ \A i \in 1 .. Len(t) : t[i] = DataUnit(i)
  BY <1>1, NextRead, Zenon
<1> HIDE DEF base, t
<1>6. /\ s # <<>> =>
           /\ Head(s) = units[base + 1] /\ Tail(s) \in Seq(Unit) /\ Len(Tail(s)) = Len(s) - 1
           /\ Pipe(units, base + 1, Tail(s), w, f, total)
      /\ s = <<>> /\ w # <<>> =>
           /\ Head(w) = units[base + 1] /\ Tail(w) \in Seq(Unit)
           /\ Pipe(units, base + 1, s, Tail(w), f, total)
  <2>1. base \in Nat /\ s \in Seq(Unit) /\ w \in Seq(Unit) /\ f \in Seq(Unit)
        /\ Pipe(units, base, s, w, f, total)
    BY <1>1, <1>3
  <2>2. /\ s # <<>> =>
             /\ Head(s) \in Unit /\ Head(s) = units[base + 1]
             /\ Tail(s) \in Seq(Unit) /\ Len(Tail(s)) = Len(s) - 1
             /\ Pipe(units, base + 1, Tail(s), w, f, total)
        /\ s = <<>> /\ w # <<>> =>
             /\ Head(w) \in Unit /\ Head(w) = units[base + 1]
             /\ Tail(w) \in Seq(Unit)
             /\ Pipe(units, base + 1, s, Tail(w), f, total)
    BY <2>1, PipeConsume, Zenon
  <2> QED
    BY <2>2, Zenon
<1>7. base + 1 = 2 * c + Len(t) /\ units[base + 1] = DataUnit(Len(r) + 1)
  BY <1>3, <1>4, <1>5, Zenon
<1>8. ASSUME s # <<>>
      PROVE  /\ DataLeft(units, c, Append(r, Head(s)), Tail(s), w, f, total)
             /\ Len(Tail(s)) <= Len(s)
  <2>1. Len(Tail(s)) <= Len(s)
    BY <1>2, <1>6, <1>8
  <2>2. Append(r, Head(s)) = t
    BY <1>6, <1>7, <1>8 DEF t
  <2>3. DataLeft(units, c, t, Tail(s), w, f, total)
    BY <1>1, <1>5, <1>6, <1>7, <1>8, Zenon DEF DataLeft
  <2> QED
    BY <2>1, <2>2, <2>3
<1>9. ASSUME s = <<>>, w # <<>>
      PROVE  DataLeft(units, c, Append(r, Head(w)), s, Tail(w), f, total)
  <2>1. Append(r, Head(w)) = t
    BY <1>6, <1>7, <1>9 DEF t
  <2>2. DataLeft(units, c, t, s, Tail(w), f, total)
    BY <1>1, <1>5, <1>6, <1>7, <1>9, Zenon DEF DataLeft
  <2> QED
    BY <2>1, <2>2
<1> QED
  BY <1>8, <1>9

LEMMA InReadDataKeeps ==
    ASSUME IInv, InReadData
    PROVE  IInv'
<1>1. TypeOK /\ Chosen /\ ReadsInv /\ remote = "host" /\ in.neg = Done
  BY DEF IInv, InReadData
<1>2. PICK c \in 0 .. 3 : Phase(c)
  BY <1>1 DEF IInv
<1>3. c = Frames /\ c \in {2, 3} /\ InInv(c)
  BY <1>1, <1>2, InDone, FramesAre DEF Phase
<1>4. /\ \/ /\ in.inFrame # <<>> /\ toIn' = toIn
            /\ in' = [in EXCEPT !.read = Append(in.read, Head(in.inFrame)), !.inFrame = Tail(in.inFrame)]
         \/ /\ in.inFrame = <<>> /\ toIn # <<>> /\ toIn' = Tail(toIn)
            /\ in' = [in EXCEPT !.read = Append(in.read, Head(toIn))]
      /\ UNCHANGED <<known, offers, remote, fin, out, toOut, reset>>
  BY DEF InReadData
<1> DEFINE r == in.read
           s == in.inFrame
           w == toIn
           r1 == in'.read
           s1 == in'.inFrame
           w1 == toIn'
<1>5. /\ \/ s # <<>> /\ r1 = Append(r, Head(s)) /\ s1 = Tail(s) /\ w1 = w
         \/ s = <<>> /\ w # <<>> /\ r1 = Append(r, Head(w)) /\ s1 = s /\ w1 = Tail(w)
      /\ in' = [in EXCEPT !.read = r1, !.inFrame = s1]
  BY <1>1, <1>4, Typed DEF Side
<1>6. /\ DataLeft(ToInUnits, c, r1, s1, w1, out.frame, 2 * Made + out.wrote)
      /\ Len(s1) <= Len(s)
  <2> DEFINE total == 2 * Made + out.wrote
             f == out.frame
  <2>1. DataLeft(ToInUnits, c, r, s, w, f, total) /\ total \in Nat /\ Len(s) <= Len(s)
    <3>1. Pipe(ToInUnits, 2 * c + Len(r), s, w, f, total)
      BY <1>2 DEF Phase
    <3>2. \A i \in 1 .. Len(r) : r[i] = DataUnit(i)
      BY <1>1 DEF ReadsInv
    <3>3. total \in Nat /\ Len(s) <= Len(s)
      BY <1>1, <1>2, Positions, Typed
    <3>4. r \in Seq(Unit) /\ s \in Seq(Unit) /\ w \in Seq(Unit) /\ f \in Seq(Unit)
      BY <1>1, Typed
    <3> HIDE DEF total, f, r, s, w
    <3> QED
      BY <3>1, <3>2, <3>3, <3>4 DEF DataLeft
  <2>2. \A i \in Nat \ {0} : ToInUnits[2 * c + i] = DataUnit(i)
    BY <1>3, DataAre
  <2> HIDE DEF total, f, r, s, w, r1, s1, w1
  <2>3. /\ s # <<>> => /\ DataLeft(ToInUnits, c, Append(r, Head(s)), Tail(s), w, f, total)
                       /\ Len(Tail(s)) <= Len(s)
        /\ s = <<>> /\ w # <<>> =>
               DataLeft(ToInUnits, c, Append(r, Head(w)), s, Tail(w), f, total)
    BY <1>2, <2>1, <2>2, DataRead
  <2>4. DataLeft(ToInUnits, c, r1, s1, w1, f, total) /\ Len(s1) <= Len(s)
    BY <1>5, <2>1, <2>3, Zenon
  <2> QED
    BY <2>4 DEF total, f
<1>A. /\ r1 \in Seq(Unit) /\ s1 \in Seq(Unit) /\ w1 \in Seq(Unit)
      /\ \A i \in 1 .. Len(r1) : r1[i] = DataUnit(i)
      /\ Pipe(ToInUnits, 2 * c + Len(r1), s1, w1, out.frame, 2 * Made + out.wrote)
  BY <1>6 DEF DataLeft
<1>7. /\ in' \in Side /\ in'.frame = in.frame /\ in'.neg = in.neg
      /\ in'.protocol = in.protocol /\ in'.wrote = in.wrote
  <2> HIDE DEF r1, s1
  <2> QED
    BY <1>1, <1>5, <1>A, Typed DEF Side
<1>8. TypeOK'
  <2>1. Len(in'.inFrame) <= InCapacity
    BY <1>1, <1>6, <1>A, Typed, Capacity, LenProperties
  <2>2. \A side \in {out', in'} : Len(side.inFrame) <= InCapacity
    BY <1>1, <1>4, <2>1, Typed
  <2> QED
    BY <1>1, <1>4, <1>7, <1>A, <2>2 DEF TypeOK
<1>9. Chosen'
  BY <1>1, <1>4, <1>7 DEF Chosen
<1>10. ReadsInv'
  BY <1>1, <1>4, <1>A DEF ReadsInv
<1>11. InInv(c)'
  BY <1>1, <1>3, <1>4, <1>7, OutSame DEF InInv
<1>12. Pipe(ToOutUnits, 2 * Took + Len(out.read), out.inFrame, toOut', in'.frame, 2 * c + in'.wrote)
  BY <1>2, <1>4, <1>7 DEF Phase
<1> QED
  BY <1>2, <1>4, <1>8, <1>9, <1>10, <1>11, <1>12, <1>A, InStepKeeps

\* Once the outbound side is done it has made and taken every frame.
LEMMA OutDone ==
    ASSUME IInv, remote = "host", out.neg = Done
    PROVE  Made = Frames /\ Took = Frames /\ Try = Frames /\ out.frame = <<>>
<1>1. Frames = Try /\ OutInv
  BY Counts DEF IInv
<1>2. Made = Try /\ Took = Try
  BY DEF Made, Took, Done
<1> QED
  BY <1>1, <1>2 DEF OutInv, Done

\* The steps of the protocol on the outbound side leave the negotiation as it is.
LEMMA OutDataKeeps ==
    ASSUME IInv, remote = "host", out.neg = Done,
           UNCHANGED <<known, offers, remote, in, fin, reset>>, TypeOK',
           out'.neg = Done, out'.frame = out.frame, out'.protocol = out.protocol,
           out'.fallback = out.fallback, out'.ready = out.ready, ReadsInv',
           NEW c \in 0 .. 3, Phase(c),
           Pipe(ToInUnits, 2 * c + Len(in.read), in.inFrame, toIn', out.frame,
                2 * Frames + out'.wrote),
           Pipe(ToOutUnits, 2 * Frames + Len(out'.read), out'.inFrame, toOut', in.frame,
                2 * c + in.wrote)
    PROVE  IInv'
<1>1. Chosen /\ OutInv /\ InInv(c) /\ in' = in /\ known' = known /\ offers' = offers
  BY DEF IInv, Phase
<1>2. /\ Second' = Second /\ Try' = Try /\ Offered' = Offered /\ Frames' = Frames
      /\ ToInUnits' = ToInUnits /\ ToOutUnits' = ToOutUnits
  BY Rigid DEF Second, Try
<1>3. Made' = Made /\ Took' = Took
  BY <1>2 DEF Made, Took
<1>4. OutInv'
  <2>1. reset' = reset /\ fin' = fin
    OBVIOUS
  <2> QED
    BY <1>1, <1>2, <2>1 DEF OutInv
<1>5. Chosen' /\ InInv(c)'
  BY <1>1, <1>2, <1>3 DEF Chosen, InInv
<1>6. Phase(c)'
  BY <1>1, <1>2, <1>3, <1>5, OutDone DEF Phase
<1> QED
  BY <1>4, <1>5, <1>6 DEF IInv

LEMMA OutWriteDataKeeps ==
    ASSUME IInv, OutWriteData
    PROVE  IInv'
<1> DEFINE e == DataUnit(out.wrote + 1)
<1>1. TypeOK /\ ReadsInv /\ remote = "host" /\ out.neg = Done
  BY DEF IInv, OutWriteData
<1>2. /\ toIn' = Append(toIn, e) /\ out' = [out EXCEPT !.wrote = out.wrote + 1]
      /\ UNCHANGED <<known, offers, remote, fin, in, toOut, reset>>
  BY DEF OutWriteData
<1>3. PICK c \in 0 .. 3 : Phase(c)
  BY <1>1 DEF IInv
<1>4. e \in Unit /\ out.wrote + 1 \in Nat \ {0} /\ out.wrote \in Nat
  BY <1>1, DataTyped, Typed
<1>5. toIn' \in Seq(Unit)
  BY <1>1, <1>2, <1>4, AppendProperties, Typed
<1>6. /\ out' \in Side /\ out'.wrote = out.wrote + 1 /\ out'.inFrame = out.inFrame
      /\ out'.frame = out.frame /\ out'.neg = out.neg /\ out'.protocol = out.protocol
      /\ out'.fallback = out.fallback /\ out'.read = out.read
  BY <1>1, <1>2, <1>4, Typed DEF Side
<1>7. out'.ready = out.ready
  BY <1>1, <1>2, Typed DEF Side
<1>8. TypeOK'
  <2>1. \A side \in {out', in'} : Len(side.inFrame) <= InCapacity
    BY <1>1, <1>2, <1>6, Typed
  <2> QED
    BY <1>1, <1>2, <1>5, <1>6, <2>1 DEF TypeOK
<1>9. ReadsInv'
  BY <1>1, <1>2, <1>6 DEF ReadsInv
<1>10. /\ Made = Frames /\ Took = Frames /\ out.frame = <<>>
       /\ 2 * Frames + out'.wrote = 2 * Made + out.wrote + 1
  <2>1. Made = Frames /\ Took = Frames /\ out.frame = <<>>
    BY <1>1, OutDone
  <2> QED
    BY <1>4, <1>6, <2>1, FramesAre
<1>11. Pipe(ToInUnits, 2 * c + Len(in.read), in.inFrame, toIn', <<>>, 2 * Made + out.wrote + 1)
  <2> DEFINE base == 2 * c + Len(in.read)
             total == 2 * Made + out.wrote
             s == in.inFrame
             w == toIn
  <2>1. /\ base \in Nat /\ total \in Nat /\ Pipe(ToInUnits, base, s, w, <<>>, total)
        /\ s \in Seq(Unit) /\ w \in Seq(Unit)
    BY <1>1, <1>3, <1>10, Positions, Typed DEF Phase
  <2>2. e = ToInUnits[total + 1]
    <3>1. 2 * Frames + (out.wrote + 1) = total + 1
      BY <1>4, <1>10, FramesAre
    <3> QED
      BY <1>4, <3>1, DataAre
  <2> HIDE DEF base, total, s, w, e
  <2>3. Pipe(ToInUnits, base, s, Append(w, e), <<>>, total + 1)
    BY <1>4, <2>1, <2>2, PipeWrite
  <2> QED
    BY <1>2, <2>3, Zenon DEF base, total, s, w
<1>12. Pipe(ToInUnits, 2 * c + Len(in.read), in.inFrame, toIn', out.frame, 2 * Frames + out'.wrote)
  BY <1>10, <1>11
<1>13. Pipe(ToOutUnits, 2 * Frames + Len(out'.read), out'.inFrame, toOut', in.frame,
            2 * c + in.wrote)
  BY <1>2, <1>3, <1>6, <1>10 DEF Phase
<1> QED
  BY <1>1, <1>2, <1>3, <1>6, <1>7, <1>8, <1>9, <1>12, <1>13, OutDataKeeps

LEMMA OutReadDataKeeps ==
    ASSUME IInv, OutReadData
    PROVE  IInv'
<1>1. TypeOK /\ ReadsInv /\ remote = "host" /\ out.neg = Done
  BY DEF IInv, OutReadData
<1>2. PICK c \in 0 .. 3 : Phase(c)
  BY <1>1 DEF IInv
<1>3. Made = Frames /\ Took = Frames /\ Frames \in 0 .. 3
  BY <1>1, OutDone, FramesAre
<1>4. /\ \/ /\ out.inFrame # <<>> /\ toOut' = toOut
            /\ out' = [out EXCEPT !.read = Append(out.read, Head(out.inFrame)),
                                  !.inFrame = Tail(out.inFrame)]
         \/ /\ out.inFrame = <<>> /\ toOut # <<>> /\ toOut' = Tail(toOut)
            /\ out' = [out EXCEPT !.read = Append(out.read, Head(toOut))]
      /\ UNCHANGED <<known, offers, remote, fin, in, toIn, reset>>
  BY DEF OutReadData
<1> DEFINE r == out.read
           s == out.inFrame
           w == toOut
           r1 == out'.read
           s1 == out'.inFrame
           w1 == toOut'
<1>5. /\ \/ s # <<>> /\ r1 = Append(r, Head(s)) /\ s1 = Tail(s) /\ w1 = w
         \/ s = <<>> /\ w # <<>> /\ r1 = Append(r, Head(w)) /\ s1 = s /\ w1 = Tail(w)
      /\ out' = [out EXCEPT !.read = r1, !.inFrame = s1]
  BY <1>1, <1>4, Typed DEF Side
<1>6. /\ DataLeft(ToOutUnits, Frames, r1, s1, w1, in.frame, 2 * c + in.wrote)
      /\ Len(s1) <= Len(s)
  <2> DEFINE total == 2 * c + in.wrote
             f == in.frame
  <2>1. DataLeft(ToOutUnits, Frames, r, s, w, f, total) /\ total \in Nat /\ Len(s) <= Len(s)
    <3>1. Pipe(ToOutUnits, 2 * Frames + Len(r), s, w, f, total)
      BY <1>2, <1>3 DEF Phase
    <3>2. \A i \in 1 .. Len(r) : r[i] = DataUnit(i)
      BY <1>1 DEF ReadsInv
    <3>3. total \in Nat /\ Len(s) <= Len(s)
      <4>1. Len(s) \in Nat
        BY <1>1, Typed
      <4>2. Len(s) <= Len(s)
        BY <4>1
      <4> QED
        BY <1>1, <1>2, <4>2, Positions, Zenon
    <3>4. r \in Seq(Unit) /\ s \in Seq(Unit) /\ w \in Seq(Unit) /\ f \in Seq(Unit)
      BY <1>1, Typed
    <3> HIDE DEF total, f, r, s, w
    <3> QED
      BY <3>1, <3>2, <3>3, <3>4 DEF DataLeft
  <2>2. \A i \in Nat \ {0} : ToOutUnits[2 * Frames + i] = DataUnit(i)
    BY DataAre
  <2> HIDE DEF total, f, r, s, w, r1, s1, w1
  <2>3. /\ s # <<>> => /\ DataLeft(ToOutUnits, Frames, Append(r, Head(s)), Tail(s), w, f, total)
                       /\ Len(Tail(s)) <= Len(s)
        /\ s = <<>> /\ w # <<>> =>
               DataLeft(ToOutUnits, Frames, Append(r, Head(w)), s, Tail(w), f, total)
    BY <1>3, <2>1, <2>2, DataRead
  <2>4. DataLeft(ToOutUnits, Frames, r1, s1, w1, f, total) /\ Len(s1) <= Len(s)
    BY <1>5, <2>1, <2>3, Zenon
  <2> QED
    BY <2>4 DEF total, f
<1>7. /\ r1 \in Seq(Unit) /\ s1 \in Seq(Unit) /\ w1 \in Seq(Unit)
      /\ \A i \in 1 .. Len(r1) : r1[i] = DataUnit(i)
      /\ Pipe(ToOutUnits, 2 * Frames + Len(r1), s1, w1, in.frame, 2 * c + in.wrote)
  BY <1>6 DEF DataLeft
<1>8. /\ out' \in Side /\ out'.frame = out.frame /\ out'.neg = out.neg
      /\ out'.protocol = out.protocol /\ out'.fallback = out.fallback /\ out'.wrote = out.wrote
  <2> HIDE DEF r1, s1
  <2> QED
    BY <1>1, <1>5, <1>7, Typed DEF Side
<1>9. out'.ready = out.ready
  <2> HIDE DEF r1, s1
  <2> QED
    BY <1>1, <1>5, Typed DEF Side
<1>10. TypeOK'
  <2>1. Len(out'.inFrame) <= InCapacity
    BY <1>1, <1>6, <1>7, Typed, Capacity, LenProperties
  <2>2. \A side \in {out', in'} : Len(side.inFrame) <= InCapacity
    BY <1>1, <1>4, <2>1, Typed
  <2> QED
    BY <1>1, <1>4, <1>7, <1>8, <2>2 DEF TypeOK
<1>11. ReadsInv'
  BY <1>1, <1>4, <1>7 DEF ReadsInv
<1>12. Pipe(ToInUnits, 2 * c + Len(in.read), in.inFrame, toIn', out.frame, 2 * Frames + out'.wrote)
  BY <1>2, <1>3, <1>4, <1>8 DEF Phase
<1> QED
  BY <1>1, <1>2, <1>4, <1>7, <1>8, <1>9, <1>10, <1>11, <1>12, OutDataKeeps

\* A reset between two hosts comes from the outbound side.
LEMMA ResetSeenKeeps ==
    ASSUME IInv, ResetSeen
    PROVE  IInv'
<1>1. TypeOK /\ Chosen /\ reset
  BY DEF IInv, ResetSeen
<1>2. remote = "host" => out.neg = Failed
  BY <1>1 DEF IInv, OutInv
<1>3. /\ in.neg \notin {Done, Failed} /\ in' = [in EXCEPT !.neg = Failed]
      /\ UNCHANGED <<known, offers, remote, fin, out, toIn, toOut, reset>>
  BY <1>2 DEF ResetSeen
<1>4. /\ in' \in Side /\ in'.neg = Failed /\ in'.inFrame = in.inFrame /\ in'.frame = in.frame
      /\ in'.protocol = in.protocol /\ in'.wrote = in.wrote /\ in'.read = in.read
  BY <1>1, <1>3, Typed DEF Side
<1>5. TypeOK'
  <2>1. \A side \in {out', in'} : Len(side.inFrame) <= InCapacity
    BY <1>1, <1>3, <1>4, Typed
  <2> QED
    BY <1>1, <1>3, <1>4, <2>1 DEF TypeOK
<1>6. Chosen'
  BY <1>1, <1>3, <1>4 DEF Chosen, Done, Failed
<1>7. CASE remote # "host"
  <2>1. 0 \in 0 .. 3
    OBVIOUS
  <2> QED
    BY <1>3, <1>5, <1>6, <1>7, <2>1, InStepKeeps
<1>8. CASE remote = "host"
  <2>1. PICK c \in 0 .. 3 : Phase(c)
    BY <1>8 DEF IInv
  <2>2. ReadsInv'
    BY <1>3, <1>4, <1>8 DEF IInv, ReadsInv
  <2>3. InInv(c)'
    BY <1>2, <1>3, <1>4, <1>8, <2>1, OutSame DEF Phase, InInv, Done, Failed
  <2>4. /\ Pipe(ToInUnits, 2 * c + Len(in'.read), in'.inFrame, toIn', out.frame, 2 * Made + out.wrote)
        /\ Pipe(ToOutUnits, 2 * Took + Len(out.read), out.inFrame, toOut', in'.frame, 2 * c + in'.wrote)
    BY <1>3, <1>4, <2>1 DEF Phase
  <2> QED
    BY <1>3, <1>5, <1>6, <2>1, <2>2, <2>3, <2>4, InStepKeeps
<1> QED
  BY <1>7, <1>8

LEMMA OtherStepKeeps ==
    ASSUME IInv, OtherStep
    PROVE  IInv'
<1>1. TypeOK /\ Chosen
  BY DEF IInv
<1>2. /\ remote # "host" /\ UNCHANGED <<known, offers, remote, out, in, reset>>
      /\ fin' \in BOOLEAN /\ toIn' \in Seq(Unit) /\ toOut' \in Seq(Unit)
  <2>1. CASE OtherReads
    BY <1>1, <2>1, EmptySeq DEF OtherReads, TypeOK
  <2>2. CASE OtherFinishes
    BY <1>1, <2>2 DEF OtherFinishes, TypeOK
  <2>3. ASSUME NEW m \in Messages, OtherSends(m)
        PROVE  /\ remote # "host" /\ UNCHANGED <<known, offers, remote, out, in, reset>>
               /\ fin' \in BOOLEAN /\ toIn' \in Seq(Unit) /\ toOut' \in Seq(Unit)
    <3>1. toIn \o Frame(m) \in Seq(Unit)
      BY <1>1, FrameIs, ConcatProperties, Typed
    <3> QED
      BY <1>1, <2>3, <3>1 DEF OtherSends, TypeOK
  <2> QED
    BY <2>1, <2>2, <2>3 DEF OtherStep
<1>3. TypeOK'
  BY <1>1, <1>2 DEF TypeOK
<1>4. Chosen'
  BY <1>1, <1>2 DEF Chosen
<1> QED
  BY <1>2, <1>3, <1>4 DEF IInv

-----------------------------------------------------------------------------
(***************************************************************************)
(* The theorems.                                                           *)
(***************************************************************************)

LEMMA NextInvariant == IInv /\ [Next]_vars => IInv'
<1> SUFFICES ASSUME IInv, [Next]_vars PROVE IInv'
  OBVIOUS
<1>1. ASSUME NEW k \in 1 .. 2, OutSendMs(k) PROVE IInv'
  <2>1. /\ remote = "host" /\ out.neg = "OUT_SEND_MS"
        /\ OutWrites("multistream", k, "OUT_SEND_PROTOCOL")
    BY <1>1 DEF OutSendMs, OutTurn
  <2>2. k \in Nat
    OBVIOUS
  <2> QED
    BY <2>1, <2>2, OutWritesKeeps
<1>2. ASSUME NEW k \in 1 .. 2, OutSendProtocol(k) PROVE IInv'
  <2>1. /\ remote = "host" /\ out.neg = "OUT_SEND_PROTOCOL"
        /\ OutWrites(out.protocol, k, IF out.ready THEN "OUT_READ_PROTOCOL" ELSE "OUT_READ_MS")
    BY <1>2 DEF OutSendProtocol, OutTurn
  <2>2. k \in Nat
    OBVIOUS
  <2> QED
    BY <2>1, <2>2, OutWritesKeeps
<1>3. ASSUME NEW n \in 1 .. InCapacity, OutRead(n) \/ InRead(n) PROVE IInv'
  <2>1. n \in Nat
    BY Capacity
  <2> QED
    BY <1>3, <2>1, OutReadKeeps, InReadKeeps
<1>4. ASSUME NEW k \in 1 .. 2, InSend(k) PROVE IInv'
  BY <1>4, InSendKeeps
<1>5. CASE OutTakeMs
  BY <1>5, OutTakeMsKeeps
<1>6. CASE OutTakeProtocol
  BY <1>6, OutTakeProtocolKeeps
<1>7. CASE InTakeMs
  BY <1>7, InTakeMsKeeps
<1>8. CASE InTakeLs
  BY <1>8, InTakeLsKeeps
<1>9. CASE InTakeProtocol
  BY <1>9, InTakeProtocolKeeps
<1>10. CASE InBroken
  BY <1>10, InBrokenKeeps
<1>11. CASE OutWriteData
  BY <1>11, OutWriteDataKeeps
<1>12. CASE InWriteData
  BY <1>12, InWriteDataKeeps
<1>13. CASE OutReadData
  BY <1>13, OutReadDataKeeps
<1>14. CASE InReadData
  BY <1>14, InReadDataKeeps
<1>15. CASE ResetSeen
  BY <1>15, ResetSeenKeeps
<1>16. CASE OtherStep
  BY <1>16, OtherStepKeeps
<1>17. CASE UNCHANGED vars
  <2>1. /\ known' = known /\ offers' = offers /\ remote' = remote /\ out' = out /\ in' = in
        /\ toIn' = toIn /\ toOut' = toOut /\ fin' = fin /\ reset' = reset
    BY <1>17 DEF vars
  <2>2. TypeOK' /\ Chosen'
    BY <2>1 DEF IInv, TypeOK, Chosen
  <2>3. CASE remote # "host"
    BY <2>1, <2>2, <2>3 DEF IInv
  <2>4. CASE remote = "host"
    <3>1. PICK c \in 0 .. 3 : Phase(c)
      BY <2>4 DEF IInv
    <3>2. ReadsInv'
      BY <2>1, <2>4 DEF IInv, ReadsInv
    <3>3. InInv(c)'
      BY <2>1, <3>1, OutSame DEF Phase, InInv
    <3> QED
      BY <2>1, <2>2, <3>1, <3>2, <3>3, InStepKeeps DEF Phase
  <2> QED
    BY <2>3, <2>4
<1> QED
  BY <1>1, <1>2, <1>3, <1>4, <1>5, <1>6, <1>7, <1>8, <1>9, <1>10, <1>11, <1>12, <1>13, <1>14,
     <1>15, <1>16, <1>17 DEF Next, OutStep, InStep, DataStep

\* The inductive invariant holds of host_stream_outbound_step and
\* host_stream_inbound_step in every reachable state.
THEOREM Invariance == Spec => []IInv
<1>1. Init => IInv
  BY InitInvariant
<1>2. IInv /\ [Next]_vars => IInv'
  BY NextInvariant
<1> QED
  BY <1>1, <1>2, PTL DEF Spec

\* Every variable keeps its type, and host_stream_read_message never reads more into
\* in_frame than it holds, whatever the size of the reads.
THEOREM TypeCorrect == Spec => []TypeOK
<1>1. IInv => TypeOK
  BY DEF IInv
<1> QED
  BY <1>1, Invariance, PTL

\* Two hosts agree: the outbound side opens the stream (host_stream_complete_negotiation)
\* only with the protocol the inbound side has chosen, the first of its offers that is
\* known there, and it fails only when none is; the inbound side never opens a stream
\* with a protocol that is not registered.
THEOREM HostsAgree == Spec => []Agreement
<1>1. IInv => Agreement
  <2> SUFFICES ASSUME IInv PROVE Agreement
    OBVIOUS
  <2>1. in.neg = Done => in.protocol \in known
    BY DEF IInv, Chosen
  <2>2. ASSUME remote = "host", out.neg = Done
        PROVE  /\ in.protocol = out.protocol /\ out.protocol \in known
               /\ out.protocol # offers[1] => offers[1] \notin known
    <3>1. PICK c \in 0 .. 3 : Phase(c)
      BY <2>2 DEF IInv
    <3>2. OutInv /\ InInv(c) /\ out.protocol \in known /\ out.protocol = Offered[Try]
      BY <2>2, <3>1 DEF IInv, OutInv, Phase
    <3>3. c = Try /\ Try \in {2, 3} /\ Offered[2] = offers[1]
      <4>1. Made = Try /\ Took = Try /\ Try \in {2, 3} /\ Offered[2] = offers[1]
        BY <2>2, OutDone, Counts
      <4> QED
        BY <3>1, <3>2, <4>1 DEF InInv
    <3>4. in.protocol = Offered[c]
      BY <3>2, <3>3 DEF InInv
    <3>5. out.protocol # offers[1] => offers[1] \notin known
      BY <3>2, <3>3 DEF OutInv, Try
    <3> QED
      BY <3>2, <3>3, <3>4, <3>5
  <2>3. ASSUME remote = "host", out.neg = Failed \/ in.neg = Failed
        PROVE  offers[1] \notin known /\ offers[2] \notin known
    <3>1. PICK c \in 0 .. 3 : Phase(c)
      BY <2>3 DEF IInv
    <3>2. OutInv /\ InInv(c)
      BY <2>3, <3>1 DEF IInv, Phase
    <3>3. out.neg = Failed
      BY <2>3, <3>2 DEF InInv, Done, Failed
    <3> QED
      BY <3>2, <3>3 DEF OutInv
  <2> QED
    BY <2>1, <2>2, <2>3 DEF Agreement
<1> QED
  BY <1>1, Invariance, PTL

LEMMA Surplus == \A b, l, m, n \in Nat : b <= b + l + m + n
OBVIOUS

LEMMA Remainder ==
    \A c, f \in 0 .. 3, l, w \in Nat : c <= f /\ 2 * f + l <= 2 * c + w => l <= w
OBVIOUS

\* What libp2p_host_stream_read hands to a protocol is what the other one wrote, from
\* the first unit on: nothing of the negotiation, and nothing missing of what
\* host_stream_read_message read along with the last frame.
THEOREM ProtocolsReadWhatWasWritten == Spec => []DataIntact
<1>1. IInv => DataIntact
  <2> SUFFICES ASSUME IInv, remote = "host" PROVE DataIntact
    BY DEF DataIntact
  <2>1. PICK c \in 0 .. 3 : Phase(c)
    BY DEF IInv
  <2>2. TypeOK /\ OutInv /\ ReadsInv /\ InInv(c)
    BY <2>1 DEF IInv, Phase
  <2>3. c <= Made /\ Made <= Frames /\ c <= Frames /\ Made \in 0 .. 3 /\ Frames \in 0 .. 3
    <3>1. c <= Made /\ Made \in 0 .. Try /\ Try \in {2, 3} /\ Try <= Frames /\ Took \in 0 .. Try
          /\ Frames \in {2, 3}
      BY <2>2, Counts, FramesAre DEF InInv
    <3> QED
      BY <3>1
  <2>4. /\ Len(out.read) \in Nat /\ Len(in.read) \in Nat /\ out.wrote \in Nat /\ in.wrote \in Nat
        /\ 2 * c + Len(in.read) <= 2 * Made + out.wrote
        /\ 2 * Took + Len(out.read) <= 2 * c + in.wrote
    <3>1. /\ Len(out.read) \in Nat /\ Len(in.read) \in Nat /\ out.wrote \in Nat /\ in.wrote \in Nat
          /\ Len(in.inFrame) \in Nat /\ Len(out.inFrame) \in Nat /\ Len(toIn) \in Nat
          /\ Len(toOut) \in Nat /\ Len(in.frame) \in Nat /\ Len(out.frame) \in Nat
      BY <2>2, Typed
    <3>2. /\ 2 * c + Len(in.read) + Len(in.inFrame) + Len(toIn) + Len(out.frame) = 2 * Made + out.wrote
          /\ 2 * Took + Len(out.read) + Len(out.inFrame) + Len(toOut) + Len(in.frame)
               = 2 * c + in.wrote
      BY <2>1 DEF Phase, Pipe
    <3>3. 2 * c + Len(in.read) \in Nat /\ 2 * Took + Len(out.read) \in Nat
      BY <2>1, Positions
    <3> QED
      BY <3>1, <3>2, <3>3, Surplus, Zenon
  <2>5. Len(out.read) <= in.wrote
    <3>1. CASE out.neg = Done
      <4>1. Took = Frames
        BY <3>1, OutDone
      <4> QED
        BY <2>1, <2>3, <2>4, <4>1, Remainder, Zenon
    <3>2. CASE out.neg # Done
      <4>1. Len(out.read) = 0
        BY <2>2, <3>2, EmptySeq DEF OutInv
      <4> QED
        BY <2>4, <4>1
    <3> QED
      BY <3>1, <3>2
  <2>6. Len(in.read) <= out.wrote
    <3>1. CASE in.neg = Done
      <4>1. c = Frames
        BY <2>1, <2>2, <3>1, InDone
      <4> QED
        BY <2>1, <2>3, <2>4, <4>1, Remainder, Zenon
    <3>2. CASE in.neg # Done
      <4>1. Len(in.read) = 0
        BY <2>2, <3>2, EmptySeq DEF InInv
      <4> QED
        BY <2>4, <4>1
    <3> QED
      BY <3>1, <3>2
  <2> QED
    BY <2>2, <2>5, <2>6 DEF DataIntact, ReadsInv
<1> QED
  BY <1>1, Invariance, PTL

=============================================================================
