----------------------------- MODULE PingProofs -----------------------------
(***************************************************************************)
(* Proofs about Ping, for any number of connections, slots and stream      *)
(* handles, any ring and any payload.                                      *)
(***************************************************************************)
EXTENDS Ping, SequenceTheorems, WellFoundedInduction, TLAPS

-----------------------------------------------------------------------------
(***************************************************************************)
(* The inductive invariant, on a record st of the four components that the *)
(* callbacks touch.                                                        *)
(***************************************************************************)

Initiating == {"initiator_writing", "initiator_reading", "initiator_idle"}
Responding == {"responder_reading", "responder_writing"}

\* What the state of a slot says of its buffers, and a stream in use of its direction:
\* this holds whether or not there was trouble.
SlotOK(s) ==
    /\ s \in SlotRec /\ s.txPos <= PayloadBytes /\ Len(s.rx) <= PayloadBytes
    /\ s.state \in Initiating \cup {"opening"} => s.dir = "out"
    /\ s.state \in Responding => s.dir = "in"
    /\ s.state \in Initiating \cup {"opening", "responder_writing"} => Len(s.tx) = PayloadBytes
    /\ s.state \in {"opening", "initiator_writing", "initiator_idle"} => s.rx = <<>>
    /\ s.state \in {"opening", "initiator_idle", "responder_reading"} => s.txPos = 0
    /\ s.state = "initiator_reading" => s.txPos = PayloadBytes
    /\ s.state \in {"free", "opening"} => s.stream = NoStream

HandleOK(n) == n \in HandleRec /\ (n.use # "free" => n.dir \in {"in", "out"})

Shaped(st) ==
    /\ st = [slot |-> st.slot, events |-> st.events, hs |-> st.hs, trouble |-> st.trouble]
    /\ st.slot \in [Slots -> SlotRec] /\ \A i \in Slots : SlotOK(st.slot[i])
    /\ st.events \in Seq(EventRec) /\ Len(st.events) <= EventCapacity
    /\ st.hs \in [Handles -> HandleRec] /\ \A h \in Handles : HandleOK(st.hs[h])
    /\ st.trouble \in BOOLEAN

\* What a stream has carried, as its slot accounts for it: the pings and their echoes X,
\* then what is under way of the current one.
Accounts(s, n) ==
    /\ s.state \in Initiating =>
         \E X \in Seq(Nat) : n.wrote = X \o SubSeq(s.tx, 1, s.txPos) /\ n.got = X \o s.rx
    /\ s.state = "responder_reading" => n.got = n.wrote \o s.rx
    /\ s.state = "responder_writing" =>
         \E X \in Seq(Nat) : n.wrote = X \o SubSeq(s.tx, 1, s.txPos) /\ n.got = X \o s.tx
Honest(s, n) == n.dead \/ Accounts(s, n)

\* No more was echoed than was read, whoever still names the stream.
Echoed(n) == (n.use = "open" /\ n.dir = "in" /\ ~n.dead) => IsPrefix(n.wrote, n.got)

\* A slot in use has an open stream of its direction to itself.
Backed(st, i) ==
    LET h == st.slot[i].stream
    IN /\ h \in Handles /\ st.hs[h].use = "open" /\ st.hs[h].dir = st.slot[i].dir
       /\ \A j \in Slots : st.slot[j].state # "free" /\ st.slot[j].stream = h => j = i

\* A stream under negotiation is nobody's, and fresh.
Unnamed(st, h) == \A i \in Slots : st.slot[i].state # "free" => st.slot[i].stream # h
Fresh(st, h) == /\ Unnamed(st, h) /\ ~st.hs[h].dead
                /\ st.hs[h].got = <<>> /\ st.hs[h].wrote = <<>>

Good(st) ==
    /\ \A i \in Slots : st.slot[i].state \in Active =>
         Backed(st, i) /\ Honest(st.slot[i], st.hs[st.slot[i].stream])
    /\ \A h \in Handles : st.hs[h].use = "negotiating" => Fresh(st, h)
    /\ \A h \in Handles : Echoed(st.hs[h])

Fine(st) == Shaped(st) /\ (st.trouble \/ Good(st))

IInv == Fine(Now) /\ opened \in Nat

-----------------------------------------------------------------------------
(***************************************************************************)
(* Constants and sequences of bytes                                        *)
(***************************************************************************)

LEMMA Constants ==
    /\ NoStream \notin Handles
    /\ EventCapacity \in Nat \ {0}
    /\ PayloadBytes \in Nat \ {0}
    /\ \A p \in Payloads : p \in Seq(Nat) /\ Len(p) = PayloadBytes
<1>1. PICK q \in Payloads : q = CHOOSE p \in Payloads : TRUE
  BY PingAssumption
<1>2. \A p \in Payloads : p \in Seq(Nat) /\ Len(p) = Len(q) /\ Len(p) > 0
  BY PingAssumption
<1>3. PayloadBytes = Len(q)
  BY <1>1 DEF PayloadBytes
<1>4. Len(q) \in Nat /\ Len(q) > 0
  BY <1>2
<1>5. EventCapacity \in Nat \ {0} /\ NoStream \notin 1 .. NumHandles
  BY PingAssumption
<1> QED
  BY <1>2, <1>3, <1>4, <1>5 DEF Handles

\* Every number of a nonempty set of them is above its least.
LEMMA FirstIs ==
    ASSUME NEW T, T \subseteq Nat, T # {}
    PROVE  First(T) \in T
<1> DEFINE R == {ss \in Nat \X Nat : ss[1] < ss[2]}
<1>1. IsWellFoundedOn(R, Nat)
  BY NatLessThanWellFounded, Zenon DEF OpToRel
<1>2. \A x, y \in Nat : x < y => <<x, y>> \in R
  OBVIOUS
<1> HIDE DEF R
<1>3. PICK n \in T : \A k \in T : ~(<<k, n>> \in R)
  BY <1>1, WFMin
<1>4. \A k \in T : n <= k
  <2>1. SUFFICES ASSUME NEW k \in T, ~(n <= k)
                 PROVE  FALSE
    OBVIOUS
  <2>2. k < n
    BY <2>1
  <2> QED
    BY <1>2, <1>3, <2>2
<1> QED
  BY <1>4 DEF First

\* A prefix and what follows it.
LEMMA Joined ==
    ASSUME NEW t \in Seq(Nat), NEW a \in Nat, NEW b \in Nat, a + b <= Len(t)
    PROVE  /\ SubSeq(t, 1, a) \in Seq(Nat) /\ SubSeq(t, a + 1, a + b) \in Seq(Nat)
           /\ Len(SubSeq(t, 1, a)) = a /\ Len(SubSeq(t, a + 1, a + b)) = b
           /\ SubSeq(t, 1, a) \o SubSeq(t, a + 1, a + b) = SubSeq(t, 1, a + b)
<1>1. PICK n \in Nat : n = a + b
  OBVIOUS
<1>2. a \in 1 - 1 .. Len(t) /\ n \in a .. Len(t) /\ 1 \in 1 .. Len(t) + 1
  BY <1>1
<1>3. SubSeq(t, 1, a) \o SubSeq(t, a + 1, n) = SubSeq(t, 1, n)
  BY <1>2, ConcatAdjacentSubSeq
<1>4. /\ SubSeq(t, 1, a) \in Seq(Nat) /\ Len(SubSeq(t, 1, a)) = a
  <2>1. \A i \in 1 .. a : t[i] \in Nat
    BY <1>1, <1>2
  <2> QED
    BY <2>1, SubSeqProperties
<1>5. PICK m \in Nat : m = a + 1
  OBVIOUS
<1>6. /\ SubSeq(t, m, n) \in Seq(Nat) /\ Len(SubSeq(t, m, n)) = b
  <2>1. \A i \in m .. n : t[i] \in Nat
    BY <1>1, <1>2, <1>5
  <2>2. Len(SubSeq(t, m, n)) = IF m <= n THEN n - m + 1 ELSE 0
    BY <2>1, SubSeqProperties
  <2>3. Len(SubSeq(t, m, n)) = b
    BY <1>1, <1>5, <2>2
  <2> QED
    BY <2>1, <2>3, SubSeqProperties
<1> QED
  BY <1>1, <1>3, <1>4, <1>5, <1>6

LEMMA Halves ==
    ASSUME NEW t \in Seq(Nat), NEW k \in Nat, k <= Len(t)
    PROVE  /\ SubSeq(t, 1, k) \in Seq(Nat) /\ Len(SubSeq(t, 1, k)) = k
           /\ SubSeq(t, k + 1, Len(t)) \in Seq(Nat)
<1>1. PICK l \in Nat : l = Len(t) /\ k <= l
  OBVIOUS
<1>2. \A i, j \in Nat : i <= j => j - i \in Nat /\ i + (j - i) = j
  OBVIOUS
<1>3. l - k \in Nat /\ k + (l - k) = Len(t)
  BY <1>1, <1>2
<1>4. PICK b \in Nat : k + b = Len(t)
  BY <1>3, Zenon
<1>5. /\ SubSeq(t, 1, k) \in Seq(Nat) /\ Len(SubSeq(t, 1, k)) = k
      /\ SubSeq(t, k + 1, k + b) \in Seq(Nat)
  BY <1>4, Joined
<1> QED
  BY <1>4, <1>5

Regroups(X, Y, Z) == (X \o Y) \o Z = X \o (Y \o Z)

LEMMA Associative ==
    ASSUME NEW X \in Seq(Nat), NEW Y \in Seq(Nat), NEW Z \in Seq(Nat)
    PROVE  Regroups(X, Y, Z)
BY ConcatAssociative, SMTT(20) DEF Regroups

\* Without what was put at its end, a sequence is what it was.
LEMMA AllButOf ==
    ASSUME NEW X \in Seq(Nat), NEW Y \in Seq(Nat)
    PROVE  AllBut(X \o Y, Len(Y)) = X /\ IsPrefix(X, X \o Y)
<1>1. X \o Y \in Seq(Nat) /\ Len(X \o Y) = Len(X) + Len(Y) /\ Len(X) \in Nat /\ Len(Y) \in Nat
  BY ConcatProperties
<1>2. SubSeq(X \o Y, 1, Len(X)) = X
  <2>1. CASE X = <<>>
    BY <1>1, <2>1, SubSeqEmpty
  <2>2. CASE X # <<>>
    <3>1. 1 \in 1 .. Len(X) /\ Len(X) \in 1 .. Len(X)
      BY <2>2, EmptySeq
    <3>2. SubSeq(X \o Y, 1, Len(X)) = SubSeq(X, 1, Len(X))
      BY <3>1, SubSeqOfConcat1
    <3> QED
      BY <3>2, SubSeqFull
  <2> QED
    BY <2>1, <2>2
<1>3. SubSeq(X, 1, Len(X)) = X
  BY SubSeqFull
<1>4. (Len(X) + Len(Y)) - Len(Y) = Len(X) /\ Len(X) <= Len(X) + Len(Y)
  BY <1>1
<1> QED
  BY <1>1, <1>2, <1>3, <1>4 DEF AllBut, IsPrefix

-----------------------------------------------------------------------------
(***************************************************************************)
(* One slot and one stream change.                                         *)
(***************************************************************************)

\* The record with slot i, handle h, the ring and trouble replaced.
Put(st, ev, tr, i, s2, h, n2) ==
    [slot |-> [st.slot EXCEPT ![i] = s2], events |-> ev,
     hs |-> [st.hs EXCEPT ![h] = n2], trouble |-> tr]

\* What a callback leaves alone.
Changed(st, nx, i, h) ==
    /\ Shaped(nx)
    /\ \A j \in Slots \ {i} : nx.slot[j] = st.slot[j]
    /\ \A g \in Handles \ {h} : nx.hs[g] = st.hs[g]
    /\ nx.hs[h].use = st.hs[h].use /\ nx.hs[h].dir = st.hs[h].dir
    /\ st.trouble => nx.trouble

Ring(ev) == ev \in Seq(EventRec) /\ Len(ev) <= EventCapacity

LEMMA PutIs ==
    ASSUME NEW st, Shaped(st), NEW ev, Ring(ev), NEW tr \in BOOLEAN, st.trouble => tr,
           NEW i \in Slots, NEW s2, SlotOK(s2), NEW h \in Handles, NEW n2, HandleOK(n2),
           n2.use = st.hs[h].use, n2.dir = st.hs[h].dir,
           NEW nx, nx = Put(st, ev, tr, i, s2, h, n2)
    PROVE  /\ Changed(st, nx, i, h)
           /\ nx.slot[i] = s2 /\ nx.hs[h] = n2 /\ nx.events = ev /\ nx.trouble = tr
<1>1. /\ nx.slot = [st.slot EXCEPT ![i] = s2] /\ nx.events = ev
      /\ nx.hs = [st.hs EXCEPT ![h] = n2] /\ nx.trouble = tr
      /\ nx = [slot |-> nx.slot, events |-> nx.events, hs |-> nx.hs, trouble |-> nx.trouble]
  BY DEF Put
<1>2. /\ st.slot \in [Slots -> SlotRec] /\ \A j \in Slots : SlotOK(st.slot[j])
      /\ st.hs \in [Handles -> HandleRec] /\ \A g \in Handles : HandleOK(st.hs[g])
  BY DEF Shaped
<1>3. s2 \in SlotRec /\ n2 \in HandleRec
  BY DEF SlotOK, HandleOK
<1>4. /\ nx.slot[i] = s2 /\ \A j \in Slots \ {i} : nx.slot[j] = st.slot[j]
      /\ nx.hs[h] = n2 /\ \A g \in Handles \ {h} : nx.hs[g] = st.hs[g]
      /\ nx.slot \in [Slots -> SlotRec] /\ nx.hs \in [Handles -> HandleRec]
  BY <1>1, <1>2, <1>3
<1>5. /\ \A j \in Slots : SlotOK(nx.slot[j])
      /\ \A g \in Handles : HandleOK(nx.hs[g])
  BY <1>2, <1>4
<1>6. Shaped(nx)
  BY <1>1, <1>4, <1>5 DEF Shaped, Ring
<1> QED
  BY <1>1, <1>4, <1>6 DEF Changed

LEMMA ShapedIs ==
    ASSUME NEW st, Shaped(st)
    PROVE  /\ \A i \in Slots : SlotOK(st.slot[i])
           /\ \A h \in Handles : HandleOK(st.hs[h])
           /\ Ring(st.events) /\ st.trouble \in BOOLEAN
           /\ st.slot \in [Slots -> SlotRec] /\ st.hs \in [Handles -> HandleRec]
BY DEF Shaped, Ring

LEMMA ChangedTwice ==
    ASSUME NEW st, NEW mid, NEW nx, NEW i, NEW h,
           Changed(st, mid, i, h), Changed(mid, nx, i, h)
    PROVE  Changed(st, nx, i, h)
BY DEF Changed

\* What ping_event_push does: a full ring is trouble, and the caller hears of it.
Pushed(st, o) ==
    \E ev, tr, b :
        /\ o = [st |-> [slot |-> st.slot, events |-> ev, hs |-> st.hs, trouble |-> tr], ok |-> b]
        /\ Ring(ev) /\ tr \in BOOLEAN /\ b \in BOOLEAN
        /\ st.trouble => tr
        /\ ~b => tr

LEMMA EventPushIs ==
    ASSUME NEW st, Shaped(st), NEW i \in Slots, NEW type \in {"pong", "closed", "error"}
    PROVE  Pushed(st, EventPush(st, i, type))
<1> DEFINE e == [type |-> type, slot |-> i, stream |-> st.slot[i].stream]
<1>1. st = [slot |-> st.slot, events |-> st.events, hs |-> st.hs, trouble |-> st.trouble]
  BY DEF Shaped
<1>2. e \in EventRec
  BY ShapedIs DEF EventRec, SlotOK, SlotRec
<1>3. Ring(st.events) /\ st.trouble \in BOOLEAN
  BY ShapedIs
<1> HIDE DEF e
<1>4. CASE Len(st.events) = EventCapacity
  <2>1. PICK b : b = TRUE
    BY Zenon
  <2>2. [st EXCEPT !.trouble = b]
          = [slot |-> st.slot, events |-> st.events, hs |-> st.hs, trouble |-> b]
    BY <1>1
  <2>3. EventPush(st, i, type) = [st |-> [st EXCEPT !.trouble = b], ok |-> FALSE]
    BY <1>4, <2>1, Zenon DEF EventPush, Failed
  <2>4. TRUE \in BOOLEAN /\ FALSE \in BOOLEAN
    OBVIOUS
  <2> QED
    BY <1>3, <2>1, <2>2, <2>3, <2>4, Zenon DEF Pushed
<1>5. CASE Len(st.events) # EventCapacity
  <2>1. [st EXCEPT !.events = Append(st.events, e)]
          = [slot |-> st.slot, events |-> Append(st.events, e), hs |-> st.hs,
             trouble |-> st.trouble]
    BY <1>1
  <2>2. EventPush(st, i, type) = [st |-> [st EXCEPT !.events = Append(st.events, e)], ok |-> TRUE]
    BY <1>5 DEF EventPush, Ok, e
  <2>3. Ring(Append(st.events, e))
    <3>1. Append(st.events, e) \in Seq(EventRec) /\ Len(Append(st.events, e)) = Len(st.events) + 1
      BY <1>2, <1>3, AppendProperties DEF Ring
    <3>2. Len(st.events) \in Nat /\ EventCapacity \in Nat
      BY <1>3, Constants DEF Ring
    <3> QED
      BY <1>3, <1>5, <3>1, <3>2 DEF Ring
  <2>4. TRUE \in BOOLEAN
    OBVIOUS
  <2> QED
    BY <1>3, <2>1, <2>2, <2>3, <2>4, Zenon DEF Pushed
<1> QED
  BY <1>4, <1>5

-----------------------------------------------------------------------------
(***************************************************************************)
(* The callbacks.  Each outcome changes one slot and its stream.           *)
(***************************************************************************)

Sound(st, i, h) == st.trouble \/ (Honest(st.slot[i], st.hs[h]) /\ Echoed(st.hs[h]))

\* A slot in use with its stream, before a read or a write.
Ready(st, i, h) ==
    /\ Shaped(st) /\ st.slot[i].stream = h /\ st.slot[i].state \in Active
    /\ Sound(st, i, h) /\ (st.trouble \/ st.hs[h].dir = st.slot[i].dir)

\* An outcome: the slot is in use as before, or reports the end of its stream.
Leads(st, o, i, h) ==
    /\ o.ok \in BOOLEAN /\ (~o.ok => o.st.trouble)
    /\ Changed(st, o.st, i, h)
    /\ \/ o.st.slot[i].state = "evented" /\ o.st.slot[i].stream \in {h, NoStream}
       \/ /\ o.st.slot[i].state \in Active /\ o.st.slot[i].stream = h
          /\ st.slot[i].state \in Active /\ o.st.slot[i].dir = st.slot[i].dir
    /\ Sound(o.st, i, h)

LEMMA LeadsOn ==
    ASSUME NEW st, NEW mid, NEW o, NEW i, NEW h,
           Changed(st, mid, i, h), mid.slot[i].dir = st.slot[i].dir,
           st.slot[i].state \in Active, Leads(mid, o, i, h)
    PROVE  Leads(st, o, i, h)
<1>1. Changed(st, o.st, i, h)
  BY ChangedTwice DEF Leads
<1> QED
  BY <1>1 DEF Leads

LEMMA Twice ==
    ASSUME NEW S, NEW R, NEW f \in [S -> R], NEW i \in S, NEW a, NEW b
    PROVE  [[f EXCEPT ![i] = a] EXCEPT ![i] = b] = [f EXCEPT ![i] = b]
OBVIOUS

\* Replacing one slot of an outcome.
LEMMA OutcomeSlot ==
    ASSUME NEW sl \in [Slots -> SlotRec], NEW ev, NEW hh \in [Handles -> HandleRec], NEW tr, NEW b,
           NEW i \in Slots, NEW s2,
           NEW o, o = [st |-> [slot |-> sl, events |-> ev, hs |-> hh, trouble |-> tr], ok |-> b]
    PROVE  [o EXCEPT !.st.slot[i] = s2]
             = [st |-> [slot |-> [sl EXCEPT ![i] = s2], events |-> ev, hs |-> hh, trouble |-> tr],
                ok |-> b]
OBVIOUS

EventedSlot(s) == [s EXCEPT !.conn = NoConn, !.state = "evented"]
FailedSlot(s) == [EventedSlot(s) EXCEPT !.stream = NoStream]

LEMMA EndedSlots ==
    ASSUME NEW s, SlotOK(s)
    PROVE  /\ SlotOK(EventedSlot(s)) /\ EventedSlot(s).state = "evented"
           /\ EventedSlot(s).stream = s.stream
           /\ SlotOK(FailedSlot(s)) /\ FailedSlot(s).state = "evented"
           /\ FailedSlot(s).stream = NoStream
BY DEF SlotOK, SlotRec, EventedSlot, FailedSlot, Initiating, Responding, Active

LEMMA EndedIs ==
    ASSUME NEW n, HandleOK(n)
    PROVE  /\ HandleOK(Ended(n)) /\ Ended(n).dead
           /\ Ended(n).use = n.use /\ Ended(n).dir = n.dir
<1>1. PICK t, f \in BOOLEAN : t = TRUE /\ f = FALSE
  BY Zenon
<1>2. PICK e : e = <<>>
  OBVIOUS
<1>3. e \in Seq(Nat) /\ n \in HandleRec
  BY <1>2, EmptySeq DEF HandleOK
<1>4. PICK m : m = [n EXCEPT !.dead = t, !.in = e, !.fin = f, !.sentByPeer = 0,
                             !.got = e, !.wrote = e]
  OBVIOUS
<1>5. Ended(n) = m
  BY <1>1, <1>2, <1>4, Zenon DEF Ended
<1>6. m \in HandleRec
  BY <1>3, <1>4 DEF HandleRec
<1>7. m.use = n.use /\ m.dir = n.dir
  BY <1>3, <1>4 DEF HandleRec
<1>8. m.dead = t
  BY <1>3, <1>4 DEF HandleRec
<1>9. m.dead
  BY <1>1, <1>8
<1> QED
  BY <1>5, <1>6, <1>7, <1>9 DEF HandleOK

\* ping_fail_stream, and nothing is claimed of a stream that has ended.
LEMMA FailStreamLeads ==
    ASSUME NEW st, Shaped(st), NEW i \in Slots, NEW h \in Handles, st.slot[i].stream = h
    PROVE  Leads(st, FailStream(st, i), i, h)
<1> DEFINE s == st.slot[i]
           n == st.hs[h]
<1>1. PICK ev, tr, b :
        /\ EventPush(st, i, "error")
             = [st |-> [slot |-> st.slot, events |-> ev, hs |-> st.hs, trouble |-> tr], ok |-> b]
        /\ Ring(ev) /\ tr \in BOOLEAN /\ b \in BOOLEAN
        /\ st.trouble => tr
        /\ ~b => tr
  BY EventPushIs, Zenon DEF Pushed
<1>2. /\ st.slot \in [Slots -> SlotRec] /\ st.hs \in [Handles -> HandleRec]
      /\ SlotOK(s) /\ HandleOK(n)
  BY ShapedIs
<1>3. PICK p : p = EventPush(st, i, "error")
  OBVIOUS
<1>4. PICK q : q = Evented(p, i)
  OBVIOUS
<1>5. q = [st |-> [slot |-> [st.slot EXCEPT ![i] = EventedSlot(s)], events |-> ev,
                   hs |-> st.hs, trouble |-> tr], ok |-> b]
  <2>1. p.st.slot[i] = s
    BY <1>1, <1>3
  <2>2. q = [p EXCEPT !.st.slot[i] = EventedSlot(s)]
    BY <1>4, <2>1 DEF Evented, EventedSlot
  <2> QED
    BY <1>1, <1>2, <1>3, <2>2, OutcomeSlot
<1>6. PICK sl : sl = [st.slot EXCEPT ![i] = EventedSlot(s)]
  OBVIOUS
<1>7. sl \in [Slots -> SlotRec] /\ sl[i] = EventedSlot(s)
  BY <1>2, <1>6, EndedSlots DEF SlotOK
<1>8. FailStream(st, i) = [st |-> Put(st, ev, tr, i, FailedSlot(s), h, Ended(n)), ok |-> b]
  <2>1. FailStream(st, i) = [q EXCEPT !.st.slot[i].stream = NoStream, !.st.hs[h] = Ended(q.st.hs[h])]
    BY <1>3, <1>4, Zenon DEF FailStream
  <2>2. q.st.hs[h] = n
    BY <1>5
  <2>3. FailStream(st, i) = [q EXCEPT !.st.slot[i].stream = NoStream, !.st.hs[h] = Ended(n)]
    BY <2>1, <2>2
  <2>4. PICK n2 : n2 = Ended(n)
    OBVIOUS
  <2>5. [q EXCEPT !.st.slot[i].stream = NoStream, !.st.hs[h] = n2]
          = [st |-> [slot |-> [sl EXCEPT ![i] = [sl[i] EXCEPT !.stream = NoStream]], events |-> ev,
                     hs |-> [st.hs EXCEPT ![h] = n2], trouble |-> tr], ok |-> b]
    <3>1. PICK x : x = [q EXCEPT !.st.slot[i].stream = NoStream]
      OBVIOUS
    <3>2. PICK s3 : s3 = [sl EXCEPT ![i] = [sl[i] EXCEPT !.stream = NoStream]]
      OBVIOUS
    <3>3. x = [st |-> [slot |-> s3, events |-> ev, hs |-> st.hs, trouble |-> tr], ok |-> b]
      BY <1>5, <1>6, <1>7, <3>1, <3>2
    <3>4. [x EXCEPT !.st.hs[h] = n2]
            = [st |-> [slot |-> s3, events |-> ev, hs |-> [st.hs EXCEPT ![h] = n2],
                       trouble |-> tr], ok |-> b]
      BY <1>2, <3>3
    <3> QED
      BY <3>1, <3>2, <3>4
  <2>6. [sl EXCEPT ![i] = [sl[i] EXCEPT !.stream = NoStream]] = [st.slot EXCEPT ![i] = FailedSlot(s)]
    <3>1. PICK a, e : a = EventedSlot(s) /\ e = FailedSlot(s)
      OBVIOUS
    <3>2. e = [sl[i] EXCEPT !.stream = NoStream]
      BY <1>7, <3>1 DEF FailedSlot
    <3>3. sl = [st.slot EXCEPT ![i] = a]
      BY <1>6, <3>1
    <3>4. [sl EXCEPT ![i] = e] = [st.slot EXCEPT ![i] = e]
      BY <1>2, <3>3, Twice
    <3> QED
      <4>1. [sl EXCEPT ![i] = [sl[i] EXCEPT !.stream = NoStream]] = [sl EXCEPT ![i] = e]
        BY <3>2
      <4> QED
        BY <3>1, <3>4, <4>1
  <2> QED
    BY <2>3, <2>4, <2>5, <2>6 DEF Put
<1>9. PICK nx : nx = Put(st, ev, tr, i, FailedSlot(s), h, Ended(n))
  OBVIOUS
<1>10. /\ Changed(st, nx, i, h) /\ nx.slot[i] = FailedSlot(s) /\ nx.hs[h] = Ended(n)
       /\ nx.trouble = tr
  <2>1. PICK s2 : s2 = FailedSlot(s)
    OBVIOUS
  <2>2. PICK n2 : n2 = Ended(n)
    OBVIOUS
  <2>3. SlotOK(s2) /\ HandleOK(n2) /\ n2.use = n.use /\ n2.dir = n.dir
    BY <1>2, <2>1, <2>2, EndedSlots, EndedIs
  <2>4. nx = Put(st, ev, tr, i, s2, h, n2)
    BY <1>9, <2>1, <2>2
  <2> QED
    BY <1>1, <2>1, <2>2, <2>3, <2>4, PutIs
<1>11. FailStream(st, i).st = nx /\ FailStream(st, i).ok = b
  BY <1>8, <1>9
<1>12. Sound(nx, i, h)
  BY <1>2, <1>10, EndedIs DEF Sound, Honest, Echoed
<1> QED
  BY <1>1, <1>2, <1>10, <1>11, <1>12, EndedSlots DEF Leads

\* What is told of the end of a stream: the slot keeps naming it.
LEMMA EmitClosedLeads ==
    ASSUME NEW st, Shaped(st), NEW i \in Slots, NEW h \in Handles, st.slot[i].stream = h,
           st.trouble \/ Echoed(st.hs[h])
    PROVE  /\ Leads(st, EmitClosed(st, i), i, h)
           /\ EmitClosed(st, i).st.slot[i].state = "evented"
           /\ EmitClosed(st, i).st.slot[i].stream = h
<1> DEFINE s == st.slot[i]
           n == st.hs[h]
<1>1. PICK ev, tr, b :
        /\ EventPush(st, i, "closed")
             = [st |-> [slot |-> st.slot, events |-> ev, hs |-> st.hs, trouble |-> tr], ok |-> b]
        /\ Ring(ev) /\ tr \in BOOLEAN /\ b \in BOOLEAN
        /\ st.trouble => tr
        /\ ~b => tr
  BY EventPushIs, Zenon DEF Pushed
<1>2. /\ st.slot \in [Slots -> SlotRec] /\ st.hs \in [Handles -> HandleRec]
      /\ SlotOK(s) /\ HandleOK(n)
  BY ShapedIs
<1>3. PICK p : p = EventPush(st, i, "closed")
  OBVIOUS
<1>4. PICK s2 : s2 = EventedSlot(s)
  OBVIOUS
<1>5. SlotOK(s2) /\ s2.state = "evented" /\ s2.stream = h
  BY <1>2, <1>4, EndedSlots
<1>6. EmitClosed(st, i) = [st |-> Put(st, ev, tr, i, s2, h, n), ok |-> b]
  <2>1. p.st.slot[i] = s
    BY <1>1, <1>3
  <2>2. EmitClosed(st, i) = [p EXCEPT !.st.slot[i] = s2]
    BY <1>3, <1>4, <2>1 DEF EmitClosed, Evented, EventedSlot
  <2>3. [p EXCEPT !.st.slot[i] = s2]
          = [st |-> [slot |-> [st.slot EXCEPT ![i] = s2], events |-> ev, hs |-> st.hs,
                     trouble |-> tr], ok |-> b]
    BY <1>1, <1>2, <1>3, OutcomeSlot
  <2>4. [st.hs EXCEPT ![h] = n] = st.hs
    BY <1>2
  <2> QED
    BY <2>2, <2>3, <2>4 DEF Put
<1>7. PICK nx : nx = Put(st, ev, tr, i, s2, h, n)
  OBVIOUS
<1>8. Changed(st, nx, i, h) /\ nx.slot[i] = s2 /\ nx.hs[h] = n /\ nx.trouble = tr
  BY <1>1, <1>2, <1>5, <1>7, PutIs
<1>9. EmitClosed(st, i).st = nx /\ EmitClosed(st, i).ok = b
  BY <1>6, <1>7
<1>10. Sound(nx, i, h)
  BY <1>1, <1>5, <1>8 DEF Sound, Honest, Accounts, Initiating
<1> QED
  BY <1>1, <1>5, <1>8, <1>9, <1>10 DEF Leads

\* ping_emit_pong: the answer is whole and is the ping, so the pings and the echoes are equal.
LEMMA EmitPongLeads ==
    ASSUME NEW st, NEW i \in Slots, NEW h \in Handles, Ready(st, i, h),
           st.slot[i].state = "initiator_reading", st.slot[i].rx = st.slot[i].tx
    PROVE  Leads(st, EmitPong(st, i), i, h)
<1> DEFINE s == st.slot[i]
           n == st.hs[h]
<1>1. PICK ev, tr, b :
        /\ EventPush(st, i, "pong")
             = [st |-> [slot |-> st.slot, events |-> ev, hs |-> st.hs, trouble |-> tr], ok |-> b]
        /\ Ring(ev) /\ tr \in BOOLEAN /\ b \in BOOLEAN
        /\ st.trouble => tr
        /\ ~b => tr
  BY EventPushIs, Zenon DEF Pushed, Ready
<1>2. /\ st.slot \in [Slots -> SlotRec] /\ st.hs \in [Handles -> HandleRec]
      /\ SlotOK(s) /\ HandleOK(n) /\ Shaped(st)
  BY ShapedIs DEF Ready
<1>3. PICK p : p = EventPush(st, i, "pong")
  OBVIOUS
<1>4. p.ok = b /\ p.st.slot = st.slot /\ p.st.slot[i] = s
  BY <1>1, <1>3
<1>5. PICK e : e = <<>>
  OBVIOUS
<1>6. e \in Seq(Nat) /\ Len(e) = 0
  BY <1>5, EmptySeq
<1>7. CASE b
  <2>1. PICK s2 : s2 = [s EXCEPT !.state = "initiator_idle", !.rx = e, !.txPos = 0]
    OBVIOUS
  <2>2. /\ SlotOK(s2) /\ s2.state = "initiator_idle" /\ s2.stream = h /\ s2.rx = e
        /\ s2.txPos = 0 /\ s2.tx = s.tx /\ s2.dir = s.dir
    <3>1. s \in SlotRec /\ Len(s.tx) = PayloadBytes /\ s.dir = "out" /\ s.stream = h
      BY <1>2 DEF SlotOK, Initiating, Ready
    <3>2. /\ s2 \in SlotRec /\ s2.state = "initiator_idle" /\ s2.stream = s.stream /\ s2.rx = e
          /\ s2.txPos = 0 /\ s2.tx = s.tx /\ s2.dir = s.dir
      BY <1>6, <2>1, <3>1 DEF SlotRec, Active
    <3>3. 0 <= PayloadBytes
      BY Constants
    <3> QED
      BY <1>5, <1>6, <3>1, <3>2, <3>3 DEF SlotOK, Initiating, Responding
  <2>3. EmitPong(st, i) = [st |-> Put(st, ev, tr, i, s2, h, n), ok |-> b]
    <3>1. EmitPong(st, i) = [p EXCEPT !.st.slot[i] = s2]
      BY <1>3, <1>4, <1>5, <1>7, <2>1 DEF EmitPong
    <3>2. [p EXCEPT !.st.slot[i] = s2]
            = [st |-> [slot |-> [st.slot EXCEPT ![i] = s2], events |-> ev, hs |-> st.hs,
                       trouble |-> tr], ok |-> b]
      BY <1>1, <1>2, <1>3, OutcomeSlot
    <3>3. [st.hs EXCEPT ![h] = n] = st.hs
      BY <1>2
    <3> QED
      BY <3>1, <3>2, <3>3 DEF Put
  <2>4. PICK nx : nx = Put(st, ev, tr, i, s2, h, n)
    OBVIOUS
  <2>5. Changed(st, nx, i, h) /\ nx.slot[i] = s2 /\ nx.hs[h] = n /\ nx.trouble = tr
    BY <1>1, <1>2, <2>2, <2>4, PutIs
  <2>6. EmitPong(st, i).st = nx /\ EmitPong(st, i).ok = b
    BY <2>3, <2>4
  <2>7. Sound(nx, i, h)
    <3>1. SUFFICES ASSUME ~nx.trouble, ~n.dead
                   PROVE  Accounts(s2, n)
      BY <1>1, <2>5 DEF Sound, Honest, Ready
    <3>2. PICK X \in Seq(Nat) : n.wrote = X \o SubSeq(s.tx, 1, s.txPos) /\ n.got = X \o s.rx
      BY <1>1, <2>5, <3>1, ZenonT(30) DEF Ready, Sound, Honest, Accounts, Initiating
    <3>3. s.tx \in Seq(Nat) /\ s.txPos = Len(s.tx)
      BY <1>2 DEF SlotOK, SlotRec, Initiating
    <3>4. n.wrote = X \o s.tx /\ n.got = X \o s.tx
      BY <3>2, <3>3, SubSeqFull
    <3>5. PICK Y \in Seq(Nat) : Y = X \o s.tx
      BY <3>3, ConcatProperties
    <3>6. SubSeq(s.tx, 1, 0) = e
      BY <1>5, SubSeqEmpty
    <3>7. n.wrote = Y \o SubSeq(s2.tx, 1, s2.txPos) /\ n.got = Y \o s2.rx
      BY <1>5, <2>2, <3>4, <3>5, <3>6, ConcatEmptySeq
    <3> QED
      BY <2>2, <3>7, ZenonT(30) DEF Accounts
  <2> QED
    BY <1>1, <1>2, <2>2, <2>5, <2>6, <2>7 DEF Leads, Active, Ready
<1>8. CASE ~b
  <2>1. EmitPong(st, i) = p
    BY <1>3, <1>4, <1>8 DEF EmitPong
  <2>2. EmitPong(st, i) = [st |-> Put(st, ev, tr, i, s, h, n), ok |-> b]
    <3>1. [st.hs EXCEPT ![h] = n] = st.hs /\ [st.slot EXCEPT ![i] = s] = st.slot
      BY <1>2
    <3> QED
      BY <1>1, <1>3, <2>1, <3>1 DEF Put
  <2>3. PICK nx : nx = Put(st, ev, tr, i, s, h, n)
    OBVIOUS
  <2>4. Changed(st, nx, i, h) /\ nx.slot[i] = s /\ nx.hs[h] = n /\ nx.trouble = tr
    BY <1>1, <1>2, <2>3, PutIs
  <2>5. EmitPong(st, i).st = nx /\ EmitPong(st, i).ok = b
    BY <2>2, <2>3
  <2> QED
    BY <1>1, <1>8, <2>4, <2>5 DEF Leads, Sound, Ready
<1> QED
  BY <1>1, <1>7, <1>8

\* The slot after k bytes were accepted.
WroteSlot(s, k) ==
    IF s.txPos + k = PayloadBytes
    THEN IF s.dir = "out"
         THEN [s EXCEPT !.state = "initiator_reading", !.rx = <<>>, !.txPos = PayloadBytes]
         ELSE [s EXCEPT !.state = "responder_reading", !.rx = <<>>, !.txPos = 0]
    ELSE [s EXCEPT !.txPos = s.txPos + k]

Writing == {"initiator_writing", "responder_writing"}

LEMMA TurnsToReading ==
    ASSUME NEW s \in SlotRec, NEW e \in Seq(Nat)
    PROVE  [s EXCEPT !.state = "responder_reading", !.rx = e, !.txPos = 0] \in SlotRec
BY DEF SlotRec, Active

LEMMA WroteSlotIs ==
    ASSUME NEW s, SlotOK(s), s.state \in Writing, NEW k \in Nat, NEW m \in Nat, m = s.txPos + k,
           m <= PayloadBytes, NEW s2, s2 = WroteSlot(s, k)
    PROVE  /\ SlotOK(s2) /\ s2.dir = s.dir /\ s2.stream = s.stream /\ s2.state \in Active
           /\ m = PayloadBytes /\ s.state = "initiator_writing" =>
                s2.state = "initiator_reading" /\ s2.rx = <<>> /\ s2.txPos = m /\ s2.tx = s.tx
           /\ m = PayloadBytes /\ s.state = "responder_writing" =>
                s2.state = "responder_reading" /\ s2.rx = <<>>
           /\ m # PayloadBytes =>
                s2.state = s.state /\ s2.rx = s.rx /\ s2.txPos = m /\ s2.tx = s.tx
<1>1. /\ s \in SlotRec /\ s.txPos <= PayloadBytes /\ Len(s.rx) <= PayloadBytes
      /\ Len(s.tx) = PayloadBytes
  BY DEF SlotOK, Writing, Initiating
<1>2. /\ s.state = "initiator_writing" => s.dir = "out" /\ s.rx = <<>>
      /\ s.state = "responder_writing" => s.dir = "in"
  BY DEF SlotOK, Writing, Initiating, Responding
<1>3. PICK e : e = <<>>
  OBVIOUS
<1>4. e \in Seq(Nat) /\ Len(e) = 0 /\ PayloadBytes \in Nat
  BY <1>3, EmptySeq, Constants
<1>5. CASE m # PayloadBytes
  <2>1. s2 = [s EXCEPT !.txPos = m]
    BY <1>5 DEF WroteSlot
  <2>2. /\ s2 \in SlotRec /\ s2.state = s.state /\ s2.rx = s.rx /\ s2.txPos = m /\ s2.tx = s.tx
        /\ s2.dir = s.dir /\ s2.stream = s.stream
    BY <1>1, <2>1 DEF SlotRec
  <2> QED
    BY <1>1, <1>2, <1>5, <2>2 DEF SlotOK, Writing, Initiating, Responding, Active
<1>6. CASE m = PayloadBytes /\ s.state = "initiator_writing"
  <2>1. s2 = [s EXCEPT !.state = "initiator_reading", !.rx = e, !.txPos = m]
    BY <1>2, <1>3, <1>6 DEF WroteSlot
  <2>2. /\ s2 \in SlotRec /\ s2.state = "initiator_reading" /\ s2.rx = e /\ s2.txPos = m
        /\ s2.tx = s.tx /\ s2.dir = s.dir /\ s2.stream = s.stream
    BY <1>1, <1>4, <2>1 DEF SlotRec, Active
  <2> QED
    BY <1>1, <1>2, <1>3, <1>4, <1>6, <2>2 DEF SlotOK, Initiating, Responding, Active
<1>7. CASE m = PayloadBytes /\ s.state = "responder_writing"
  <2>1. s2 = [s EXCEPT !.state = "responder_reading", !.rx = e, !.txPos = 0]
    BY <1>2, <1>3, <1>7 DEF WroteSlot
  <2>2. /\ s2 \in SlotRec /\ s2.state = "responder_reading" /\ s2.rx = e /\ s2.txPos = 0
        /\ s2.tx = s.tx /\ s2.dir = s.dir /\ s2.stream = s.stream
    <3>1. s2 \in SlotRec
      <4>1. s \in SlotRec /\ e \in Seq(Nat)
        BY <1>1, <1>4
      <4> QED
        BY <2>1, <4>1, TurnsToReading
    <3> QED
      BY <1>1, <1>4, <2>1, <3>1 DEF SlotRec
  <2> QED
    <3>1. 0 <= PayloadBytes /\ s2.dir = "in" /\ Len(s2.rx) = 0 /\ s2.rx = <<>>
      BY <1>2, <1>3, <1>4, <1>7, <2>2
    <3>2. SlotOK(s2)
      BY <1>1, <1>4, <2>2, <3>1 DEF SlotOK, Initiating, Responding
    <3> QED
      BY <1>7, <2>2, <3>1, <3>2 DEF Active
<1> QED
  BY <1>5, <1>6, <1>7 DEF Writing

\* The bytes a write accepts are the next of the payload.
LEMMA AcceptedLeads ==
    ASSUME NEW st, NEW i \in Slots, NEW h \in Handles, Ready(st, i, h),
           st.slot[i].state \in Writing, NEW k \in 1 .. (PayloadBytes - st.slot[i].txPos)
    PROVE  Leads(st, Ok(Accepted(st, i, k)), i, h)
<1> DEFINE s == st.slot[i]
           n == st.hs[h]
<1>1. /\ st.slot \in [Slots -> SlotRec] /\ st.hs \in [Handles -> HandleRec]
      /\ SlotOK(s) /\ HandleOK(n) /\ Shaped(st) /\ s.stream = h
      /\ Ring(st.events) /\ st.trouble \in BOOLEAN
  BY ShapedIs DEF Ready
<1>2. /\ s.txPos \in Nat /\ s.tx \in Seq(Nat) /\ Len(s.tx) = PayloadBytes /\ n.wrote \in Seq(Nat)
      /\ n \in HandleRec /\ PayloadBytes \in Nat
  BY <1>1, Constants DEF SlotOK, SlotRec, HandleOK, HandleRec, Writing, Initiating
<1>3. PICK m \in Nat : m = s.txPos + k /\ m <= PayloadBytes /\ k \in Nat
  BY <1>2, SMTT(20)
<1>4. PICK chunk \in Seq(Nat) :
        /\ chunk = SubSeq(s.tx, s.txPos + 1, s.txPos + k)
        /\ SubSeq(s.tx, 1, s.txPos) \in Seq(Nat)
        /\ SubSeq(s.tx, 1, s.txPos) \o chunk = SubSeq(s.tx, 1, m)
  <2>1. PICK a \in Nat : a = s.txPos
    BY <1>2
  <2>2. PICK t \in Seq(Nat) : t = s.tx
    BY <1>2
  <2>3. a + k <= Len(t)
    BY <1>2, <1>3, <2>1, <2>2
  <2>4. /\ SubSeq(t, 1, a) \in Seq(Nat) /\ SubSeq(t, a + 1, a + k) \in Seq(Nat)
        /\ SubSeq(t, 1, a) \o SubSeq(t, a + 1, a + k) = SubSeq(t, 1, a + k)
    BY <1>3, <2>3, Joined, SMTT(20)
  <2> QED
    BY <1>3, <2>1, <2>2, <2>4
<1>5. PICK w2 \in Seq(Nat) : w2 = n.wrote \o chunk
  BY <1>2, <1>4, ConcatProperties
<1>6. PICK n2 : n2 = [n EXCEPT !.wrote = w2]
  OBVIOUS
<1>7. /\ HandleOK(n2) /\ n2.use = n.use /\ n2.dir = n.dir /\ n2.dead = n.dead
      /\ n2.wrote = w2 /\ n2.got = n.got
  BY <1>1, <1>2, <1>6 DEF HandleOK, HandleRec
<1>8. PICK s2 : s2 = WroteSlot(s, k)
  OBVIOUS
<1>9. /\ SlotOK(s2) /\ s2.dir = s.dir /\ s2.stream = s.stream /\ s2.state \in Active
      /\ m = PayloadBytes /\ s.state = "initiator_writing" =>
           s2.state = "initiator_reading" /\ s2.rx = <<>> /\ s2.txPos = m /\ s2.tx = s.tx
      /\ m = PayloadBytes /\ s.state = "responder_writing" =>
           s2.state = "responder_reading" /\ s2.rx = <<>>
      /\ m # PayloadBytes =>
           s2.state = s.state /\ s2.rx = s.rx /\ s2.txPos = m /\ s2.tx = s.tx
  BY <1>1, <1>3, <1>8, WroteSlotIs
<1>10. PICK nx : nx = Put(st, st.events, st.trouble, i, s2, h, n2)
  OBVIOUS
<1>11. Accepted(st, i, k) = nx
  <2>1. Accepted(st, i, k) = [st EXCEPT !.slot[i] = s2, !.hs[h].wrote = w2]
    BY <1>1, <1>4, <1>5, <1>8, Zenon DEF Accepted, WroteSlot
  <2>2. PICK x : x = [st EXCEPT !.slot[i] = s2]
    OBVIOUS
  <2>3. PICK sl : sl = [st.slot EXCEPT ![i] = s2]
    OBVIOUS
  <2>4. x = [slot |-> sl, events |-> st.events, hs |-> st.hs, trouble |-> st.trouble]
    BY <1>1, <2>2, <2>3 DEF Shaped
  <2>5. [x EXCEPT !.hs[h].wrote = w2]
          = [slot |-> sl, events |-> st.events, hs |-> [st.hs EXCEPT ![h] = n2],
             trouble |-> st.trouble]
    <3>1. PICK hh \in [Handles -> HandleRec] : hh = st.hs
      BY <1>1
    <3>2. n2 = [hh[h] EXCEPT !.wrote = w2]
      BY <1>6, <3>1
    <3>3. x.hs = hh
      BY <2>4, <3>1
    <3>4. [x EXCEPT !.hs[h].wrote = w2] = [x EXCEPT !.hs = [hh EXCEPT ![h] = n2]]
      BY <3>2, <3>3
    <3> QED
      <4>1. PICK hx : hx = [hh EXCEPT ![h] = n2]
        OBVIOUS
      <4>2. [x EXCEPT !.hs = hx]
              = [slot |-> sl, events |-> st.events, hs |-> hx, trouble |-> st.trouble]
        BY <2>4, SMTT(20)
      <4> QED
        BY <3>1, <3>4, <4>1, <4>2
  <2> QED
    <3>1. [st EXCEPT !.slot[i] = s2, !.hs[h].wrote = w2] = [x EXCEPT !.hs[h].wrote = w2]
      BY <2>2
    <3> QED
      BY <1>10, <2>1, <2>3, <2>5, <3>1 DEF Put
<1>12. /\ Changed(st, nx, i, h) /\ nx.slot[i] = s2 /\ nx.hs[h] = n2 /\ nx.trouble = st.trouble
  BY <1>1, <1>7, <1>9, <1>10, PutIs
<1>13. ASSUME ~st.trouble, ~n.dead
       PROVE  Accounts(s2, n2) /\ Echoed(n2)
  <2>1. Accounts(s, n) /\ n.dir = s.dir
    BY <1>13 DEF Ready, Sound, Honest
  <2>2. PICK X \in Seq(Nat) :
          /\ n.wrote = X \o SubSeq(s.tx, 1, s.txPos)
          /\ s.state = "initiator_writing" => n.got = X \o s.rx
          /\ s.state = "responder_writing" => n.got = X \o s.tx
    BY <2>1 DEF Accounts, Writing, Initiating
  <2>3. w2 = X \o SubSeq(s.tx, 1, m)
    <3>1. PICK P \in Seq(Nat) : P = SubSeq(s.tx, 1, s.txPos)
      BY <1>4, ZenonT(30)
    <3>2. Regroups(X, P, chunk)
      <4>1. X \in Seq(Nat) /\ P \in Seq(Nat) /\ chunk \in Seq(Nat)
        BY <1>4, <2>2, <3>1, ZenonT(30)
      <4> QED
        BY <4>1, Associative, Zenon
    <3> QED
      BY <1>4, <1>5, <2>2, <3>1, <3>2, ZenonT(30) DEF Regroups
  <2>4. SubSeq(s.tx, 1, PayloadBytes) = s.tx
    BY <1>2, SubSeqFull, SMTT(20)
  <2>5. CASE s.state = "initiator_writing"
    <3>1. s2.rx = s.rx /\ s2.txPos = m /\ s2.tx = s.tx /\ s2.state \in Initiating
      BY <1>1, <1>9, <2>5 DEF SlotOK, Initiating
    <3>2. s2.state # "responder_reading" /\ s2.state # "responder_writing"
      BY <3>1 DEF Initiating
    <3>3. n2.dir # "in"
      BY <1>1, <1>7, <2>1, <2>5 DEF SlotOK, Initiating
    <3> QED
      BY <1>7, <2>2, <2>3, <2>5, <3>1, <3>2, <3>3 DEF Accounts, Echoed
  <2>6. CASE s.state = "responder_writing" /\ m # PayloadBytes
    <3>1. /\ s2.txPos = m /\ s2.tx = s.tx /\ s2.state = "responder_writing"
          /\ s2.state \notin Initiating
      BY <1>9, <2>6, SMTT(20) DEF Initiating
    <3>2. Accounts(s2, n2)
      BY <1>7, <2>2, <2>3, <2>6, <3>1 DEF Accounts
    <3>3. PICK b \in Nat : b = PayloadBytes - m /\ m + b = PayloadBytes
      <4>1. m <= PayloadBytes /\ m \in Nat /\ PayloadBytes \in Nat
        BY <1>2, <1>3
      <4> QED
        BY <4>1
    <3>4. PICK t \in Seq(Nat) : t = s.tx
      BY <1>2
    <3>5. PICK Y, Z \in Seq(Nat) : Y = SubSeq(t, 1, m) /\ t = Y \o Z
      <4>1. m + b <= Len(t)
        BY <1>2, <3>3, <3>4
      <4>2. /\ SubSeq(t, 1, m) \in Seq(Nat) /\ SubSeq(t, m + 1, m + b) \in Seq(Nat)
            /\ SubSeq(t, 1, m) \o SubSeq(t, m + 1, m + b) = SubSeq(t, 1, m + b)
        BY <1>3, <3>3, <3>4, <4>1, Joined, ZenonT(30)
      <4>3. SubSeq(t, 1, m + b) = t
        BY <2>4, <3>3, <3>4
      <4> QED
        BY <4>2, <4>3
    <3>6. PICK w \in Seq(Nat) : w = X \o Y
      BY <2>2, <3>5, ConcatProperties
    <3>7. X \o t = w \o Z
      <4>1. X \in Seq(Nat) /\ Y \in Seq(Nat) /\ Z \in Seq(Nat)
        BY <2>2, <3>5
      <4>2. Regroups(X, Y, Z)
        BY <4>1, Associative, ZenonT(30)
      <4> QED
        BY <3>5, <3>6, <4>2 DEF Regroups
    <3>8. n2.wrote = w /\ n2.got = w \o Z
      BY <1>7, <2>2, <2>3, <2>6, <3>4, <3>5, <3>6, <3>7
    <3>9. IsPrefix(w, w \o Z)
      BY <3>5, <3>6, AllButOf
    <3> QED
      BY <3>2, <3>8, <3>9 DEF Echoed
  <2>7. CASE s.state = "responder_writing" /\ m = PayloadBytes
    <3>1. s2.state = "responder_reading" /\ s2.rx = <<>> /\ s2.state \notin Initiating
      BY <1>9, <2>7 DEF Initiating
    <3>2. n2.wrote = n2.got /\ n2.wrote \in Seq(Nat)
      BY <1>7, <2>2, <2>3, <2>4, <2>7
    <3>3. n2.got = n2.wrote \o <<>> /\ <<>> \in Seq(Nat)
      BY <3>2, ConcatEmptySeq, EmptySeq
    <3>4. IsPrefix(n2.wrote, n2.wrote \o <<>>)
      BY <3>2, <3>3, AllButOf
    <3> QED
      BY <3>1, <3>3, <3>4 DEF Accounts, Echoed
  <2> QED
    BY <2>5, <2>6, <2>7 DEF Writing
<1>14. Sound(nx, i, h)
  BY <1>7, <1>12, <1>13 DEF Sound, Honest, Echoed
<1>15. Ok(Accepted(st, i, k)).st = nx /\ Ok(Accepted(st, i, k)).ok
  BY <1>11 DEF Ok
<1>16. Ok(Accepted(st, i, k)).ok \in BOOLEAN
  BY DEF Ok
<1> QED
  BY <1>1, <1>9, <1>12, <1>14, <1>15, <1>16 DEF Leads, Ready

LEMMA OkLeads ==
    ASSUME NEW st, NEW i \in Slots, NEW h \in Handles, Ready(st, i, h)
    PROVE  Leads(st, Ok(st), i, h)
<1>1. Ok(st).st = st /\ Ok(st).ok
  BY DEF Ok
<1>2. Ok(st).ok \in BOOLEAN
  BY DEF Ok
<1>3. Changed(st, st, i, h)
  BY DEF Changed, Ready
<1> QED
  BY <1>1, <1>2, <1>3 DEF Leads, Ready

LEMMA FailedIs ==
    ASSUME NEW st, Shaped(st), NEW i \in Slots, NEW h \in Handles
    PROVE  /\ Failed(st).ok = FALSE /\ Changed(st, Failed(st).st, i, h) /\ Failed(st).st.trouble
           /\ Failed(st).st.slot = st.slot /\ Failed(st).st.hs = st.hs
<1>1. PICK b \in BOOLEAN : b = TRUE
  BY Zenon
<1>2. PICK nx : nx = [st EXCEPT !.trouble = b]
  OBVIOUS
<1>3. st = [slot |-> st.slot, events |-> st.events, hs |-> st.hs, trouble |-> st.trouble]
  BY DEF Shaped
<1>4. nx = [slot |-> st.slot, events |-> st.events, hs |-> st.hs, trouble |-> b]
  BY <1>2, <1>3
<1>5. Failed(st) = [st |-> nx, ok |-> FALSE]
  BY <1>1, <1>2, Zenon DEF Failed
<1>6. /\ nx.slot = st.slot /\ nx.hs = st.hs /\ nx.events = st.events
      /\ nx = [slot |-> nx.slot, events |-> nx.events, hs |-> nx.hs, trouble |-> nx.trouble]
  BY <1>4
<1>7. nx.trouble = b
  BY <1>4
<1>8. Shaped(nx)
  BY <1>1, <1>6, <1>7 DEF Shaped
<1>9. Changed(st, nx, i, h)
  BY <1>1, <1>6, <1>7, <1>8 DEF Changed
<1>10. Failed(st).ok = FALSE
  BY Zenon DEF Failed
<1>11. Failed(st).st = nx
  BY <1>5
<1> QED
  BY <1>1, <1>6, <1>7, <1>9, <1>10, <1>11

LEMMA FailedLeads ==
    ASSUME NEW st, NEW i \in Slots, NEW h \in Handles, Ready(st, i, h)
    PROVE  Leads(st, Failed(st), i, h)
<1>1. /\ Failed(st).ok = FALSE /\ Changed(st, Failed(st).st, i, h) /\ Failed(st).st.trouble
      /\ Failed(st).st.slot = st.slot
  BY FailedIs DEF Ready
<1>2. Failed(st).ok \in BOOLEAN
  BY <1>1
<1> QED
  BY <1>1, <1>2 DEF Leads, Ready, Sound

\* ping_write_stream
LEMMA WriteStreamLeads ==
    ASSUME NEW st, NEW i \in Slots, NEW h \in Handles, Ready(st, i, h),
           st.slot[i].state \in Writing, NEW o \in WriteStream(st, i)
    PROVE  Leads(st, o, i, h)
<1>1. \/ o = Ok(st)
      \/ o = FailStream(st, i)
      \/ \E k \in 1 .. (PayloadBytes - st.slot[i].txPos) : o = Ok(Accepted(st, i, k))
      \/ o = Failed(st)
  BY Zenon DEF WriteStream
<1> QED
  BY <1>1, OkLeads, FailStreamLeads, AcceptedLeads, FailedLeads DEF Ready

Reading == {"initiator_reading", "responder_reading"}

\* What libp2p_host_stream_read moves is there and fits the slot.
LEMMA ReadIs ==
    ASSUME NEW st, NEW i \in Slots, NEW h \in Handles, Ready(st, i, h),
           NEW r \in Reads(st, i)
    PROVE  \E k \in Nat : /\ k <= Len(st.hs[h].in)
                         /\ Len(st.slot[i].rx) + k <= PayloadBytes
                         /\ r.st = Fill(st, i, k)
<1> DEFINE s == st.slot[i]
           n == st.hs[h]
<1>1. /\ s.stream = h /\ s.rx \in Seq(Nat) /\ n.in \in Seq(Nat) /\ Len(s.rx) <= PayloadBytes
  BY ShapedIs DEF Ready, SlotOK, SlotRec, HandleOK, HandleRec
<1>2. Len(s.rx) \in Nat /\ Len(n.in) \in Nat /\ PayloadBytes \in Nat
  BY <1>1, Constants
<1>3. PICK a, b, c \in Nat : a = PayloadBytes /\ b = Len(s.rx) /\ c = Len(n.in) /\ b <= a
  BY <1>1, <1>2
<1>4. \E k \in Nat : k <= c /\ k <= a - b /\ r.st = Fill(st, i, k)
  <2>1. CASE r \in {[st |-> Fill(st, i, k), fin |-> FALSE] : k \in {k \in 1..(a - b) : k <= c}}
    <3>1. PICK k \in 1..(a - b) : k <= c /\ r = [st |-> Fill(st, i, k), fin |-> FALSE]
      BY <2>1
    <3> QED
      BY <1>3, <3>1
  <2>2. CASE c <= a - b /\ r = [st |-> Fill(st, i, c), fin |-> TRUE]
    BY <2>2
  <2> QED
    BY <1>1, <1>3, <2>1, <2>2 DEF Reads
<1>5. PICK k \in Nat : k <= c /\ k <= a - b /\ r.st = Fill(st, i, k)
  BY <1>4
<1>6. b + k <= a
  BY <1>3, <1>5
<1> QED
  BY <1>3, <1>5, <1>6

\* A read moves bytes from the stream to the slot, and all are accounted for.
LEMMA FillIs ==
    ASSUME NEW st, NEW i \in Slots, NEW h \in Handles, Ready(st, i, h),
           st.slot[i].state \in Reading, NEW k \in Nat, k <= Len(st.hs[h].in),
           Len(st.slot[i].rx) + k <= PayloadBytes, NEW nx, nx = Fill(st, i, k)
    PROVE  /\ Changed(st, nx, i, h) /\ Ready(nx, i, h)
           /\ nx.slot[i].state = st.slot[i].state /\ nx.slot[i].dir = st.slot[i].dir
           /\ nx.slot[i].tx = st.slot[i].tx /\ nx.slot[i].txPos = st.slot[i].txPos
<1> DEFINE s == st.slot[i]
           n == st.hs[h]
<1>1. /\ st.slot \in [Slots -> SlotRec] /\ st.hs \in [Handles -> HandleRec]
      /\ SlotOK(s) /\ HandleOK(n) /\ Shaped(st) /\ s.stream = h
      /\ Ring(st.events) /\ st.trouble \in BOOLEAN
  BY ShapedIs DEF Ready
<1>2. /\ s \in SlotRec /\ s.rx \in Seq(Nat) /\ n \in HandleRec /\ n.in \in Seq(Nat)
      /\ n.got \in Seq(Nat) /\ n.wrote \in Seq(Nat)
  BY <1>1 DEF SlotOK, SlotRec, HandleOK, HandleRec
<1>3. k <= Len(n.in) /\ Len(s.rx) + k <= PayloadBytes
  OBVIOUS
<1>4. PICK c \in Seq(Nat) : c = SubSeq(n.in, 1, k) /\ Len(c) = k
  BY <1>2, <1>3, Halves
<1>5. PICK rest \in Seq(Nat) : rest = SubSeq(n.in, k + 1, Len(n.in))
  BY <1>2, <1>3, Halves
<1>6. PICK rx2 \in Seq(Nat) : rx2 = s.rx \o c /\ Len(rx2) <= PayloadBytes
  <2>1. PICK q \in Seq(Nat) : q = s.rx
    BY <1>2
  <2>2. q \o c \in Seq(Nat) /\ Len(q \o c) = Len(q) + Len(c)
    BY <1>4, <2>1, ConcatProperties
  <2> QED
    BY <1>3, <1>4, <2>1, <2>2
<1>7. PICK got2 \in Seq(Nat) : got2 = n.got \o c
  BY <1>2, <1>4, ConcatProperties
<1>8. PICK s2 : s2 = [s EXCEPT !.rx = rx2]
  OBVIOUS
<1>9. PICK n2 : n2 = [n EXCEPT !.in = rest, !.got = got2]
  OBVIOUS
<1>10. /\ s2 \in SlotRec /\ s2.state = s.state /\ s2.dir = s.dir /\ s2.tx = s.tx
       /\ s2.txPos = s.txPos /\ s2.rx = rx2 /\ s2.stream = s.stream
  BY <1>2, <1>6, <1>8 DEF SlotRec
<1>11. SlotOK(s2)
  <2>1. s.state \notin {"opening", "initiator_writing", "initiator_idle", "free"}
    BY SMTT(20) DEF Reading
  <2> QED
    BY <1>1, <1>6, <1>10, <2>1 DEF SlotOK
<1>12. /\ HandleOK(n2) /\ n2.use = n.use /\ n2.dir = n.dir /\ n2.dead = n.dead
       /\ n2.wrote = n.wrote /\ n2.got = got2
  BY <1>1, <1>2, <1>5, <1>7, <1>9, ZenonT(30) DEF HandleOK, HandleRec
<1>13. nx = Put(st, st.events, st.trouble, i, s2, h, n2)
  <2>1. nx = [st EXCEPT !.slot[i].rx = rx2, !.hs[h].in = rest, !.hs[h].got = got2]
    BY <1>1, <1>3, <1>4, <1>5, <1>6, <1>7, Zenon DEF Fill
  <2>2. PICK x : x = [st EXCEPT !.slot[i].rx = rx2]
    OBVIOUS
  <2>3. PICK y : y = [x EXCEPT !.hs[h].in = rest]
    OBVIOUS
  <2>4. nx = [y EXCEPT !.hs[h].got = got2]
    BY <2>1, <2>2, <2>3
  <2>5. PICK sl : sl = [st.slot EXCEPT ![i] = s2]
    OBVIOUS
  <2>6. x = [slot |-> sl, events |-> st.events, hs |-> st.hs, trouble |-> st.trouble]
    BY <1>1, <1>8, <2>2, <2>5 DEF Shaped
  <2>7. PICK hh : hh = [st.hs EXCEPT ![h] = [n EXCEPT !.in = rest]]
    OBVIOUS
  <2>8. y = [slot |-> sl, events |-> st.events, hs |-> hh, trouble |-> st.trouble]
    BY <1>1, <2>3, <2>6, <2>7
  <2>9. PICK hx : hx = [hh EXCEPT ![h].got = got2]
    OBVIOUS
  <2>10. nx = [slot |-> sl, events |-> st.events, hs |-> hx, trouble |-> st.trouble]
    BY <2>4, <2>8, <2>9
  <2>11. hx = [st.hs EXCEPT ![h] = n2]
    BY <1>1, <1>9, <2>7, <2>9
  <2> QED
    BY <2>5, <2>10, <2>11 DEF Put
<1>14. /\ Changed(st, nx, i, h) /\ nx.slot[i] = s2 /\ nx.hs[h] = n2 /\ nx.trouble = st.trouble
  <2>1. PICK ev, tr : ev = st.events /\ tr = st.trouble
    OBVIOUS
  <2>2. /\ Ring(ev) /\ tr \in BOOLEAN /\ (st.trouble => tr)
        /\ n2.use = st.hs[h].use /\ n2.dir = st.hs[h].dir
    BY <1>1, <1>12, <2>1
  <2>3. nx = Put(st, ev, tr, i, s2, h, n2) /\ HandleOK(n2) /\ Shaped(st)
    BY <1>1, <1>12, <1>13, <2>1
  <2>4. /\ Changed(st, nx, i, h) /\ nx.slot[i] = s2 /\ nx.hs[h] = n2 /\ nx.trouble = tr
    BY <1>11, <2>2, <2>3, PutIs, SMTT(60)
  <2> QED
    BY <2>1, <2>4
<1>15. ASSUME ~st.trouble, ~n.dead
       PROVE  Accounts(s2, n2) /\ Echoed(n2)
  <2>1. Accounts(s, n) /\ n.dir = s.dir
    BY <1>15, SMTT(20) DEF Ready, Sound, Honest
  <2>2. CASE s.state = "initiator_reading"
    <3>1. PICK X \in Seq(Nat) : n.wrote = X \o SubSeq(s.tx, 1, s.txPos) /\ n.got = X \o s.rx
      BY <2>1, <2>2 DEF Accounts, Initiating
    <3>2. Regroups(X, s.rx, c)
      <4>1. X \in Seq(Nat) /\ s.rx \in Seq(Nat) /\ c \in Seq(Nat)
        BY <1>2, <1>4, <3>1, SMTT(20)
      <4> QED
        BY <4>1, Associative, Zenon
    <3>3. got2 = X \o rx2
      BY <1>6, <1>7, <3>1, <3>2 DEF Regroups
    <3>4. n2.dir # "in"
      BY <1>1, <1>12, <2>1, <2>2, SMTT(20) DEF SlotOK, Initiating
    <3> QED
      BY <1>10, <1>12, <2>2, <3>1, <3>3, <3>4 DEF Accounts, Echoed
  <2>3. CASE s.state = "responder_reading"
    <3>1. n.got = n.wrote \o s.rx
      BY <2>1, <2>3 DEF Accounts
    <3>2. Regroups(n.wrote, s.rx, c)
      <4>1. n.wrote \in Seq(Nat) /\ s.rx \in Seq(Nat) /\ c \in Seq(Nat)
        BY <1>2, <1>4
      <4> QED
        BY <4>1, Associative, Zenon
    <3>3. got2 = n.wrote \o rx2
      BY <1>6, <1>7, <3>1, <3>2, ZenonT(30) DEF Regroups
    <3>4. IsPrefix(n.wrote, n.wrote \o rx2)
      BY <1>2, <1>6, AllButOf
    <3>5. s2.state \notin Initiating
      BY <1>10, <2>3 DEF Initiating
    <3> QED
      BY <1>10, <1>12, <2>3, <3>3, <3>4, <3>5 DEF Accounts, Echoed
  <2> QED
    BY <2>2, <2>3 DEF Reading
<1>16. Sound(nx, i, h)
  BY <1>12, <1>14, <1>15 DEF Sound, Honest, Echoed
<1> QED
  BY <1>1, <1>10, <1>12, <1>14, <1>16 DEF Ready, Changed

\* The whole payload becomes what is to be echoed.
ToEcho(st, i) == [st EXCEPT !.slot[i].tx = st.slot[i].rx, !.slot[i].txPos = 0,
                            !.slot[i].state = "responder_writing"]

LEMMA EchoIs ==
    ASSUME NEW st, NEW i \in Slots, NEW h \in Handles, Ready(st, i, h),
           st.slot[i].state = "responder_reading", Len(st.slot[i].rx) = PayloadBytes,
           NEW nx, nx = ToEcho(st, i)
    PROVE  /\ Changed(st, nx, i, h) /\ Ready(nx, i, h)
           /\ nx.slot[i].state = "responder_writing" /\ nx.slot[i].dir = st.slot[i].dir
<1> DEFINE s == st.slot[i]
           n == st.hs[h]
<1>1. /\ st.slot \in [Slots -> SlotRec] /\ st.hs \in [Handles -> HandleRec]
      /\ SlotOK(s) /\ HandleOK(n) /\ Shaped(st) /\ s.stream = h
      /\ Ring(st.events) /\ st.trouble \in BOOLEAN
  BY ShapedIs DEF Ready
<1>2. /\ s \in SlotRec /\ s.rx \in Seq(Nat) /\ n.got \in Seq(Nat) /\ n.wrote \in Seq(Nat)
      /\ s.dir = "in"
  BY <1>1 DEF SlotOK, SlotRec, HandleOK, HandleRec, Responding
<1>3. PICK r \in Seq(Nat) : r = s.rx /\ Len(r) = PayloadBytes
  BY <1>2
<1>4. PICK s2 : s2 = [s EXCEPT !.tx = r, !.txPos = 0, !.state = "responder_writing"]
  OBVIOUS
<1>5. /\ s2 \in SlotRec /\ s2.state = "responder_writing" /\ s2.dir = s.dir /\ s2.tx = r
      /\ s2.txPos = 0 /\ s2.rx = r /\ s2.stream = s.stream
  BY <1>2, <1>3, <1>4 DEF SlotRec, Active
<1>6. SlotOK(s2)
  <2>1. 0 <= PayloadBytes /\ Len(r) <= PayloadBytes
    BY <1>3, Constants
  <2> QED
    BY <1>1, <1>2, <1>3, <1>5, <2>1 DEF SlotOK, Initiating, Responding
<1>7. nx = Put(st, st.events, st.trouble, i, s2, h, n)
  <2>1. PICK x : x = [st EXCEPT !.slot[i].tx = r]
    OBVIOUS
  <2>2. PICK y : y = [x EXCEPT !.slot[i].txPos = 0]
    OBVIOUS
  <2>3. nx = [y EXCEPT !.slot[i].state = "responder_writing"]
    BY <1>3, <2>1, <2>2 DEF ToEcho
  <2>4. PICK sx : sx = [st.slot EXCEPT ![i] = [s EXCEPT !.tx = r]]
    OBVIOUS
  <2>5. x = [slot |-> sx, events |-> st.events, hs |-> st.hs, trouble |-> st.trouble]
    BY <1>1, <2>1, <2>4 DEF Shaped
  <2>6. PICK sy : sy = [sx EXCEPT ![i].txPos = 0]
    OBVIOUS
  <2>7. y = [slot |-> sy, events |-> st.events, hs |-> st.hs, trouble |-> st.trouble]
    BY <2>2, <2>5, <2>6
  <2>8. PICK sz : sz = [sy EXCEPT ![i].state = "responder_writing"]
    OBVIOUS
  <2>9. nx = [slot |-> sz, events |-> st.events, hs |-> st.hs, trouble |-> st.trouble]
    BY <2>3, <2>7, <2>8
  <2>10. sz = [st.slot EXCEPT ![i] = s2]
    BY <1>1, <1>4, <2>4, <2>6, <2>8
  <2>11. [st.hs EXCEPT ![h] = n] = st.hs
    BY <1>1
  <2> QED
    BY <2>9, <2>10, <2>11 DEF Put
<1>8. Changed(st, nx, i, h) /\ nx.slot[i] = s2 /\ nx.hs[h] = n /\ nx.trouble = st.trouble
  <2>1. PICK ev, tr, m : ev = st.events /\ tr = st.trouble /\ m = n
    OBVIOUS
  <2>2. /\ Ring(ev) /\ tr \in BOOLEAN /\ (st.trouble => tr) /\ HandleOK(m) /\ Shaped(st)
        /\ m.use = st.hs[h].use /\ m.dir = st.hs[h].dir
    BY <1>1, <2>1
  <2>3. nx = Put(st, ev, tr, i, s2, h, m)
    BY <1>7, <2>1
  <2>4. Changed(st, nx, i, h) /\ nx.slot[i] = s2 /\ nx.hs[h] = m /\ nx.trouble = tr
    BY <1>6, <2>2, <2>3, PutIs
  <2> QED
    BY <2>1, <2>4
<1>9. ASSUME ~st.trouble, ~n.dead
      PROVE  Accounts(s2, n)
  <2>1. n.got = n.wrote \o s.rx
    BY <1>9, ZenonT(30) DEF Ready, Sound, Honest, Accounts
  <2>2. SubSeq(r, 1, 0) = <<>>
    BY SubSeqEmpty
  <2>3. n.wrote \o <<>> = n.wrote
    BY <1>2, ConcatEmptySeq
  <2>4. n.wrote = n.wrote \o SubSeq(s2.tx, 1, s2.txPos) /\ n.got = n.wrote \o s2.tx
    BY <1>3, <1>5, <2>1, <2>2, <2>3
  <2>5. s2.state = "responder_writing" /\ s2.state \notin Initiating
    BY <1>5 DEF Initiating
  <2> QED
    BY <1>2, <2>4, <2>5, ZenonT(30) DEF Accounts
<1>10. Sound(nx, i, h)
  BY <1>8, <1>9 DEF Sound, Honest, Ready
<1> QED
  BY <1>1, <1>5, <1>8, <1>10 DEF Ready, Changed, Active

\* ping_read_responder
LEMMA ReadResponderLeads ==
    ASSUME NEW st, NEW i \in Slots, NEW h \in Handles, Ready(st, i, h),
           st.slot[i].state = "responder_reading", NEW o \in ReadResponder(st, i)
    PROVE  Leads(st, o, i, h)
<1>1. st.slot[i].stream = h /\ Shaped(st) /\ st.slot[i].state \in Active
  BY DEF Ready
<1>2. ASSUME NEW r \in Reads(st, i), o \in Respond(r.st, r.fin, i)
      PROVE  Leads(st, o, i, h)
  <2>1. PICK nx : nx = r.st
    OBVIOUS
  <2>2. PICK k \in Nat : /\ k <= Len(st.hs[h].in) /\ Len(st.slot[i].rx) + k <= PayloadBytes
                        /\ nx = Fill(st, i, k)
    BY <1>2, <2>1, ReadIs
  <2>3. /\ Changed(st, nx, i, h) /\ Ready(nx, i, h)
        /\ nx.slot[i].state = "responder_reading" /\ nx.slot[i].dir = st.slot[i].dir
    BY <2>2, FillIs DEF Reading
  <2>4. PICK y : y = ToEcho(nx, i)
    OBVIOUS
  <2>5. \/ Len(nx.slot[i].rx) = PayloadBytes /\ o \in WriteStream(y, i)
        \/ o = Ok(nx)
        \/ o = EmitClosed(nx, i)
        \/ o = FailStream(nx, i)
    BY <1>2, <2>1, <2>4, Zenon DEF Respond, ToEcho
  <2>6. ASSUME Len(nx.slot[i].rx) = PayloadBytes, o \in WriteStream(y, i)
        PROVE  Leads(nx, o, i, h)
    <3>1. /\ Changed(nx, y, i, h) /\ Ready(y, i, h)
          /\ y.slot[i].state = "responder_writing" /\ y.slot[i].dir = nx.slot[i].dir
      BY <2>3, <2>4, <2>6, EchoIs
    <3>2. Leads(y, o, i, h)
      BY <2>6, <3>1, WriteStreamLeads DEF Writing
    <3> QED
      BY <2>3, <3>1, <3>2, LeadsOn DEF Ready
  <2>7. /\ Leads(nx, Ok(nx), i, h) /\ Leads(nx, FailStream(nx, i), i, h)
        /\ Leads(nx, EmitClosed(nx, i), i, h)
    BY <2>3, OkLeads, FailStreamLeads, EmitClosedLeads DEF Ready, Sound
  <2>8. Leads(nx, o, i, h)
    BY <2>5, <2>6, <2>7
  <2> QED
    BY <1>1, <2>3, <2>8, LeadsOn
<1>3. Leads(st, Ok(st), i, h) /\ Leads(st, FailStream(st, i), i, h)
  BY <1>1, OkLeads, FailStreamLeads
<1>4. \/ o = FailStream(st, i)
      \/ o = Ok(st)
      \/ \E r \in Reads(st, i) : o \in Respond(r.st, r.fin, i)
  BY Zenon DEF ReadResponder
<1> QED
  BY <1>2, <1>3, <1>4

\* ping_read_initiator
LEMMA ReadInitiatorLeads ==
    ASSUME NEW st, NEW i \in Slots, NEW h \in Handles, Ready(st, i, h),
           st.slot[i].state = "initiator_reading", NEW o \in ReadInitiator(st, i)
    PROVE  Leads(st, o, i, h)
<1>1. st.slot[i].stream = h /\ Shaped(st) /\ st.slot[i].state \in Active
  BY DEF Ready
<1>2. ASSUME NEW r \in Reads(st, i), o \in Compare(r.st, r.fin, i)
      PROVE  Leads(st, o, i, h)
  <2>1. PICK nx : nx = r.st
    OBVIOUS
  <2>2. PICK k \in Nat : /\ k <= Len(st.hs[h].in) /\ Len(st.slot[i].rx) + k <= PayloadBytes
                        /\ nx = Fill(st, i, k)
    BY <1>2, <2>1, ReadIs
  <2>3. /\ Changed(st, nx, i, h) /\ Ready(nx, i, h)
        /\ nx.slot[i].state = "initiator_reading" /\ nx.slot[i].dir = st.slot[i].dir
    BY <2>2, FillIs DEF Reading
  <2>4. \/ nx.slot[i].rx = nx.slot[i].tx /\ o = EmitPong(nx, i)
        \/ o = Ok(nx)
        \/ o = FailStream(nx, i)
    BY <1>2, <2>1, Zenon DEF Compare
  <2>5. /\ Leads(nx, Ok(nx), i, h) /\ Leads(nx, FailStream(nx, i), i, h)
        /\ nx.slot[i].rx = nx.slot[i].tx => Leads(nx, EmitPong(nx, i), i, h)
    BY <2>3, OkLeads, FailStreamLeads, EmitPongLeads DEF Ready
  <2>6. Leads(nx, o, i, h)
    BY <2>4, <2>5
  <2> QED
    BY <1>1, <2>3, <2>6, LeadsOn
<1>3. Leads(st, Ok(st), i, h) /\ Leads(st, FailStream(st, i), i, h)
  BY <1>1, OkLeads, FailStreamLeads
<1>4. \/ o = FailStream(st, i)
      \/ o = Ok(st)
      \/ \E r \in Reads(st, i) : o \in Compare(r.st, r.fin, i)
  BY Zenon DEF ReadInitiator
<1> QED
  BY <1>2, <1>3, <1>4

-----------------------------------------------------------------------------
(***************************************************************************)
(* Steps and the invariant                                                 *)
(***************************************************************************)

\* The outcome of a callback for a slot that names the stream.
LEMMA LeadsFine ==
    ASSUME NEW st, Fine(st), NEW i \in Slots, NEW h \in Handles, st.slot[i].state # "free",
           st.slot[i].stream = h, NEW o, Leads(st, o, i, h)
    PROVE  Fine(o.st)
<1>1. PICK nx : nx = o.st
  OBVIOUS
<1>2. /\ Shaped(nx)
      /\ \A j \in Slots \ {i} : nx.slot[j] = st.slot[j]
      /\ \A g \in Handles \ {h} : nx.hs[g] = st.hs[g]
      /\ nx.hs[h].use = st.hs[h].use /\ nx.hs[h].dir = st.hs[h].dir
      /\ st.trouble => nx.trouble
  BY <1>1 DEF Leads, Changed
<1>3. \/ nx.slot[i].state = "evented" /\ nx.slot[i].stream \in {h, NoStream}
      \/ /\ nx.slot[i].state \in Active /\ nx.slot[i].stream = h
         /\ st.slot[i].state \in Active /\ nx.slot[i].dir = st.slot[i].dir
  BY <1>1 DEF Leads
<1>4. Sound(nx, i, h)
  BY <1>1 DEF Leads
<1>5. SUFFICES ASSUME ~nx.trouble
               PROVE  Good(nx)
  BY <1>1, <1>2 DEF Fine
<1>6. Good(st)
  BY <1>2, <1>5 DEF Fine
<1>7. NoStream \notin Handles
  BY Constants
<1>8. ASSUME NEW j \in Slots, nx.slot[j].state \in Active
      PROVE  Backed(nx, j) /\ Honest(nx.slot[j], nx.hs[nx.slot[j].stream])
  <2>1. CASE j = i
    <3>1. nx.slot[i].stream = h /\ st.slot[i].state \in Active /\ nx.slot[i].dir = st.slot[i].dir
      BY <1>3, <1>8, <2>1 DEF Active
    <3>2. Backed(st, i)
      BY <1>6, <3>1 DEF Good
    <3>3. Backed(nx, i)
      BY <1>2, <3>1, <3>2 DEF Backed
    <3> QED
      BY <1>4, <1>5, <2>1, <3>1, <3>3 DEF Sound
  <2>2. CASE j # i
    <3>1. nx.slot[j] = st.slot[j]
      BY <1>2, <2>2
    <3>2. PICK g : g = st.slot[j].stream
      OBVIOUS
    <3>3. Backed(st, j) /\ Honest(st.slot[j], st.hs[g])
      BY <1>6, <1>8, <3>1, <3>2 DEF Good
    <3>4. g \in Handles /\ g # h
      BY <2>2, <3>2, <3>3 DEF Backed
    <3>5. nx.hs[g] = st.hs[g]
      BY <1>2, <3>4
    <3>6. \A k \in Slots : nx.slot[k].state # "free" /\ nx.slot[k].stream = g => k = j
      <4>1. \A k \in Slots : st.slot[k].state # "free" /\ st.slot[k].stream = g => k = j
        BY <3>2, <3>3 DEF Backed
      <4>2. nx.slot[i].stream # g
        BY <1>3, <1>7, <3>4
      <4> QED
        BY <1>2, <4>1, <4>2
    <3>7. st.hs[g].use = "open" /\ st.hs[g].dir = st.slot[j].dir
      BY <3>2, <3>3 DEF Backed
    <3>8. Backed(nx, j)
      BY <3>1, <3>2, <3>4, <3>5, <3>6, <3>7 DEF Backed
    <3> QED
      BY <3>1, <3>2, <3>3, <3>5, <3>8
  <2> QED
    BY <2>1, <2>2
<1>9. ASSUME NEW g \in Handles, nx.hs[g].use = "negotiating"
      PROVE  Fresh(nx, g)
  <2>1. st.hs[g].use = "negotiating"
    BY <1>2, <1>9
  <2>2. Fresh(st, g)
    BY <1>6, <2>1 DEF Good
  <2>3. g # h
    BY <2>2 DEF Fresh, Unnamed
  <2>4. nx.hs[g] = st.hs[g]
    BY <1>2, <2>3
  <2>5. nx.slot[i].stream # g
    BY <1>3, <1>7, <2>3
  <2>6. Unnamed(nx, g)
    BY <1>2, <2>2, <2>5 DEF Fresh, Unnamed
  <2> QED
    BY <2>2, <2>4, <2>6 DEF Fresh
<1>10. ASSUME NEW g \in Handles
       PROVE  Echoed(nx.hs[g])
  <2>1. CASE g = h
    BY <1>4, <1>5, <2>1 DEF Sound
  <2>2. CASE g # h
    BY <1>2, <1>6, <2>2 DEF Good
  <2> QED
    BY <2>1, <2>2
<1> QED
  BY <1>8, <1>9, <1>10 DEF Good

\* The record with another stream at handle h.
WithHandle(st, h, n2) ==
    [slot |-> st.slot, events |-> st.events, hs |-> [st.hs EXCEPT ![h] = n2],
     trouble |-> st.trouble]

LEMMA WithHandleIs ==
    ASSUME NEW st, Shaped(st), NEW h \in Handles, NEW n2, HandleOK(n2),
           NEW nx, nx = WithHandle(st, h, n2)
    PROVE  /\ Shaped(nx) /\ nx.slot = st.slot /\ nx.trouble = st.trouble /\ nx.events = st.events
           /\ nx.hs[h] = n2 /\ \A g \in Handles \ {h} : nx.hs[g] = st.hs[g]
<1>1. /\ nx.slot = st.slot /\ nx.events = st.events /\ nx.trouble = st.trouble
      /\ nx.hs = [st.hs EXCEPT ![h] = n2]
      /\ nx = [slot |-> nx.slot, events |-> nx.events, hs |-> nx.hs, trouble |-> nx.trouble]
  BY DEF WithHandle
<1>2. st.hs \in [Handles -> HandleRec] /\ \A g \in Handles : HandleOK(st.hs[g])
  BY DEF Shaped
<1>3. n2 \in HandleRec
  BY DEF HandleOK
<1>4. /\ nx.hs[h] = n2 /\ \A g \in Handles \ {h} : nx.hs[g] = st.hs[g]
      /\ nx.hs \in [Handles -> HandleRec]
  BY <1>1, <1>2, <1>3
<1>5. \A g \in Handles : HandleOK(nx.hs[g])
  BY <1>2, <1>4
<1>6. Shaped(nx)
  BY <1>1, <1>4, <1>5 DEF Shaped
<1> QED
  BY <1>1, <1>4, <1>6

\* A stream changes and keeps what was carried on it, or it ends.
LEMMA HandleFine ==
    ASSUME NEW st, Fine(st), NEW h \in Handles, NEW n2, HandleOK(n2),
           n2.use = st.hs[h].use, n2.dir = st.hs[h].dir,
           \/ n2.use = "open" /\ n2.dead
           \/ n2.dead = st.hs[h].dead /\ n2.got = st.hs[h].got /\ n2.wrote = st.hs[h].wrote,
           NEW nx, nx = WithHandle(st, h, n2)
    PROVE  Fine(nx)
<1>1. /\ Shaped(nx) /\ nx.slot = st.slot /\ nx.trouble = st.trouble
      /\ nx.hs[h] = n2 /\ \A g \in Handles \ {h} : nx.hs[g] = st.hs[g]
  BY WithHandleIs DEF Fine
<1>2. SUFFICES ASSUME ~nx.trouble
               PROVE  Good(nx)
  BY <1>1 DEF Fine
<1>3. Good(st)
  BY <1>1, <1>2 DEF Fine
<1>4. ASSUME NEW j \in Slots, nx.slot[j].state \in Active
      PROVE  Backed(nx, j) /\ Honest(nx.slot[j], nx.hs[nx.slot[j].stream])
  <2>1. PICK g : g = st.slot[j].stream
    OBVIOUS
  <2>2. Backed(st, j) /\ Honest(st.slot[j], st.hs[g])
    BY <1>1, <1>3, <1>4, <2>1 DEF Good
  <2>3. g \in Handles
    BY <2>1, <2>2 DEF Backed
  <2>4. nx.hs[g].use = st.hs[g].use /\ nx.hs[g].dir = st.hs[g].dir
    BY <1>1, <2>3
  <2>5. Backed(nx, j)
    BY <1>1, <2>1, <2>2, <2>4 DEF Backed
  <2>6. Honest(st.slot[j], nx.hs[g])
    <3>1. CASE g # h
      BY <1>1, <2>2, <2>3, <3>1, SMTT(20)
    <3>2. CASE g = h
      BY <1>1, <2>2, <3>2, ZenonT(30) DEF Honest, Accounts
    <3> QED
      BY <3>1, <3>2
  <2> QED
    BY <1>1, <2>1, <2>5, <2>6
<1>5. ASSUME NEW g \in Handles, nx.hs[g].use = "negotiating"
      PROVE  Fresh(nx, g)
  <2>1. st.hs[g].use = "negotiating"
    BY <1>1, <1>5
  <2>2. Fresh(st, g)
    BY <1>3, <2>1 DEF Good
  <2>3. /\ nx.hs[g].dead = st.hs[g].dead /\ nx.hs[g].got = st.hs[g].got
        /\ nx.hs[g].wrote = st.hs[g].wrote
    BY <1>1, <2>1
  <2> QED
    BY <1>1, <2>2, <2>3 DEF Fresh, Unnamed
<1>6. ASSUME NEW g \in Handles
      PROVE  Echoed(nx.hs[g])
  BY <1>1, <1>3 DEF Good, Echoed
<1> QED
  BY <1>4, <1>5, <1>6 DEF Good

LEMMA FreeHandleIs ==
    /\ HandleOK(FreeHandle) /\ FreeHandle.use = "free" /\ Echoed(FreeHandle)
    /\ FreeHandle.use # "negotiating"
<1>1. <<>> \in Seq(Nat)
  BY EmptySeq
<1>2. FreeHandle \in HandleRec
  BY <1>1 DEF FreeHandle, HandleRec, Dirs
<1>3. FreeHandle.use = "free"
  BY DEF FreeHandle
<1> QED
  BY <1>2, <1>3 DEF HandleOK, Echoed

\* host_stream_release, of a stream that no slot in use has.
LEMMA ReleaseFine ==
    ASSUME NEW st, Fine(st), NEW h \in Handles,
           st.trouble \/ \A i \in Slots : st.slot[i].state \in Active => st.slot[i].stream # h
    PROVE  Fine(Release(st, h))
<1>1. PICK nx : nx = Release(st, h)
  OBVIOUS
<1>2. PICK n2 : n2 = FreeHandle
  OBVIOUS
<1>3. HandleOK(n2) /\ n2.use # "negotiating" /\ Echoed(n2)
  BY <1>2, FreeHandleIs
<1>4. nx = WithHandle(st, h, n2)
  <2>1. st = [slot |-> st.slot, events |-> st.events, hs |-> st.hs, trouble |-> st.trouble]
    BY DEF Fine, Shaped
  <2>2. nx = [st EXCEPT !.hs[h] = n2]
    BY <1>1, <1>2, Zenon DEF Release
  <2> QED
    BY <2>1, <2>2 DEF WithHandle
<1>5. /\ Shaped(nx) /\ nx.slot = st.slot /\ nx.trouble = st.trouble
      /\ nx.hs[h] = n2 /\ \A g \in Handles \ {h} : nx.hs[g] = st.hs[g]
  BY <1>3, <1>4, WithHandleIs DEF Fine
<1>6. SUFFICES ASSUME ~nx.trouble
               PROVE  Good(nx)
  BY <1>1, <1>5 DEF Fine
<1>7. Good(st) /\ \A i \in Slots : st.slot[i].state \in Active => st.slot[i].stream # h
  BY <1>5, <1>6 DEF Fine
<1>8. ASSUME NEW j \in Slots, nx.slot[j].state \in Active
      PROVE  Backed(nx, j) /\ Honest(nx.slot[j], nx.hs[nx.slot[j].stream])
  BY <1>5, <1>7, <1>8 DEF Good, Backed
<1>9. ASSUME NEW g \in Handles, nx.hs[g].use = "negotiating"
      PROVE  Fresh(nx, g)
  BY <1>3, <1>5, <1>7, <1>9 DEF Good, Fresh, Unnamed
<1>10. ASSUME NEW g \in Handles
       PROVE  Echoed(nx.hs[g])
  BY <1>3, <1>5, <1>7 DEF Good
<1> QED
  BY <1>8, <1>9, <1>10 DEF Good

LEMMA FailedFine ==
    ASSUME NEW st, Fine(st)
    PROVE  Fine(Failed(st).st) /\ ~Failed(st).ok /\ Failed(st).st.trouble
<1>1. 1 \in Slots /\ 1 \in Handles
  BY PingAssumption DEF Slots, Handles
<1>2. Failed(st).ok = FALSE /\ Changed(st, Failed(st).st, 1, 1) /\ Failed(st).st.trouble
  BY <1>1, FailedIs DEF Fine
<1> QED
  BY <1>2 DEF Fine, Changed

\* A slot in use is ready to be read or written.
LEMMA InUse ==
    ASSUME NEW st, Fine(st), NEW i \in Slots, NEW h \in Handles, st.slot[i].state \in Active,
           st.slot[i].stream = h
    PROVE  Ready(st, i, h)
BY DEF Fine, Good, Ready, Sound, Backed

\* What on_event promises the host: no outcome breaks the invariant, an error is trouble,
\* and the end of a stream leaves it to nobody.
Handled(o, h, kind) ==
    /\ Fine(o.st) /\ (~o.ok => o.st.trouble)
    /\ kind = "closed" =>
         (o.st.trouble \/ \A i \in Slots : o.st.slot[i].state \in Active => o.st.slot[i].stream # h)

\* ping_on_event
LEMMA OnEventIs ==
    ASSUME NEW st, Fine(st), NEW h \in Handles, NEW kind, NEW o \in OnEvent(st, h, kind)
    PROVE  Handled(o, h, kind)
<1>1. CASE SlotsOf(st, h) = {}
  <2>1. o = Ok(st) \/ o = Failed(st)
    BY <1>1, Zenon DEF OnEvent
  <2>2. CASE o = Failed(st)
    BY <2>2, FailedFine DEF Handled
  <2>3. CASE o = Ok(st)
    <3>1. o.st = st /\ o.ok
      BY <2>3 DEF Ok
    <3>2. \A i \in Slots : st.slot[i].state \in Active => st.slot[i].stream # h
      BY <1>1 DEF SlotsOf, Active
    <3> QED
      BY <3>1, <3>2 DEF Handled
  <2> QED
    BY <2>1, <2>2, <2>3
<1>2. CASE SlotsOf(st, h) # {}
  <2>1. PICK i : i = First(SlotsOf(st, h))
    OBVIOUS
  <2>2. i \in Slots /\ st.slot[i].state # "free" /\ st.slot[i].stream = h
    <3>1. SlotsOf(st, h) \subseteq Nat
      BY DEF SlotsOf, Slots
    <3>2. i \in SlotsOf(st, h)
      BY <1>2, <2>1, <3>1, FirstIs
    <3> QED
      BY <3>2 DEF SlotsOf
  <2>3. \/ kind = "reset" /\ o = FailStream(st, i)
        \/ kind = "closed" /\ o = EmitClosed(st, i)
        \/ /\ kind = "readable" /\ st.slot[i].state = "initiator_reading"
           /\ o \in ReadInitiator(st, i)
        \/ /\ kind = "readable" /\ st.slot[i].state = "responder_reading"
           /\ o \in ReadResponder(st, i)
        \/ /\ kind = "writable" /\ st.slot[i].state \in Writing /\ o \in WriteStream(st, i)
        \/ kind \notin {"reset", "closed"} /\ o = Ok(st)
    BY <1>2, <2>1 DEF OnEvent, Writing
  <2>4. Shaped(st)
    BY DEF Fine
  <2>5. ASSUME Leads(st, o, i, h)
        PROVE  Fine(o.st) /\ (~o.ok => o.st.trouble)
    BY <2>2, <2>5, LeadsFine DEF Leads
  <2>6. CASE kind = "reset" /\ o = FailStream(st, i)
    BY <2>2, <2>4, <2>5, <2>6, FailStreamLeads DEF Handled
  <2>7. CASE kind = "closed" /\ o = EmitClosed(st, i)
    <3>1. st.trouble \/ Echoed(st.hs[h])
      BY DEF Fine, Good
    <3>2. Leads(st, o, i, h) /\ o.st.slot[i].state = "evented" /\ o.st.slot[i].stream = h
      BY <2>2, <2>4, <2>7, <3>1, EmitClosedLeads
    <3>3. Fine(o.st) /\ (~o.ok => o.st.trouble)
      BY <2>5, <3>2
    <3>4. ASSUME ~o.st.trouble, NEW j \in Slots, o.st.slot[j].state \in Active,
                 o.st.slot[j].stream = h
          PROVE  FALSE
      <4>1. Backed(o.st, j)
        BY <3>3, <3>4 DEF Fine, Good
      <4>2. i = j
        BY <2>2, <3>2, <3>4, <4>1 DEF Backed
      <4> QED
        BY <3>2, <3>4, <4>2 DEF Active
    <3> QED
      BY <3>3, <3>4 DEF Handled
  <2>8. CASE /\ kind = "readable" /\ st.slot[i].state = "initiator_reading"
             /\ o \in ReadInitiator(st, i)
    <3>1. Ready(st, i, h)
      BY <2>2, <2>8, InUse DEF Active
    <3> QED
      BY <2>2, <2>5, <2>8, <3>1, ReadInitiatorLeads DEF Handled
  <2>9. CASE /\ kind = "readable" /\ st.slot[i].state = "responder_reading"
             /\ o \in ReadResponder(st, i)
    <3>1. Ready(st, i, h)
      BY <2>2, <2>9, InUse DEF Active
    <3> QED
      BY <2>2, <2>5, <2>9, <3>1, ReadResponderLeads DEF Handled
  <2>10. CASE kind = "writable" /\ st.slot[i].state \in Writing /\ o \in WriteStream(st, i)
    <3>1. Ready(st, i, h)
      BY <2>2, <2>10, InUse DEF Active, Writing
    <3> QED
      BY <2>2, <2>5, <2>10, <3>1, WriteStreamLeads DEF Handled
  <2>11. CASE kind \notin {"reset", "closed"} /\ o = Ok(st)
    <3>1. o.st = st /\ o.ok
      BY <2>11 DEF Ok
    <3> QED
      BY <2>11, <3>1 DEF Handled
  <2> QED
    BY <2>3, <2>6, <2>7, <2>8, <2>9, <2>10, <2>11
<1> QED
  BY <1>1, <1>2

\* A stream that was just negotiated: open, and nobody's yet.
Offered(st, h) ==
    /\ Fine(st) /\ st.hs[h].use = "open"
    /\ \/ st.trouble
       \/ /\ Unnamed(st, h) /\ ~st.hs[h].dead
          /\ st.hs[h].got = <<>> /\ st.hs[h].wrote = <<>>

\* The slot that takes a new stream.
Taking(st, h, s2) ==
    /\ SlotOK(s2) /\ s2.stream = h /\ s2.dir = st.hs[h].dir /\ s2.rx = <<>> /\ s2.txPos = 0
    /\ s2.state \in {"initiator_writing", "responder_reading"}

WithSlot(st, i, s2) == [st EXCEPT !.slot[i] = s2]

LEMMA TakeIs ==
    ASSUME NEW st, NEW h \in Handles, Offered(st, h), NEW i \in Slots, NEW s2, Taking(st, h, s2),
           NEW nx, nx = WithSlot(st, i, s2)
    PROVE  /\ Fine(nx) /\ nx.slot[i] = s2 /\ nx.hs = st.hs
           /\ Ready(nx, i, h)
<1> DEFINE n == st.hs[h]
<1>1. /\ st.slot \in [Slots -> SlotRec] /\ st.hs \in [Handles -> HandleRec]
      /\ HandleOK(n) /\ Shaped(st) /\ Ring(st.events) /\ st.trouble \in BOOLEAN
  BY ShapedIs DEF Offered, Fine
<1>2. SlotOK(s2)
  BY DEF Taking
<1>3. PICK m : m = n
  OBVIOUS
<1>4. PICK ev, tr : ev = st.events /\ tr = st.trouble
  OBVIOUS
<1>5. nx = Put(st, ev, tr, i, s2, h, m)
  <2>1. [st.hs EXCEPT ![h] = m] = st.hs
    BY <1>1, <1>3
  <2>2. st = [slot |-> st.slot, events |-> st.events, hs |-> st.hs, trouble |-> st.trouble]
    BY <1>1 DEF Shaped
  <2> QED
    BY <1>4, <2>1, <2>2 DEF Put, WithSlot
<1>6. Changed(st, nx, i, h) /\ nx.slot[i] = s2 /\ nx.hs[h] = m /\ nx.trouble = tr
  <2>1. /\ Shaped(st) /\ Ring(ev) /\ tr \in BOOLEAN /\ (st.trouble => tr) /\ HandleOK(m)
        /\ m.use = st.hs[h].use /\ m.dir = st.hs[h].dir
    BY <1>1, <1>3, <1>4
  <2>2. PICK y : y = Put(st, ev, tr, i, s2, h, m)
    OBVIOUS
  <2>3. Changed(st, y, i, h) /\ y.slot[i] = s2 /\ y.hs[h] = m /\ y.trouble = tr
    BY <1>2, <2>1, <2>2, PutIs
  <2> QED
    BY <1>5, <2>2, <2>3
<1>7. /\ Shaped(nx) /\ nx.hs = st.hs /\ nx.trouble = st.trouble
      /\ \A j \in Slots \ {i} : nx.slot[j] = st.slot[j]
  <2>1. nx.hs = st.hs
    BY <1>1 DEF WithSlot, Shaped
  <2> QED
    BY <1>4, <1>6, <2>1 DEF Changed
<1>8. s2.stream = h /\ s2.state \in Active /\ s2.dir = n.dir /\ n.use = "open"
  BY DEF Taking, Offered, Active
<1>9. ASSUME ~nx.trouble
      PROVE  Good(nx) /\ Honest(s2, n)
  <2>1. /\ Unnamed(st, h) /\ n.got = <<>> /\ n.wrote = <<>> /\ Good(st)
    BY <1>7, <1>9 DEF Offered, Fine
  <2>2. Accounts(s2, n)
    <3>1. /\ s2.rx = <<>> /\ s2.txPos = 0 /\ s2.state \in {"initiator_writing", "responder_reading"}
      BY DEF Taking
    <3>2. PICK e \in Seq(Nat) : e = <<>>
      BY EmptySeq
    <3>3. SubSeq(s2.tx, 1, s2.txPos) = e /\ e \o e = e
      BY <3>1, <3>2, SubSeqEmpty, ConcatEmptySeq
    <3>4. n.wrote = e \o SubSeq(s2.tx, 1, s2.txPos) /\ n.got = e \o s2.rx
          /\ n.got = n.wrote \o s2.rx
      BY <2>1, <3>1, <3>2, <3>3
    <3>5. s2.state # "responder_writing"
      BY <3>1
    <3> QED
      BY <3>2, <3>4, <3>5 DEF Accounts
  <2>3. \A j \in Slots : st.slot[j].state # "free" => st.slot[j].stream # h
    BY <2>1 DEF Unnamed
  <2>4. ASSUME NEW j \in Slots, nx.slot[j].state \in Active
        PROVE  Backed(nx, j) /\ Honest(nx.slot[j], nx.hs[nx.slot[j].stream])
    <3>1. CASE j = i
      <4>1. \A k \in Slots : nx.slot[k].state # "free" /\ nx.slot[k].stream = h => k = i
        BY <1>7, <2>3
      <4>2. Backed(nx, i)
        BY <1>6, <1>7, <1>8, <4>1 DEF Backed
      <4> QED
        BY <1>6, <1>7, <1>8, <2>2, <3>1, <4>2 DEF Honest
    <3>2. CASE j # i
      <4>1. nx.slot[j] = st.slot[j] /\ st.slot[j].state \in Active
        BY <1>7, <2>4, <3>2
      <4>2. Backed(st, j) /\ Honest(st.slot[j], st.hs[st.slot[j].stream])
        BY <2>1, <4>1 DEF Good
      <4>3. st.slot[j].stream # h
        BY <2>3, <4>1 DEF Active
      <4>4. Backed(nx, j)
        BY <1>6, <1>7, <1>8, <4>1, <4>2, <4>3 DEF Backed
      <4> QED
        BY <1>7, <4>1, <4>2, <4>4
    <3> QED
      BY <3>1, <3>2
  <2>5. ASSUME NEW g \in Handles, nx.hs[g].use = "negotiating"
        PROVE  Fresh(nx, g)
    <3>1. g # h /\ Fresh(st, g)
      BY <1>7, <1>8, <2>1, <2>5 DEF Good
    <3> QED
      BY <1>6, <1>7, <1>8, <3>1 DEF Fresh, Unnamed
  <2>6. \A g \in Handles : Echoed(nx.hs[g])
    BY <1>7, <2>1 DEF Good
  <2> QED
    BY <2>2, <2>4, <2>5, <2>6 DEF Good, Honest
<1>10. Fine(nx)
  BY <1>7, <1>9 DEF Fine
<1> QED
  BY <1>6, <1>7, <1>8, <1>10, InUse

\* An outcome that the host can go on from.
Opened(o, h) == /\ Fine(o.st) /\ (~o.ok => o.st.trouble)
                /\ o.st.hs[h].use = "open"

LEMMA TakenOpens ==
    ASSUME NEW st, NEW h \in Handles, Offered(st, h), NEW i \in Slots, NEW s2, Taking(st, h, s2),
           NEW nx, nx = WithSlot(st, i, s2),
           NEW o, o = Ok(nx) \/ (s2.state = "initiator_writing" /\ o \in WriteStream(nx, i))
    PROVE  Opened(o, h)
<1>1. Fine(nx) /\ nx.slot[i] = s2 /\ nx.hs = st.hs /\ Ready(nx, i, h)
  BY TakeIs
<1>2. s2.state # "free" /\ s2.stream = h
  BY DEF Taking
<1>3. Leads(nx, o, i, h)
  BY <1>1, OkLeads, WriteStreamLeads DEF Writing
<1>4. Fine(o.st)
  BY <1>1, <1>2, <1>3, LeadsFine
<1>5. o.st.hs[h].use = "open"
  BY <1>1, <1>3 DEF Leads, Changed, Offered
<1> QED
  BY <1>3, <1>4, <1>5 DEF Opened, Leads

\* The slots that take a stream: one that was opening, or a free one.
OpeningSlot(s, h) == [s EXCEPT !.stream = h, !.dir = "out", !.state = "initiator_writing"]
InboundSlot(h) == [FreeSlot EXCEPT !.stream = h, !.dir = "in", !.state = "responder_reading"]

LEMMA OpeningTakes ==
    ASSUME NEW st, NEW h \in Handles, st.hs[h].dir = "out", NEW s, s \in SlotRec,
           s.rx = <<>>, s.txPos = 0, Len(s.tx) = PayloadBytes
    PROVE  Taking(st, h, OpeningSlot(s, h)) /\ OpeningSlot(s, h).state = "initiator_writing"
<1>1. PICK s2 : s2 = OpeningSlot(s, h)
  OBVIOUS
<1>2. /\ s2 \in SlotRec /\ s2.state = "initiator_writing" /\ s2.dir = "out" /\ s2.stream = h
      /\ s2.tx = s.tx /\ s2.txPos = s.txPos /\ s2.rx = s.rx
  BY <1>1 DEF OpeningSlot, SlotRec, Dirs, Active
<1>3. 0 <= PayloadBytes /\ Len(<<>>) = 0
  BY Constants, EmptySeq
<1>4. SlotOK(s2)
  BY <1>2, <1>3 DEF SlotOK, Initiating, Responding
<1> QED
  BY <1>1, <1>2, <1>4 DEF Taking

LEMMA FreeSlotIs ==
    /\ SlotOK(FreeSlot) /\ FreeSlot.state = "free" /\ FreeSlot.rx = <<>> /\ FreeSlot.txPos = 0
    /\ FreeSlot.stream = NoStream
<1>1. <<>> \in Seq(Nat) /\ Len(<<>>) = 0 /\ 0 <= PayloadBytes
  BY EmptySeq, Constants
<1>2. FreeSlot \in SlotRec
  BY <1>1 DEF FreeSlot, SlotRec, Dirs
<1>3. /\ FreeSlot.state = "free" /\ FreeSlot.rx = <<>> /\ FreeSlot.txPos = 0
      /\ FreeSlot.stream = NoStream
  BY DEF FreeSlot
<1> QED
  BY <1>1, <1>2, <1>3 DEF SlotOK, Initiating, Responding

LEMMA InboundTakes ==
    ASSUME NEW st, NEW h \in Handles, st.hs[h].dir = "in"
    PROVE  Taking(st, h, InboundSlot(h))
<1>1. PICK s2 : s2 = InboundSlot(h)
  OBVIOUS
<1>2. PICK s \in SlotRec : s = FreeSlot /\ s.rx = <<>> /\ s.txPos = 0
  BY FreeSlotIs DEF SlotOK
<1>3. /\ s2 \in SlotRec /\ s2.state = "responder_reading" /\ s2.dir = "in" /\ s2.stream = h
      /\ s2.txPos = s.txPos /\ s2.rx = s.rx
  BY <1>1, <1>2 DEF InboundSlot, SlotRec, Dirs, Active
<1>4. 0 <= PayloadBytes /\ Len(<<>>) = 0
  BY Constants, EmptySeq
<1>5. SlotOK(s2)
  BY <1>2, <1>3, <1>4 DEF SlotOK, Initiating, Responding
<1> QED
  BY <1>1, <1>2, <1>3, <1>5 DEF Taking

LEMMA PreparedIs ==
    ASSUME NEW p \in Payloads
    PROVE  /\ Prepared(FreeSlot, p) \in SlotRec
           /\ Prepared(FreeSlot, p).rx = <<>> /\ Prepared(FreeSlot, p).txPos = 0
           /\ Prepared(FreeSlot, p).tx = p /\ Len(p) = PayloadBytes
           /\ Prepared(FreeSlot, p).stream = NoStream
<1>1. PICK s \in SlotRec : s = FreeSlot /\ s.stream = NoStream
  BY FreeSlotIs DEF SlotOK
<1>2. PICK e \in Seq(Nat) : e = <<>>
  BY EmptySeq
<1>3. p \in Seq(Nat) /\ Len(p) = PayloadBytes
  BY Constants
<1>4. PICK s2 : s2 = [s EXCEPT !.tx = p, !.txPos = 0, !.rx = e]
  OBVIOUS
<1>5. s2 \in SlotRec /\ s2.rx = e /\ s2.txPos = 0 /\ s2.tx = p /\ s2.stream = s.stream
  BY <1>3, <1>4 DEF SlotRec
<1>6. Prepared(FreeSlot, p) = s2
  BY <1>1, <1>2, <1>4 DEF Prepared
<1> QED
  BY <1>1, <1>2, <1>3, <1>5, <1>6

\* ping_on_open
LEMMA OnOpenIs ==
    ASSUME NEW st, NEW h \in Handles, Offered(st, h), NEW o \in OnOpen(st, h)
    PROVE  Opened(o, h)
<1> DEFINE dir == st.hs[h].dir
           opening == IF dir = "out" THEN SlotsIn(st, "opening") ELSE {}
           free == SlotsIn(st, "free")
           Took(i, s) == [st EXCEPT !.slot[i] =
                            [s EXCEPT !.stream = h, !.dir = dir,
                                !.state = IF dir = "out" THEN "initiator_writing"
                                          ELSE "responder_reading"]]
<1>1. dir \in {"in", "out"} /\ \A i \in Slots : SlotOK(st.slot[i])
  BY ShapedIs DEF Offered, Fine, HandleOK
<1>2. opening \subseteq Nat /\ opening \subseteq Slots /\ free \subseteq Nat /\ free \subseteq Slots
  BY DEF SlotsIn, Slots
<1>3. CASE opening # {}
  <2>1. PICK i : i = First(opening)
    OBVIOUS
  <2>2. i \in opening
    BY <1>2, <1>3, <2>1, FirstIs
  <2>3. i \in Slots /\ st.slot[i].state = "opening" /\ dir = "out"
    BY <2>2 DEF SlotsIn
  <2>4. PICK s2 : s2 = OpeningSlot(st.slot[i], h)
    OBVIOUS
  <2>5. Taking(st, h, s2) /\ s2.state = "initiator_writing"
    <3>1. PICK s \in SlotRec : s = st.slot[i] /\ s.rx = <<>> /\ s.txPos = 0 /\ Len(s.tx) = PayloadBytes
      BY <1>1, <2>3 DEF SlotOK
    <3> QED
      BY <2>3, <2>4, <3>1, OpeningTakes
  <2>6. PICK nx : nx = WithSlot(st, i, s2)
    OBVIOUS
  <2>7. nx = Took(i, st.slot[i])
    BY <2>3, <2>4, <2>6 DEF OpeningSlot, WithSlot
  <2>8. o \in WriteStream(nx, i)
    BY <1>3, <2>1, <2>7, Zenon DEF OnOpen
  <2> QED
    BY <2>3, <2>5, <2>6, <2>8, TakenOpens
<1>4. CASE opening = {} /\ free = {}
  <2>1. o = Failed(st)
    BY <1>4, Zenon DEF OnOpen
  <2>2. Failed(st).st.hs = st.hs
    <3>1. 1 \in Slots
      BY PingAssumption DEF Slots
    <3> QED
      BY <3>1, FailedIs DEF Offered, Fine
  <2> QED
    BY <2>1, <2>2, FailedFine DEF Offered, Opened
<1>5. CASE opening = {} /\ free # {}
  <2>1. PICK i : i = First(free)
    OBVIOUS
  <2>2. i \in Slots
    <3>1. i \in free
      BY <1>2, <1>5, <2>1, FirstIs
    <3> QED
      BY <1>2, <3>1
  <2>3. \/ dir = "in" /\ o = Ok(Took(i, FreeSlot))
        \/ dir # "in" /\ \E p \in Payloads : o \in WriteStream(Took(i, Prepared(FreeSlot, p)), i)
    BY <1>5, <2>1, Zenon DEF OnOpen
  <2>4. CASE dir = "in" /\ o = Ok(Took(i, FreeSlot))
    <3>1. PICK s2 : s2 = InboundSlot(h)
      OBVIOUS
    <3>2. Taking(st, h, s2)
      BY <2>4, <3>1, InboundTakes
    <3>3. PICK nx : nx = WithSlot(st, i, s2)
      OBVIOUS
    <3>4. nx = Took(i, FreeSlot)
      BY <2>4, <3>1, <3>3 DEF InboundSlot, WithSlot
    <3> QED
      BY <2>2, <2>4, <3>2, <3>3, <3>4, TakenOpens
  <2>5. CASE dir # "in" /\ \E p \in Payloads : o \in WriteStream(Took(i, Prepared(FreeSlot, p)), i)
    <3>1. PICK p \in Payloads : o \in WriteStream(Took(i, Prepared(FreeSlot, p)), i)
      BY <2>5
    <3>2. dir = "out"
      BY <1>1, <2>5
    <3>3. PICK s : s = Prepared(FreeSlot, p)
      OBVIOUS
    <3>4. PICK s2 : s2 = OpeningSlot(s, h)
      OBVIOUS
    <3>5. Taking(st, h, s2) /\ s2.state = "initiator_writing"
      <4>1. s \in SlotRec /\ s.rx = <<>> /\ s.txPos = 0 /\ Len(s.tx) = PayloadBytes
        BY <3>3, PreparedIs
      <4> QED
        BY <3>2, <3>4, <4>1, OpeningTakes
    <3>6. PICK nx : nx = WithSlot(st, i, s2)
      OBVIOUS
    <3>7. nx = Took(i, s)
      BY <3>2, <3>4, <3>6 DEF OpeningSlot, WithSlot
    <3>8. o \in WriteStream(nx, i)
      BY <3>1, <3>3, <3>7, Zenon
    <3> QED
      BY <2>2, <3>5, <3>6, <3>8, TakenOpens
  <2> QED
    BY <2>3, <2>4, <2>5
<1> QED
  BY <1>3, <1>4, <1>5

LEMMA BecomeFine ==
    ASSUME NEW x, Fine(x), Become(x)
    PROVE  Fine(Now)'
<1>1. /\ slot' = x.slot /\ events' = x.events /\ hs' = x.hs /\ trouble' = x.trouble
      /\ x = [slot |-> x.slot, events |-> x.events, hs |-> x.hs, trouble |-> x.trouble]
  BY DEF Become, Fine, Shaped
<1>2. Now' = x
  BY <1>1 DEF Now
<1> QED
  BY <1>2

\* Pending events of a stream.
PendKinds == {"reset", "closed", "readable", "writable"}
WithPend(st, h, P) == [st EXCEPT !.hs[h].pend = P]

LEMMA PendFine ==
    ASSUME NEW st, Fine(st), NEW h \in Handles, NEW P \in SUBSET PendKinds
    PROVE  Fine(WithPend(st, h, P)) /\ WithPend(st, h, P).hs[h].use = st.hs[h].use
<1>1. /\ st.hs \in [Handles -> HandleRec] /\ HandleOK(st.hs[h])
      /\ st = [slot |-> st.slot, events |-> st.events, hs |-> st.hs, trouble |-> st.trouble]
  BY DEF Fine, Shaped
<1>2. PICK n \in HandleRec : n = st.hs[h]
  BY <1>1
<1>3. PICK n2 : n2 = [n EXCEPT !.pend = P]
  OBVIOUS
<1>4. /\ n2 \in HandleRec /\ n2.use = n.use /\ n2.dir = n.dir /\ n2.got = n.got
      /\ n2.wrote = n.wrote
  BY <1>2, <1>3 DEF HandleRec, PendKinds
<1>5. n2.dead = n.dead
  BY <1>2, <1>3 DEF HandleRec
<1>6. HandleOK(n2)
  BY <1>1, <1>2, <1>4 DEF HandleOK
<1>7. PICK nx : nx = WithHandle(st, h, n2)
  OBVIOUS
<1>8. WithPend(st, h, P) = nx
  BY <1>1, <1>2, <1>3, <1>7 DEF WithPend, WithHandle
<1>9. Fine(nx) /\ nx.hs[h] = n2
  <2>1. /\ n2.use = st.hs[h].use /\ n2.dir = st.hs[h].dir
        /\ n2.dead = st.hs[h].dead /\ n2.got = st.hs[h].got /\ n2.wrote = st.hs[h].wrote
    BY <1>2, <1>4, <1>5
  <2>2. Fine(nx)
    BY <1>6, <1>7, <2>1, HandleFine
  <2> QED
    BY <1>6, <1>7, <2>2, WithHandleIs DEF Fine
<1> QED
  BY <1>2, <1>4, <1>8, <1>9

\* A slot outside any stream changes, or the ring loses an event.
LEMMA OutsideFine ==
    ASSUME NEW st, Fine(st), NEW i \in Slots, NEW s2, SlotOK(s2),
           s2 = st.slot[i] \/ (s2.state \notin Active /\ (s2.state = "free" \/ s2.stream = NoStream)),
           NEW ev, Ring(ev),
           NEW nx, nx = [slot |-> [st.slot EXCEPT ![i] = s2], events |-> ev, hs |-> st.hs,
                         trouble |-> st.trouble]
    PROVE  Fine(nx)
<1>1. PICK sl, hh, tr : sl = st.slot /\ hh = st.hs /\ tr = st.trouble
  OBVIOUS
<1>2. /\ sl \in [Slots -> SlotRec] /\ \A j \in Slots : SlotOK(sl[j])
      /\ hh \in [Handles -> HandleRec] /\ \A h \in Handles : HandleOK(hh[h])
      /\ tr \in BOOLEAN /\ s2 \in SlotRec
  BY <1>1 DEF Fine, Shaped, SlotOK
<1>3. /\ nx.slot = [sl EXCEPT ![i] = s2] /\ nx.events = ev /\ nx.hs = hh /\ nx.trouble = tr
      /\ nx = [slot |-> nx.slot, events |-> nx.events, hs |-> nx.hs, trouble |-> nx.trouble]
  BY <1>1
<1>4. /\ nx.slot \in [Slots -> SlotRec] /\ nx.slot[i] = s2
      /\ \A j \in Slots \ {i} : nx.slot[j] = sl[j]
  BY <1>2, <1>3
<1>5. Shaped(nx)
  <2>1. \A j \in Slots : SlotOK(nx.slot[j])
    BY <1>2, <1>4
  <2> QED
    BY <1>2, <1>3, <1>4, <2>1 DEF Shaped, Ring
<1>6. SUFFICES ASSUME ~nx.trouble
               PROVE  Good(nx)
  BY <1>5 DEF Fine
<1>7. Good(st)
  BY <1>1, <1>3, <1>6 DEF Fine
<1>8. /\ nx.hs = st.hs /\ nx.slot[i] = s2 /\ \A j \in Slots \ {i} : nx.slot[j] = st.slot[j]
  BY <1>1, <1>3, <1>4
<1>9. /\ NoStream \notin Handles
      /\ s2 = st.slot[i] \/ (s2.state \notin Active /\ (s2.state = "free" \/ s2.stream = NoStream))
  BY Constants
<1>10. ASSUME NEW j \in Slots, nx.slot[j].state \in Active
       PROVE  Backed(nx, j) /\ Honest(nx.slot[j], nx.hs[nx.slot[j].stream])
  <2>1. nx.slot[j] = st.slot[j]
    BY <1>8, <1>9, <1>10
  <2>2. Backed(st, j) /\ Honest(st.slot[j], st.hs[st.slot[j].stream])
    BY <1>7, <1>10, <2>1 DEF Good
  <2>3. Backed(nx, j)
    BY <1>8, <1>9, <2>1, <2>2 DEF Backed
  <2> QED
    BY <1>8, <2>1, <2>2, <2>3
<1>11. ASSUME NEW g \in Handles, nx.hs[g].use = "negotiating"
       PROVE  Fresh(nx, g)
  BY <1>7, <1>8, <1>9, <1>11 DEF Good, Fresh, Unnamed
<1>12. \A g \in Handles : Echoed(nx.hs[g])
  BY <1>7, <1>8 DEF Good
<1> QED
  BY <1>10, <1>11, <1>12 DEF Good

LEMMA FreshHandle ==
    ASSUME NEW c \in Conns, NEW dir \in {"in", "out"}, NEW n2,
           n2 = [FreeHandle EXCEPT !.use = "negotiating", !.dir = dir, !.conn = c]
    PROVE  /\ HandleOK(n2) /\ n2.use = "negotiating" /\ ~n2.dead
           /\ n2.got = <<>> /\ n2.wrote = <<>>
<1>1. PICK n \in HandleRec : n = FreeHandle
  BY FreeHandleIs DEF HandleOK
<1>2. n.got = <<>> /\ n.wrote = <<>>
  BY <1>1 DEF FreeHandle
<1>3. ~n.dead
  BY <1>1 DEF FreeHandle
<1>4. n2 = [n EXCEPT !.use = "negotiating", !.dir = dir, !.conn = c]
  BY <1>1
<1>5. /\ n2 \in HandleRec /\ n2.use = "negotiating" /\ n2.got = n.got /\ n2.wrote = n.wrote
      /\ n2.dir = dir
  BY <1>4, ZenonT(30) DEF HandleRec, Dirs
<1>6. n2.dead = n.dead
  BY <1>4 DEF HandleRec
<1>7. HandleOK(n2)
  BY <1>5 DEF HandleOK
<1> QED
  BY <1>2, <1>3, <1>5, <1>6, <1>7

\* host_stream_alloc: the handle was free; a slot that still names it is trouble.
LEMMA AllocFine ==
    ASSUME NEW st, Fine(st), st.hs = hs, FreeHandles # {},
           NEW c \in Conns, NEW dir \in {"in", "out"}
    PROVE  Fine(Alloc(st, c, dir))
<1>1. PICK h : h = First(FreeHandles)
  OBVIOUS
<1>2. h \in Handles /\ st.hs[h].use = "free"
  <2>1. FreeHandles \subseteq Nat
    BY DEF FreeHandles, Handles
  <2>2. h \in FreeHandles
    BY <1>1, <2>1, FirstIs
  <2> QED
    BY <2>2 DEF FreeHandles
<1>3. PICK n2 : n2 = [FreeHandle EXCEPT !.use = "negotiating", !.dir = dir, !.conn = c]
  OBVIOUS
<1>4. /\ HandleOK(n2) /\ n2.use = "negotiating" /\ ~n2.dead
      /\ n2.got = <<>> /\ n2.wrote = <<>>
  BY <1>3, FreshHandle
<1>5. PICK tr : tr = (st.trouble \/ SlotsOf(st, h) # {})
  OBVIOUS
<1>6. PICK md : md = WithHandle(st, h, n2)
  OBVIOUS
<1>7. /\ Shaped(md) /\ md.slot = st.slot /\ md.trouble = st.trouble /\ md.events = st.events
      /\ md.hs[h] = n2 /\ \A g \in Handles \ {h} : md.hs[g] = st.hs[g]
  BY <1>2, <1>4, <1>6, WithHandleIs DEF Fine
<1>8. PICK nx : nx = [md EXCEPT !.trouble = tr]
  OBVIOUS
<1>9. Alloc(st, c, dir) = nx
  <2>1. st = [slot |-> st.slot, events |-> st.events, hs |-> st.hs, trouble |-> st.trouble]
    BY DEF Fine, Shaped
  <2>2. PICK x : x = [st EXCEPT !.hs[h] = n2]
    OBVIOUS
  <2>3. x = md
    BY <1>6, <2>1, <2>2 DEF WithHandle
  <2>4. Alloc(st, c, dir) = [x EXCEPT !.trouble = tr]
    <3>1. Alloc(st, c, dir) = [st EXCEPT !.hs[h] = n2, !.trouble = tr]
      BY <1>1, <1>3, <1>5, Zenon DEF Alloc
    <3> QED
      BY <2>2, <3>1
  <2> QED
    BY <1>8, <2>3, <2>4
<1>10. tr \in BOOLEAN
  BY <1>5
<1>11. /\ nx.slot = st.slot /\ nx.events = st.events /\ nx.hs = md.hs
       /\ nx = [slot |-> nx.slot, events |-> nx.events, hs |-> nx.hs, trouble |-> nx.trouble]
  BY <1>7, <1>8 DEF Shaped
<1>12. nx.trouble = tr
  BY <1>7, <1>8 DEF Shaped
<1>13. Shaped(nx)
  BY <1>7, <1>10, <1>11, <1>12 DEF Shaped
<1>14. SUFFICES ASSUME ~nx.trouble
                PROVE  Good(nx)
  BY <1>9, <1>13 DEF Fine
<1>15. ~st.trouble /\ SlotsOf(st, h) = {}
  BY <1>5, <1>12, <1>14
<1>16. Good(st) /\ Unnamed(st, h)
  BY <1>15 DEF Fine, SlotsOf, Unnamed
<1>17. ASSUME NEW j \in Slots, nx.slot[j].state \in Active
       PROVE  Backed(nx, j) /\ Honest(nx.slot[j], nx.hs[nx.slot[j].stream])
  BY <1>2, <1>7, <1>11, <1>16, <1>17 DEF Good, Backed
<1>18. ASSUME NEW g \in Handles, nx.hs[g].use = "negotiating"
       PROVE  Fresh(nx, g)
  BY <1>4, <1>7, <1>11, <1>16, <1>18 DEF Good, Fresh, Unnamed
<1>19. ASSUME NEW g \in Handles
       PROVE  Echoed(nx.hs[g])
  BY <1>4, <1>7, <1>11, <1>16 DEF Good, Echoed
<1> QED
  BY <1>17, <1>18, <1>19 DEF Good

-----------------------------------------------------------------------------
(***************************************************************************)
(* The actions                                                             *)
(***************************************************************************)

LEMMA NowIs ==
    ASSUME IInv
    PROVE  /\ Fine(Now) /\ Shaped(Now) /\ opened \in Nat
           /\ Now.slot = slot /\ Now.events = events /\ Now.hs = hs /\ Now.trouble = trouble
           /\ slot \in [Slots -> SlotRec] /\ \A i \in Slots : SlotOK(slot[i])
           /\ hs \in [Handles -> HandleRec] /\ \A h \in Handles : HandleOK(hs[h])
           /\ Ring(events) /\ trouble \in BOOLEAN
<1>1. Fine(Now) /\ Shaped(Now) /\ opened \in Nat
  BY DEF IInv, Fine
<1>2. Now.slot = slot /\ Now.events = events /\ Now.hs = hs /\ Now.trouble = trouble
  BY DEF Now
<1> QED
  BY <1>1, <1>2, ShapedIs

\* A step of the transport changes one stream.
LEMMA HandleStep ==
    ASSUME IInv, NEW h \in Handles, NEW n2, HandleOK(n2),
           n2.use = hs[h].use, n2.dir = hs[h].dir,
           \/ n2.use = "open" /\ n2.dead
           \/ n2.dead = hs[h].dead /\ n2.got = hs[h].got /\ n2.wrote = hs[h].wrote,
           hs' = [hs EXCEPT ![h] = n2], UNCHANGED <<slot, events, opened, trouble>>
    PROVE  IInv'
<1>1. PICK nx : nx = WithHandle(Now, h, n2)
  OBVIOUS
<1>2. Fine(nx)
  <2>1. PICK st : st = Now
    OBVIOUS
  <2>2. Fine(st) /\ st.hs = hs
    BY <2>1, NowIs
  <2>3. nx = WithHandle(st, h, n2)
    BY <1>1, <2>1
  <2> QED
    BY <2>2, <2>3, HandleFine
<1>3. Now' = nx
  BY <1>1 DEF Now, WithHandle
<1> QED
  BY <1>2, <1>3, NowIs DEF IInv

LEMMA PeerSendsInv ==
    ASSUME IInv, NEW h \in Handles, NEW b \in Bytes, PeerSends(h, b)
    PROVE  IInv'
<1>1. PICK n \in HandleRec : n = hs[h] /\ HandleOK(n)
  BY NowIs
<1>2. b \in Nat
  <2>1. PICK p \in Payloads : b \in Range(p)
    BY DEF Bytes
  <2>2. p \in Seq(Nat)
    BY <2>1, Constants
  <2> QED
    BY <2>1, <2>2 DEF Range
<1>3. PICK in2 \in Seq(Nat) : in2 = Append(n.in, b)
  BY <1>1, <1>2, AppendProperties DEF HandleRec
<1>4. PICK P \in SUBSET PendKinds : P = n.pend \cup {"readable"}
  BY <1>1 DEF HandleRec, PendKinds
<1>5. PICK m \in Nat : m = n.sentByPeer + 1
  BY <1>1 DEF HandleRec
<1>6. PICK n2 : n2 = [n EXCEPT !.in = in2, !.sentByPeer = m, !.pend = P]
  OBVIOUS
<1>7. /\ n2 \in HandleRec /\ n2.use = n.use /\ n2.dir = n.dir /\ n2.got = n.got
      /\ n2.wrote = n.wrote
  BY <1>6 DEF HandleRec, PendKinds
<1>8. n2.dead = n.dead
  BY <1>6 DEF HandleRec
<1>9. HandleOK(n2)
  BY <1>1, <1>7 DEF HandleOK
<1>10. hs' = [hs EXCEPT ![h] = n2] /\ UNCHANGED <<slot, events, opened, trouble>>
  BY <1>1, <1>3, <1>4, <1>5, <1>6 DEF PeerSends, PeerActs
<1> QED
  BY <1>1, <1>7, <1>8, <1>9, <1>10, HandleStep

LEMMA PeerFinishesInv ==
    ASSUME IInv, NEW h \in Handles, PeerFinishes(h)
    PROVE  IInv'
<1>1. PICK n \in HandleRec : n = hs[h] /\ HandleOK(n)
  BY NowIs
<1>2. PICK P \in SUBSET PendKinds : P = n.pend \cup {"readable"}
  BY <1>1 DEF HandleRec, PendKinds
<1>3. PICK b \in BOOLEAN : b = TRUE
  BY Zenon
<1>4. PICK n2 : n2 = [n EXCEPT !.fin = b, !.pend = P]
  OBVIOUS
<1>5. /\ n2 \in HandleRec /\ n2.use = n.use /\ n2.dir = n.dir /\ n2.got = n.got
      /\ n2.wrote = n.wrote
  BY <1>4 DEF HandleRec, PendKinds
<1>6. n2.dead = n.dead
  BY <1>4 DEF HandleRec
<1>7. HandleOK(n2)
  BY <1>1, <1>5 DEF HandleOK
<1>8. hs' = [hs EXCEPT ![h] = n2] /\ UNCHANGED <<slot, events, opened, trouble>>
  BY <1>1, <1>2, <1>3, <1>4, Zenon DEF PeerFinishes, PeerActs
<1> QED
  BY <1>1, <1>5, <1>6, <1>7, <1>8, HandleStep

LEMMA WritableAgainInv ==
    ASSUME IInv, NEW h \in Handles, WritableAgain(h)
    PROVE  IInv'
<1>1. PICK n \in HandleRec : n = hs[h] /\ HandleOK(n)
  BY NowIs
<1>2. PICK P \in SUBSET PendKinds : P = n.pend \cup {"writable"}
  BY <1>1 DEF HandleRec, PendKinds
<1>3. PICK n2 : n2 = [n EXCEPT !.pend = P]
  OBVIOUS
<1>4. /\ n2 \in HandleRec /\ n2.use = n.use /\ n2.dir = n.dir /\ n2.got = n.got
      /\ n2.wrote = n.wrote
  BY <1>3 DEF HandleRec, PendKinds
<1>5. n2.dead = n.dead
  BY <1>3 DEF HandleRec
<1>6. HandleOK(n2)
  BY <1>1, <1>4 DEF HandleOK
<1>7. hs' = [hs EXCEPT ![h] = n2] /\ UNCHANGED <<slot, events, opened, trouble>>
  BY <1>1, <1>2, <1>3 DEF WritableAgain, PeerActs
<1> QED
  BY <1>1, <1>4, <1>5, <1>6, <1>7, HandleStep

\* A stream that ends, with what is still to be told of it.
EndedTelling(n, P) == [Ended(n) EXCEPT !.pend = P]

LEMMA EndedWith ==
    ASSUME NEW n, HandleOK(n), NEW P \in SUBSET PendKinds, NEW n2, n2 = EndedTelling(n, P)
    PROVE  HandleOK(n2) /\ n2.use = n.use /\ n2.dir = n.dir /\ n2.dead
<1>1. PICK m \in HandleRec : m = Ended(n) /\ m.use = n.use /\ m.dir = n.dir
  BY EndedIs DEF HandleOK
<1>2. m.dead
  BY <1>1, EndedIs
<1>3. n2 \in HandleRec /\ n2.use = m.use /\ n2.dir = m.dir
  BY <1>1 DEF HandleRec, PendKinds, EndedTelling
<1>4. n2.dead = m.dead
  BY <1>1 DEF HandleRec, EndedTelling
<1>5. HandleOK(n2)
  BY <1>1, <1>3 DEF HandleOK
<1> QED
  BY <1>1, <1>2, <1>3, <1>4, <1>5

LEMMA PeerResetsInv ==
    ASSUME IInv, NEW h \in Handles, PeerResets(h)
    PROVE  IInv'
<1>1. PICK n : n = hs[h] /\ HandleOK(n) /\ n.use = "open"
  BY NowIs DEF PeerResets, PeerActs
<1>2. PICK P \in SUBSET PendKinds : P = Ended(n).pend \cup {"reset"}
  BY <1>1, EndedIs DEF HandleOK, HandleRec, PendKinds
<1>3. PICK n2 : n2 = EndedTelling(n, P)
  OBVIOUS
<1>4. HandleOK(n2) /\ n2.use = n.use /\ n2.dir = n.dir /\ n2.dead
  BY <1>1, <1>3, EndedWith
<1>5. hs' = [hs EXCEPT ![h] = n2] /\ UNCHANGED <<slot, events, opened, trouble>>
  BY <1>1, <1>2, <1>3 DEF PeerResets, PeerActs, EndedTelling
<1> QED
  BY <1>1, <1>4, <1>5, HandleStep

LEMMA StreamEndsInv ==
    ASSUME IInv, NEW h \in Handles, StreamEnds(h)
    PROVE  IInv'
<1>1. PICK n : n = hs[h] /\ HandleOK(n) /\ n.use = "open"
  BY NowIs DEF StreamEnds
<1>2. PICK P \in SUBSET PendKinds : P = n.pend \cup {"closed"}
  BY <1>1 DEF HandleOK, HandleRec, PendKinds
<1>3. PICK n2 : n2 = EndedTelling(n, P)
  OBVIOUS
<1>4. HandleOK(n2) /\ n2.use = n.use /\ n2.dir = n.dir /\ n2.dead
  BY <1>1, <1>3, EndedWith
<1>5. hs' = [hs EXCEPT ![h] = n2] /\ UNCHANGED <<slot, events, opened, trouble>>
  BY <1>1, <1>2, <1>3 DEF StreamEnds, EndedTelling
<1> QED
  BY <1>1, <1>4, <1>5, HandleStep

LEMMA PeerOpensInv ==
    ASSUME IInv, NEW c \in Conns, PeerOpens(c)
    PROVE  IInv'
<1>1. PICK st : st = Now
  OBVIOUS
<1>2. Fine(st) /\ st.hs = hs /\ FreeHandles # {}
  BY <1>1, NowIs DEF PeerOpens
<1>3. PICK dir \in {"in", "out"} : dir = "in"
  OBVIOUS
<1>4. PICK x : x = Alloc(st, c, dir)
  OBVIOUS
<1>5. Fine(x)
  BY <1>2, <1>4, AllocFine
<1>6. Become(x)
  BY <1>1, <1>3, <1>4 DEF PeerOpens
<1>7. opened' \in Nat
  BY NowIs DEF PeerOpens
<1> QED
  BY <1>5, <1>6, <1>7, BecomeFine DEF IInv

\* libp2p_ping_initiate
LEMMA InitiateInv ==
    ASSUME IInv, NEW c \in Conns, NEW p \in Payloads, Initiate(c, p)
    PROVE  IInv'
<1>1. PICK i : i = First(SlotsIn(Now, "free"))
  OBVIOUS
<1>2. i \in Slots
  <2>1. SlotsIn(Now, "free") \subseteq Nat /\ SlotsIn(Now, "free") \subseteq Slots
    BY DEF SlotsIn, Slots
  <2>2. SlotsIn(Now, "free") # {}
    BY DEF Initiate
  <2> QED
    BY <1>1, <2>1, <2>2, FirstIs
<1>3. PICK s \in SlotRec : /\ s = Prepared(FreeSlot, p) /\ s.rx = <<>> /\ s.txPos = 0 /\ s.tx = p
                           /\ Len(s.tx) = PayloadBytes /\ s.stream = NoStream
  BY PreparedIs
<1>4. PICK s2 : s2 = [s EXCEPT !.state = "opening", !.dir = "out", !.conn = c]
  OBVIOUS
<1>5. /\ s2 \in SlotRec /\ s2.state = "opening" /\ s2.dir = "out" /\ s2.rx = s.rx
      /\ s2.txPos = s.txPos /\ s2.tx = s.tx /\ s2.stream = s.stream
  BY <1>4 DEF SlotRec, Dirs
<1>6. SlotOK(s2) /\ s2.state \notin Active /\ s2.stream = NoStream
  <2>1. 0 <= PayloadBytes /\ Len(<<>>) = 0
    BY Constants, EmptySeq
  <2> QED
    BY <1>3, <1>5, <2>1 DEF SlotOK, Initiating, Responding, Active
<1>7. PICK st : st = Now
  OBVIOUS
<1>8. /\ Fine(st) /\ Shaped(st) /\ st.hs = hs /\ Ring(st.events)
  BY <1>7, NowIs
<1>9. PICK nx : nx = [slot |-> [st.slot EXCEPT ![i] = s2], events |-> st.events, hs |-> st.hs,
                      trouble |-> st.trouble]
  OBVIOUS
<1>10. nx = [st EXCEPT !.slot[i] = s2]
  BY <1>8, <1>9 DEF Shaped
<1>11. Fine(nx)
  <2>1. PICK ev : ev = st.events /\ Ring(ev)
    BY <1>8
  <2>2. nx = [slot |-> [st.slot EXCEPT ![i] = s2], events |-> ev, hs |-> st.hs,
              trouble |-> st.trouble]
    BY <1>9, <2>1
  <2> QED
    BY <1>2, <1>6, <1>8, <2>1, <2>2, OutsideFine
<1>12. nx.hs = hs /\ FreeHandles # {}
  BY <1>8, <1>9 DEF Initiate
<1>13. PICK dir \in {"in", "out"} : dir = "out"
  OBVIOUS
<1>14. PICK x : x = Alloc(nx, c, dir)
  OBVIOUS
<1>15. Fine(x)
  BY <1>11, <1>12, <1>14, AllocFine
<1>16. Become(x)
  BY <1>1, <1>3, <1>4, <1>7, <1>10, <1>13, <1>14, Zenon DEF Initiate
<1>17. opened' \in Nat
  BY NowIs DEF Initiate
<1> QED
  BY <1>15, <1>16, <1>17, BecomeFine DEF IInv

\* libp2p_ping_send: the pings before are answered, and the new one has not begun.
LEMMA SendInv ==
    ASSUME IInv, NEW h \in Handles, NEW p \in Payloads, Send(h, p)
    PROVE  IInv'
<1>1. PICK i : i = First(SlotsOf(Now, h))
  OBVIOUS
<1>2. i \in Slots /\ slot[i].stream = h
  <2>1. SlotsOf(Now, h) \subseteq Nat
    BY DEF SlotsOf, Slots
  <2>2. i \in SlotsOf(Now, h)
    BY <1>1, <2>1, FirstIs DEF Send
  <2> QED
    BY <2>2, NowIs DEF SlotsOf
<1>3. PICK s : s = slot[i] /\ s.dir = "out" /\ s.state = "initiator_idle" /\ SlotOK(s)
  BY <1>1, <1>2, NowIs DEF Send
<1>4. /\ s \in SlotRec /\ s.rx = <<>> /\ s.txPos = 0 /\ s.stream = h
  BY <1>2, <1>3 DEF SlotOK
<1>5. PICK e \in Seq(Nat) : e = <<>> /\ Len(e) = 0
  BY EmptySeq
<1>6. p \in Seq(Nat) /\ Len(p) = PayloadBytes /\ 0 <= PayloadBytes
  BY Constants
<1>7. PICK s2 : s2 = [s EXCEPT !.tx = p, !.txPos = 0, !.rx = e, !.state = "initiator_writing"]
  OBVIOUS
<1>8. /\ s2 \in SlotRec /\ s2.state = "initiator_writing" /\ s2.dir = s.dir /\ s2.tx = p
      /\ s2.txPos = 0 /\ s2.rx = e /\ s2.stream = s.stream
  BY <1>4, <1>5, <1>6, <1>7 DEF SlotRec, Active
<1>9. SlotOK(s2)
  BY <1>3, <1>5, <1>6, <1>8 DEF SlotOK, Initiating, Responding
<1>10. PICK st : st = Now
  OBVIOUS
<1>11. /\ Fine(st) /\ Shaped(st) /\ st.slot = slot /\ st.events = events /\ st.hs = hs
       /\ st.trouble = trouble /\ Ring(events) /\ trouble \in BOOLEAN /\ HandleOK(hs[h])
       /\ hs \in [Handles -> HandleRec]
  BY <1>10, NowIs
<1>12. PICK ev, tr, n : ev = events /\ tr = trouble /\ n = hs[h]
  OBVIOUS
<1>13. PICK nx : nx = Put(st, ev, tr, i, s2, h, n)
  OBVIOUS
<1>14. Changed(st, nx, i, h) /\ nx.slot[i] = s2 /\ nx.hs[h] = n /\ nx.trouble = tr
  <2>1. /\ Shaped(st) /\ Ring(ev) /\ tr \in BOOLEAN /\ (st.trouble => tr) /\ HandleOK(n)
        /\ n.use = st.hs[h].use /\ n.dir = st.hs[h].dir
    BY <1>11, <1>12
  <2> QED
    BY <1>2, <1>9, <1>13, <2>1, PutIs
<1>15. Now' = nx
  <2>1. slot' = [slot EXCEPT ![i] = s2]
    BY <1>1, <1>3, <1>5, <1>7 DEF Send, Prepared
  <2>2. UNCHANGED <<events, hs, trouble>>
    BY DEF Send
  <2>3. [hs EXCEPT ![h] = n] = hs
    BY <1>11, <1>12
  <2> QED
    BY <1>11, <1>12, <1>13, <2>1, <2>2, <2>3 DEF Now, Put
<1>16. Ready(st, i, h)
  BY <1>2, <1>3, <1>11, InUse DEF Active
<1>17. Sound(nx, i, h)
  <2>1. SUFFICES ASSUME ~tr, ~n.dead
                 PROVE  Accounts(s2, n) /\ Echoed(n)
    BY <1>14 DEF Sound, Honest, Echoed
  <2>2. Accounts(s, n) /\ Echoed(n)
    BY <1>3, <1>11, <1>12, <1>16, <2>1 DEF Ready, Sound, Honest
  <2>3. PICK X \in Seq(Nat) : n.wrote = X \o SubSeq(s.tx, 1, s.txPos) /\ n.got = X \o s.rx
    BY <1>3, <2>2 DEF Accounts, Initiating
  <2>4. SubSeq(s.tx, 1, 0) = e /\ SubSeq(s2.tx, 1, 0) = e
    BY <1>5, SubSeqEmpty
  <2>5. n.wrote = X \o SubSeq(s2.tx, 1, s2.txPos) /\ n.got = X \o s2.rx
    BY <1>4, <1>5, <1>8, <2>3, <2>4
  <2>6. s2.state # "responder_reading" /\ s2.state # "responder_writing"
    BY <1>8
  <2> QED
    BY <2>2, <2>5, <2>6 DEF Accounts
<1>18. PICK o : o = Ok(nx)
  OBVIOUS
<1>19. o.st = nx /\ o.ok
  BY <1>18 DEF Ok
<1>20. o.ok \in BOOLEAN
  BY <1>18 DEF Ok
<1>21. Leads(st, o, i, h)
  BY <1>3, <1>4, <1>8, <1>11, <1>14, <1>17, <1>19, <1>20 DEF Leads, Active
<1>22. Fine(o.st)
  BY <1>2, <1>3, <1>11, <1>21, LeadsFine
<1>23. opened' \in Nat
  BY NowIs DEF Send
<1> QED
  BY <1>15, <1>19, <1>22, <1>23 DEF IInv

\* libp2p_ping_next_event
LEMMA NextEventInv ==
    ASSUME IInv, NextEvent
    PROVE  IInv'
<1>1. PICK st : st = Now
  OBVIOUS
<1>2. /\ Fine(st) /\ st.slot = slot /\ st.events = events /\ st.hs = hs /\ st.trouble = trouble
      /\ Ring(events) /\ slot \in [Slots -> SlotRec] /\ \A i \in Slots : SlotOK(slot[i])
  BY <1>1, NowIs
<1>3. PICK e \in EventRec : e = Head(events)
  BY <1>2, HeadTailProperties DEF NextEvent, Ring
<1>4. PICK i \in Slots : i = e.slot
  BY <1>3 DEF EventRec
<1>5. PICK ev : ev = Tail(events) /\ Ring(ev)
  <2>1. events \in Seq(EventRec) /\ events # <<>> /\ Len(events) <= EventCapacity
    BY <1>2 DEF NextEvent, Ring
  <2>2. Tail(events) \in Seq(EventRec) /\ Len(Tail(events)) = Len(events) - 1
    BY <2>1, HeadTailProperties
  <2>3. Len(events) \in Nat /\ EventCapacity \in Nat
    BY <2>1, Constants
  <2>4. Len(Tail(events)) <= EventCapacity
    BY <2>1, <2>2, <2>3
  <2> QED
    BY <2>2, <2>4 DEF Ring
<1>6. PICK s2 : s2 = IF e.type \in {"closed", "error"} THEN FreeSlot ELSE slot[i]
  OBVIOUS
<1>7. /\ SlotOK(s2)
      /\ s2 = slot[i] \/ (s2.state \notin Active /\ s2.state = "free")
  BY <1>2, <1>6, FreeSlotIs DEF Active
<1>8. PICK nx : nx = [slot |-> [slot EXCEPT ![i] = s2], events |-> ev, hs |-> hs,
                      trouble |-> trouble]
  OBVIOUS
<1>9. Fine(nx)
  <2>1. nx = [slot |-> [st.slot EXCEPT ![i] = s2], events |-> ev, hs |-> st.hs,
              trouble |-> st.trouble]
    BY <1>2, <1>8
  <2>2. s2 = st.slot[i] \/ (s2.state \notin Active /\ (s2.state = "free" \/ s2.stream = NoStream))
    BY <1>2, <1>7
  <2> QED
    BY <1>2, <1>5, <1>7, <2>1, <2>2, OutsideFine
<1>10. Now' = nx
  <2>1. slot' = [slot EXCEPT ![i] = s2]
    <3>1. CASE e.type \in {"closed", "error"}
      BY <1>3, <1>4, <1>6, <3>1 DEF NextEvent
    <3>2. CASE e.type \notin {"closed", "error"}
      <4>1. slot' = slot
        BY <1>3, <3>2 DEF NextEvent
      <4>2. [slot EXCEPT ![i] = s2] = slot
        BY <1>2, <1>6, <3>2
      <4> QED
        BY <4>1, <4>2
    <3> QED
      BY <3>1, <3>2
  <2> QED
    BY <1>5, <1>8, <2>1 DEF Now, NextEvent
<1>11. opened' \in Nat
  BY NowIs DEF NextEvent
<1> QED
  BY <1>9, <1>10, <1>11 DEF IInv

\* host_stream_complete_negotiation opens the stream.
LEMMA OpenOffers ==
    ASSUME IInv, NEW h \in Handles, hs[h].use = "negotiating",
           NEW st, st = [Now EXCEPT !.hs[h].use = "open"]
    PROVE  Offered(st, h)
<1>1. PICK nw : nw = Now
  OBVIOUS
<1>2. /\ Fine(nw) /\ Shaped(nw) /\ nw.hs = hs /\ hs \in [Handles -> HandleRec] /\ HandleOK(hs[h])
  BY <1>1, NowIs
<1>3. PICK n \in HandleRec : n = hs[h]
  BY <1>2
<1>4. PICK n2 : n2 = [n EXCEPT !.use = "open"]
  OBVIOUS
<1>5. /\ n2 \in HandleRec /\ n2.use = "open" /\ n2.dir = n.dir /\ n2.got = n.got
      /\ n2.wrote = n.wrote
  BY <1>4 DEF HandleRec
<1>6. n2.dead = n.dead
  BY <1>4 DEF HandleRec
<1>7. HandleOK(n2)
  BY <1>2, <1>3, <1>5 DEF HandleOK
<1>8. PICK nx : nx = WithHandle(nw, h, n2)
  OBVIOUS
<1>9. st = nx
  BY <1>1, <1>2, <1>3, <1>4, <1>8 DEF Now, WithHandle
<1>10. /\ Shaped(nx) /\ nx.slot = nw.slot /\ nx.trouble = nw.trouble
       /\ nx.hs[h] = n2 /\ \A g \in Handles \ {h} : nx.hs[g] = nw.hs[g]
  BY <1>2, <1>7, <1>8, WithHandleIs, SMTT(20)
<1>11. ASSUME ~nx.trouble
       PROVE  Good(nx) /\ Unnamed(nx, h) /\ ~n2.dead /\ n2.got = <<>> /\ n2.wrote = <<>>
  <2>1. Good(nw)
    BY <1>2, <1>10, <1>11 DEF Fine
  <2>2. Fresh(nw, h)
    BY <1>2, <2>1 DEF Good
  <2>3. Unnamed(nx, h) /\ Unnamed(nw, h) /\ ~n2.dead /\ n2.got = <<>> /\ n2.wrote = <<>>
    BY <1>2, <1>3, <1>5, <1>6, <1>10, <2>2 DEF Fresh, Unnamed
  <2>4. Echoed(n2)
    <3>1. PICK e \in Seq(Nat) : e = <<>>
      BY EmptySeq
    <3>2. IsPrefix(e, e \o e) /\ e \o e = e
      BY <3>1, AllButOf, ConcatEmptySeq
    <3> QED
      BY <2>3, <3>1, <3>2 DEF Echoed
  <2>5. ASSUME NEW j \in Slots, nx.slot[j].state \in Active
        PROVE  Backed(nx, j) /\ Honest(nx.slot[j], nx.hs[nx.slot[j].stream])
    <3>1. nx.slot[j].stream # h
      BY <2>3, <2>5 DEF Unnamed, Active
    <3> QED
      BY <1>10, <2>1, <2>5, <3>1 DEF Good, Backed
  <2>6. ASSUME NEW g \in Handles, nx.hs[g].use = "negotiating"
        PROVE  Fresh(nx, g)
    BY <1>5, <1>10, <2>1, <2>6 DEF Good, Fresh, Unnamed
  <2>7. ASSUME NEW g \in Handles
        PROVE  Echoed(nx.hs[g])
    BY <1>10, <2>1, <2>4 DEF Good
  <2> QED
    BY <2>3, <2>5, <2>6, <2>7 DEF Good
<1> QED
  BY <1>5, <1>9, <1>10, <1>11 DEF Offered, Fine

LEMMA NegotiatedInv ==
    ASSUME IInv, NEW h \in Handles, Negotiated(h)
    PROVE  IInv'
<1>1. PICK st : st = [Now EXCEPT !.hs[h].use = "open"]
  OBVIOUS
<1>2. Offered(st, h)
  BY <1>1, OpenOffers DEF Negotiated
<1>3. PICK o \in OnOpen(st, h) :
        Become(IF o.ok THEN [o.st EXCEPT !.hs[h].pend = @ \cup {"readable", "writable"}]
               ELSE Release(o.st, h))
  BY <1>1 DEF Negotiated
<1>4. Opened(o, h)
  BY <1>2, OnOpenIs
<1>5. PICK y : y = o.st
  OBVIOUS
<1>6. Fine(y) /\ (~o.ok => y.trouble)
  BY <1>4, <1>5 DEF Opened
<1>7. CASE o.ok
  <2>1. PICK P \in SUBSET PendKinds : P = y.hs[h].pend \cup {"readable", "writable"}
    BY <1>6 DEF Fine, Shaped, HandleRec, PendKinds
  <2>2. PICK x : x = WithPend(y, h, P)
    OBVIOUS
  <2>3. Fine(x)
    BY <1>6, <2>2, PendFine
  <2>4. Become(x)
    BY <1>3, <1>5, <1>7, <2>1, <2>2 DEF WithPend
  <2> QED
    BY <2>3, <2>4, BecomeFine, NowIs DEF IInv, Negotiated
<1>8. CASE ~o.ok
  <2>1. PICK x : x = Release(y, h)
    OBVIOUS
  <2>2. Fine(x)
    BY <1>6, <1>8, <2>1, ReleaseFine
  <2>3. Become(x)
    BY <1>3, <1>5, <1>8, <2>1
  <2> QED
    BY <2>2, <2>3, BecomeFine, NowIs DEF IInv, Negotiated
<1> QED
  BY <1>7, <1>8

LEMMA NegotiationFailsInv ==
    ASSUME IInv, NEW h \in Handles, NegotiationFails(h)
    PROVE  IInv'
<1>1. PICK st : st = Now
  OBVIOUS
<1>2. Fine(st) /\ st.hs[h].use = "negotiating"
  BY <1>1, NowIs DEF NegotiationFails
<1>3. st.trouble \/ \A i \in Slots : st.slot[i].state \in Active => st.slot[i].stream # h
  BY <1>2 DEF Fine, Good, Fresh, Unnamed, Active
<1>4. PICK x : x = Release(st, h)
  OBVIOUS
<1>5. Fine(x)
  BY <1>2, <1>3, <1>4, ReleaseFine
<1>6. Become(x)
  BY <1>1, <1>4 DEF NegotiationFails
<1> QED
  BY <1>5, <1>6, BecomeFine, NowIs DEF IInv, NegotiationFails

\* host_protocol_event_one
LEMMA DeliverInv ==
    ASSUME IInv, NEW h \in Handles, Deliver(h)
    PROVE  IInv'
<1>1. PICK kind \in hs[h].pend :
        \E o \in OnEvent([Now EXCEPT !.hs[h].pend = @ \ {kind}], h, kind) :
          Become(IF o.ok /\ kind # "closed" THEN o.st ELSE Release(o.st, h))
  BY DEF Deliver
<1>2. PICK nw : nw = Now
  OBVIOUS
<1>3. Fine(nw) /\ nw.hs = hs /\ hs \in [Handles -> HandleRec]
  BY <1>2, NowIs
<1>4. PICK P \in SUBSET PendKinds : P = hs[h].pend \ {kind}
  BY <1>3 DEF HandleRec, PendKinds
<1>5. PICK st : st = WithPend(nw, h, P)
  OBVIOUS
<1>6. Fine(st)
  BY <1>3, <1>5, PendFine
<1>7. PICK o \in OnEvent(st, h, kind) :
        Become(IF o.ok /\ kind # "closed" THEN o.st ELSE Release(o.st, h))
  <2>1. st = [Now EXCEPT !.hs[h].pend = hs[h].pend \ {kind}]
    BY <1>2, <1>4, <1>5 DEF WithPend
  <2>2. Now.hs[h].pend = hs[h].pend
    BY NowIs
  <2>3. st = [Now EXCEPT !.hs[h].pend = @ \ {kind}]
    BY <2>1, <2>2
  <2> QED
    BY <1>1, <2>3
<1>8. Handled(o, h, kind)
  BY <1>6, OnEventIs
<1>9. PICK y : y = o.st
  OBVIOUS
<1>10. /\ Fine(y) /\ (~o.ok => y.trouble)
       /\ kind = "closed" =>
            (y.trouble \/ \A i \in Slots : y.slot[i].state \in Active => y.slot[i].stream # h)
  BY <1>8, <1>9 DEF Handled
<1>11. CASE o.ok /\ kind # "closed"
  <2>1. Become(y)
    BY <1>7, <1>9, <1>11
  <2> QED
    BY <1>10, <2>1, BecomeFine, NowIs DEF IInv, Deliver
<1>12. CASE ~(o.ok /\ kind # "closed")
  <2>1. PICK x : x = Release(y, h)
    OBVIOUS
  <2>2. Fine(x)
    BY <1>10, <1>12, <2>1, ReleaseFine
  <2>3. Become(x)
    BY <1>7, <1>9, <1>12, <2>1
  <2> QED
    BY <2>2, <2>3, BecomeFine, NowIs DEF IInv, Deliver
<1> QED
  BY <1>11, <1>12

-----------------------------------------------------------------------------
(***************************************************************************)
(* The invariant of the specification                                      *)
(***************************************************************************)

LEMMA InitInv ==
    ASSUME Init
    PROVE  IInv
<1>1. PICK st : st = Now
  OBVIOUS
<1>2. /\ st.slot = [i \in Slots |-> FreeSlot] /\ st.events = <<>>
      /\ st.hs = [h \in Handles |-> FreeHandle]
      /\ st = [slot |-> st.slot, events |-> st.events, hs |-> st.hs, trouble |-> st.trouble]
  BY <1>1 DEF Init, Now
<1>3. ~st.trouble /\ st.trouble \in BOOLEAN
  BY <1>1 DEF Init, Now
<1>4. FreeSlot \in SlotRec /\ SlotOK(FreeSlot) /\ FreeSlot.state = "free"
  BY FreeSlotIs DEF SlotOK
<1>5. FreeHandle \in HandleRec /\ HandleOK(FreeHandle)
  BY FreeHandleIs DEF HandleOK
<1>6. /\ \A i \in Slots : st.slot[i] = FreeSlot
      /\ \A h \in Handles : st.hs[h] = FreeHandle
      /\ st.slot \in [Slots -> SlotRec] /\ st.hs \in [Handles -> HandleRec]
  BY <1>2, <1>4, <1>5
<1>7. st.events \in Seq(EventRec) /\ Len(st.events) <= EventCapacity
  <2>1. Len(<<>>) = 0 /\ <<>> \in Seq(EventRec) /\ 0 <= EventCapacity
    BY EmptySeq, Constants
  <2> QED
    BY <1>2, <2>1
<1>8. Shaped(st)
  BY <1>2, <1>3, <1>4, <1>5, <1>6, <1>7 DEF Shaped
<1>9. Good(st)
  BY <1>4, <1>6, FreeHandleIs DEF Good, Active
<1> QED
  BY <1>1, <1>8, <1>9 DEF IInv, Fine, Init

LEMMA NextInv ==
    ASSUME IInv, [Next]_vars
    PROVE  IInv'
<1>1. ASSUME NEW c \in Conns, PeerOpens(c)
      PROVE  IInv'
  BY <1>1, PeerOpensInv
<1>2. ASSUME NEW c \in Conns, NEW p \in Payloads, Initiate(c, p)
      PROVE  IInv'
  BY <1>2, InitiateInv
<1>3. ASSUME NEW h \in Handles, NEW p \in Payloads, Send(h, p)
      PROVE  IInv'
  BY <1>3, SendInv
<1>4. ASSUME NEW h \in Handles, Negotiated(h)
      PROVE  IInv'
  BY <1>4, NegotiatedInv
<1>5. ASSUME NEW h \in Handles, NegotiationFails(h)
      PROVE  IInv'
  BY <1>5, NegotiationFailsInv
<1>6. ASSUME NEW h \in Handles, Deliver(h)
      PROVE  IInv'
  BY <1>6, DeliverInv
<1>7. ASSUME NEW h \in Handles, NEW b \in Bytes, PeerSends(h, b)
      PROVE  IInv'
  BY <1>7, PeerSendsInv
<1>8. ASSUME NEW h \in Handles, PeerFinishes(h)
      PROVE  IInv'
  BY <1>8, PeerFinishesInv
<1>9. ASSUME NEW h \in Handles, PeerResets(h)
      PROVE  IInv'
  BY <1>9, PeerResetsInv
<1>10. ASSUME NEW h \in Handles, StreamEnds(h)
       PROVE  IInv'
  BY <1>10, StreamEndsInv
<1>11. ASSUME NEW h \in Handles, WritableAgain(h)
       PROVE  IInv'
  BY <1>11, WritableAgainInv
<1>12. CASE NextEvent
  BY <1>12, NextEventInv
<1>13. CASE UNCHANGED vars
  <2>1. Now' = Now /\ opened' = opened
    BY <1>13 DEF vars, Now
  <2> QED
    BY <2>1 DEF IInv
<1> QED
  BY <1>1, <1>2, <1>3, <1>4, <1>5, <1>6, <1>7, <1>8, <1>9, <1>10, <1>11, <1>12, <1>13 DEF Next

LEMMA Invariance == Spec => []IInv
<1>1. IInv /\ [Next]_vars => IInv'
  BY NextInv
<1> QED
  BY <1>1, InitInv, PTL DEF Spec

-----------------------------------------------------------------------------
\* Slots, ring and stream handles keep their shape; ping_read_initiator, ping_read_responder
\* and ping_write_stream stay within a payload, ping_event_push within the ring.
THEOREM TypeCorrect == Spec => []TypeOK
<1>1. IInv => TypeOK
  BY NowIs DEF TypeOK, Ring, SlotOK
<1> QED
  BY <1>1, Invariance, PTL

\* A slot in use has an open stream of its direction to itself, so ping_find_stream finds the
\* slot of a stream, until an event is lost at the full ring, a callback fails or a handle is
\* reused under a slot that was not collected.
THEOREM StreamsPaired == Spec => []SlotsBacked
<1>1. ASSUME IInv
      PROVE  SlotsBacked
  <2>1. SUFFICES ASSUME ~trouble, NEW i \in Slots, slot[i].state \in Active
                 PROVE  /\ slot[i].stream \in Handles
                        /\ hs[slot[i].stream].use = "open"
                        /\ hs[slot[i].stream].dir = slot[i].dir
                        /\ SlotsOf(Now, slot[i].stream) = {i}
    BY DEF SlotsBacked
  <2>2. Backed(Now, i)
    BY <1>1, <2>1, NowIs DEF Fine, Good
  <2>3. PICK h : h = slot[i].stream
    OBVIOUS
  <2>4. /\ h \in Handles /\ hs[h].use = "open" /\ hs[h].dir = slot[i].dir
        /\ \A j \in Slots : slot[j].state # "free" /\ slot[j].stream = h => j = i
    BY <1>1, <2>2, <2>3, NowIs DEF Backed
  <2>5. SlotsOf(Now, h) = {i}
    BY <1>1, <2>1, <2>3, <2>4, NowIs, SMTT(20) DEF SlotsOf, Active
  <2> QED
    BY <2>3, <2>4, <2>5
<1> QED
  BY <1>1, Invariance, PTL

\* A slot in use accounts for all that its stream carried.
LEMMA InUseHonest ==
    ASSUME IInv, ~trouble, NEW i \in Slots, slot[i].state \in Active
    PROVE  /\ slot[i].stream \in Handles /\ hs[slot[i].stream].dir = slot[i].dir
           /\ hs[slot[i].stream].dead \/ Accounts(slot[i], hs[slot[i].stream])
BY NowIs DEF Fine, Good, Backed, Honest

\* What was written of a payload, by its length.
LEMMA WrittenLen ==
    ASSUME NEW s, SlotOK(s), s.state \in Initiating \cup {"responder_writing"}
    PROVE  /\ SubSeq(s.tx, 1, s.txPos) \in Seq(Nat)
           /\ Len(SubSeq(s.tx, 1, s.txPos)) = s.txPos
<1>1. /\ s.tx \in Seq(Nat) /\ s.txPos \in Nat /\ s.txPos <= Len(s.tx)
  BY DEF SlotOK, SlotRec
<1>2. PICK t \in Seq(Nat) : t = s.tx
  BY <1>1
<1>3. PICK a \in Nat : a = s.txPos
  BY <1>1
<1>4. a + 0 <= Len(t)
  BY <1>1, <1>2, <1>3
<1>5. SubSeq(t, 1, a) \in Seq(Nat) /\ Len(SubSeq(t, 1, a)) = a
  BY <1>4, Joined
<1> QED
  BY <1>2, <1>3, <1>5

\* ping_read_initiator reports a PONG only for the echo of the ping: apart from the ping in
\* progress, what an initiator wrote on its stream and what came back are equal, over any
\* number of pings, partial writes and partial reads.
THEOREM PongsAreEchoes == Spec => []PongHonest
<1>1. ASSUME IInv
      PROVE  PongHonest
  <2>1. SUFFICES ASSUME ~trouble, NEW i \in Slots, slot[i].state \in Initiating,
                        ~hs[slot[i].stream].dead
                 PROVE  AllBut(hs[slot[i].stream].wrote, slot[i].txPos)
                          = AllBut(hs[slot[i].stream].got, Len(slot[i].rx))
    BY Zenon DEF PongHonest, Initiating
  <2>2. PICK s : s = slot[i]
    OBVIOUS
  <2>3. PICK n : n = hs[s.stream]
    OBVIOUS
  <2>4. s.state \in Active /\ SlotOK(s)
    BY <1>1, <2>1, <2>2, NowIs DEF Active, Initiating
  <2>5. Accounts(s, n)
    BY <1>1, <2>1, <2>2, <2>3, <2>4, InUseHonest
  <2>6. PICK X \in Seq(Nat) : n.wrote = X \o SubSeq(s.tx, 1, s.txPos) /\ n.got = X \o s.rx
    BY <2>1, <2>2, <2>5 DEF Accounts
  <2>7. PICK Y \in Seq(Nat) : Y = SubSeq(s.tx, 1, s.txPos) /\ Len(Y) = s.txPos
    BY <2>1, <2>2, <2>4, WrittenLen
  <2>8. PICK Z \in Seq(Nat) : Z = s.rx
    BY <2>4 DEF SlotOK, SlotRec
  <2>9. AllBut(X \o Y, Len(Y)) = X /\ AllBut(X \o Z, Len(Z)) = X
    BY AllButOf
  <2>10. AllBut(n.wrote, s.txPos) = AllBut(n.got, Len(s.rx))
    BY <2>6, <2>7, <2>8, <2>9
  <2> QED
    BY <2>2, <2>3, <2>10
<1> QED
  BY <1>1, Invariance, PTL

\* ping_read_responder and ping_write_stream echo what they read, in order and in whole
\* payloads, whatever the reads return and the writes accept.
THEOREM EchoesAreFaithful == Spec => []EchoFaithful
<1>1. ASSUME IInv
      PROVE  EchoFaithful
  <2>1. SUFFICES ASSUME ~trouble, NEW h \in Handles,
                        hs[h].use = "open", hs[h].dir = "in", ~hs[h].dead
                 PROVE  /\ IsPrefix(hs[h].wrote, hs[h].got)
                        /\ \A i \in Slots : slot[i].stream = h =>
                             \/ /\ slot[i].state = "responder_reading"
                                /\ hs[h].got = hs[h].wrote \o slot[i].rx
                             \/ /\ slot[i].state = "responder_writing"
                                /\ hs[h].got = AllBut(hs[h].wrote, slot[i].txPos) \o slot[i].tx
                             \/ slot[i].state \in {"free", "evented"}
    BY Zenon DEF EchoFaithful
  <2>2. IsPrefix(hs[h].wrote, hs[h].got)
    <3>1. Echoed(hs[h])
      BY <1>1, <2>1, NowIs DEF Fine, Good
    <3> QED
      BY <2>1, <3>1 DEF Echoed
  <2>3. ASSUME NEW i \in Slots, slot[i].stream = h
        PROVE  \/ /\ slot[i].state = "responder_reading"
                  /\ hs[h].got = hs[h].wrote \o slot[i].rx
               \/ /\ slot[i].state = "responder_writing"
                  /\ hs[h].got = AllBut(hs[h].wrote, slot[i].txPos) \o slot[i].tx
               \/ slot[i].state \in {"free", "evented"}
    <3>1. PICK s : s = slot[i]
      OBVIOUS
    <3>2. PICK n : n = hs[h]
      OBVIOUS
    <3>3. SlotOK(s)
      BY <1>1, <3>1, NowIs
    <3>4. s.state \in {"free", "evented"} \cup Active
      <4>1. s.state # "opening"
        BY <2>3, <3>1, <3>3, Constants DEF SlotOK
      <4> QED
        BY <3>3, <4>1 DEF SlotOK, SlotRec
    <3>5. ASSUME s.state \in Active
          PROVE  Accounts(s, n) /\ s.state \in Responding
      <4>1. n.dir = s.dir /\ (n.dead \/ Accounts(s, n))
        BY <1>1, <2>1, <2>3, <3>1, <3>2, <3>5, InUseHonest
      <4>2. s.dir = "in" /\ Accounts(s, n)
        BY <2>1, <3>2, <4>1
      <4>3. s.state \notin Initiating
        BY <3>3, <4>2 DEF SlotOK
      <4> QED
        BY <3>5, <4>2, <4>3 DEF Active, Initiating, Responding
    <3>6. CASE s.state = "responder_reading"
      <4>1. n.got = n.wrote \o s.rx
        BY <3>5, <3>6 DEF Active, Accounts
      <4> QED
        BY <3>1, <3>2, <3>6, <4>1
    <3>7. CASE s.state = "responder_writing"
      <4>1. PICK X \in Seq(Nat) : n.wrote = X \o SubSeq(s.tx, 1, s.txPos) /\ n.got = X \o s.tx
        BY <3>5, <3>7 DEF Active, Accounts
      <4>2. PICK Y \in Seq(Nat) : Y = SubSeq(s.tx, 1, s.txPos) /\ Len(Y) = s.txPos
        BY <3>3, <3>7, WrittenLen
      <4>3. AllBut(X \o Y, Len(Y)) = X
        BY AllButOf
      <4>4. n.got = AllBut(n.wrote, s.txPos) \o s.tx
        BY <4>1, <4>2, <4>3
      <4> QED
        BY <3>1, <3>2, <3>7, <4>4
    <3> QED
      BY <3>1, <3>4, <3>5, <3>6, <3>7 DEF Responding
  <2> QED
    BY <2>2, <2>3
<1> QED
  BY <1>1, Invariance, PTL
=============================================================================
