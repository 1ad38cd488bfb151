-------------------------- MODULE GossipsubTxProofs --------------------------
(***************************************************************************)
(* Proofs about GossipsubTx, for every number of peers, slots, topics and  *)
(* messages and every frame length.                                        *)
(***************************************************************************)
EXTENDS GossipsubTx, FiniteSetTheorems, SequenceTheorems, WellFoundedInduction, TLAPS

-----------------------------------------------------------------------------
(***************************************************************************)
(* Least and greatest elements.                                            *)
(***************************************************************************)

\* A nonempty set of naturals has a least element (what FindFree returns).
LEMMA LeastNat ==
    ASSUME NEW T, T \subseteq Nat, T # {}
    PROVE  \E x \in T : \A y \in T : x <= y
<1>1. PICK x \in T : \A y \in T : ~(<<y, x>> \in OpToRel(<, Nat))
  BY WFMin, NatLessThanWellFounded
<1>2. \A y \in T : ~(y < x)
  BY <1>1 DEF OpToRel
<1> QED
  BY <1>2

\* A nonempty set of positions has a greatest element (tx_priority_tail).
LEMMA GreatestPosition ==
    ASSUME NEW n \in Nat, NEW T, T \subseteq 1 .. n, T # {}
    PROVE  \E x \in T : \A y \in T : y <= x
<1> DEFINE D == {n - x : x \in T}
<1>1. D \subseteq Nat /\ D # {}
  <2>1. \A x \in T : n - x \in Nat
    OBVIOUS
  <2>2. PICK t \in T : TRUE
    OBVIOUS
  <2>3. n - t \in D
    OBVIOUS
  <2> QED
    BY <2>1, <2>3
<1>2. PICK d \in D : \A e \in D : d <= e
  BY <1>1, LeastNat
<1>3. PICK x \in T : d = n - x
  OBVIOUS
<1>4. ASSUME NEW y \in T PROVE y <= x
  <2>1. n - y \in D
    OBVIOUS
  <2>2. n - x <= n - y
    BY <1>2, <1>3, <2>1
  <2>3. x \in Int /\ y \in Int
    OBVIOUS
  <2> HIDE DEF D
  <2> QED
    BY <2>2, <2>3
<1> QED
  BY <1>4

-----------------------------------------------------------------------------
(***************************************************************************)
(* Readiness.                                                              *)
(***************************************************************************)

\* gossipsub_tx_set_peer_ready keeps the counter equal to the number of ready
\* peers.
LEMMA SetReadyCounts ==
    ASSUME NEW p \in Peers, NEW want \in BOOLEAN, NEW can \in BOOLEAN,
           ready \in [Peers -> BOOLEAN], ReadyCountExact,
           SetReady(p, want, can)
    PROVE  /\ ready' = [ready EXCEPT ![p] = want /\ can]
           /\ ready' \in [Peers -> BOOLEAN]
           /\ readyCount' = Cardinality({r \in Peers : ready'[r]})
<1> DEFINE R == {r \in Peers : ready[r]}
           R1 == {r \in Peers : ready'[r]}
<1>1. /\ ready' = [ready EXCEPT ![p] = want /\ can]
      /\ ready' \in [Peers -> BOOLEAN]
  BY DEF SetReady
<1>2. IsFiniteSet(Peers)
  BY TxAssumption, FS_Interval DEF Peers
<1>3. IsFiniteSet(R)
  BY <1>2, FS_Subset
<1>4. readyCount = Cardinality(R) /\ Cardinality(R) \in Nat
  BY <1>3, FS_CardinalityType DEF ReadyCountExact
<1>5. CASE (want /\ can) /\ ~ready[p]
  <2>1. R1 = R \cup {p} /\ p \notin R
    BY <1>1, <1>5
  <2>2. readyCount' = readyCount + 1
    BY <1>5 DEF SetReady
  <2>3. Cardinality(R \cup {p}) = Cardinality(R) + 1
    BY <1>3, <2>1, FS_AddElement
  <2> QED
    BY <1>1, <1>4, <2>1, <2>2, <2>3
<1>6. CASE ~(want /\ can) /\ ready[p]
  <2>1. R1 = R \ {p} /\ p \in R
    BY <1>1, <1>6
  <2>2. Cardinality(R) # 0
    BY <1>3, <2>1, FS_EmptySet
  <2>3. readyCount' = readyCount - 1
    BY <1>4, <1>6, <2>2 DEF SetReady
  <2>4. Cardinality(R \ {p}) = Cardinality(R) - 1
    BY <1>3, <2>1, FS_RemoveElement
  <2> QED
    BY <1>1, <1>4, <2>1, <2>3, <2>4
<1>7. CASE (want /\ can) = ready[p]
  <2>1. R1 = R
    BY <1>1, <1>7
  <2>2. readyCount' = readyCount
    BY <1>7 DEF SetReady
  <2> QED
    BY <1>1, <1>4, <2>1, <2>2
<1> QED
  BY <1>5, <1>6, <1>7
-----------------------------------------------------------------------------
(***************************************************************************)
(* Queues.                                                                 *)
(***************************************************************************)

\* gossipsub_tx_remove unlinks one frame and keeps the others in order.
LEMMA WithoutProperties ==
    ASSUME NEW S, NEW q \in Seq(S), NEW i \in 1 .. Len(q)
    PROVE  /\ Without(q, i) \in Seq(S)
           /\ Len(Without(q, i)) = Len(q) - 1
           /\ \A j \in 1 .. Len(q) - 1 :
                Without(q, i)[j] = IF j < i THEN q[j] ELSE q[j + 1]
<1> DEFINE a == SubSeq(q, 1, i - 1)
           b == SubSeq(q, i + 1, Len(q))
<1>0. Len(q) \in Nat
  BY LenProperties
<1>1. a \in Seq(S) /\ Len(a) = i - 1 /\ (\A j \in 1 .. i - 1 : a[j] = q[j])
  BY <1>0, SubSeqProperties
<1>2. /\ b \in Seq(S) /\ Len(b) = Len(q) - i
      /\ \A j \in 1 .. Len(q) - i : b[j] = q[i + j]
  BY <1>0, SubSeqProperties
<1>3. /\ a \o b \in Seq(S)
      /\ Len(a \o b) = Len(a) + Len(b)
      /\ \A j \in 1 .. Len(a) + Len(b) :
           (a \o b)[j] = IF j <= Len(a) THEN a[j] ELSE b[j - Len(a)]
  BY <1>1, <1>2, ConcatProperties
<1> DEFINE w == a \o b
<1>4. w = Without(q, i)
  BY DEF Without
<1> HIDE DEF a, b
<1>5. Len(w) = Len(q) - 1
  BY <1>0, <1>1, <1>2, <1>3
<1>6. \A j \in 1 .. Len(q) - 1 : w[j] = IF j < i THEN q[j] ELSE q[j + 1]
  <2> TAKE j \in 1 .. Len(q) - 1
  <2>1. CASE j < i
    BY <1>0, <1>1, <1>2, <1>3, <2>1
  <2>2. CASE ~(j < i)
    <3>1. j - (i - 1) \in 1 .. Len(q) - i
      BY <1>0, <2>2
    <3>2. b[j - (i - 1)] = q[i + (j - (i - 1))]
      BY <1>2, <3>1
    <3>3. i + (j - (i - 1)) = j + 1
      BY <1>0
    <3> QED
      BY <1>0, <1>1, <1>2, <1>3, <2>2, <3>2, <3>3
  <2> QED
    BY <2>1, <2>2
<1>7. w \in Seq(S)
  BY <1>3
<1> HIDE DEF w
<1> QED
  BY <1>4, <1>5, <1>6, <1>7

\* tx_priority_tail is the last priority frame.
LEMMA PriorityTailProperties ==
    ASSUME NEW q \in Seq(Slots)
    PROVE  /\ PriorityTail(q) \in 0 .. Len(q)
           /\ PriorityTail(q) # 0 => item[q[PriorityTail(q)]].prio
           /\ \A j \in 1 .. Len(q) : item[q[j]].prio => j <= PriorityTail(q)
<1> DEFINE prio == {i \in 1 .. Len(q) : item[q[i]].prio}
<1>0. Len(q) \in Nat
  BY LenProperties
<1>1. CASE prio = {}
  BY <1>0, <1>1 DEF PriorityTail
<1>2. CASE prio # {}
  <2>1. \E x \in prio : \A y \in prio : y <= x
    BY <1>0, <1>2, GreatestPosition
  <2>2. /\ PriorityTail(q) \in prio
        /\ \A y \in prio : y <= PriorityTail(q)
    BY <1>2, <2>1 DEF PriorityTail
  <2> QED
    BY <1>0, <2>2
<1> QED
  BY <1>1, <1>2

\* Where gossipsub_tx_append_peer_item links a new frame: behind position
\* AppendPlace, everything else keeping its order.
AppendPlace(q, prio) == IF prio THEN PriorityTail(q) ELSE Len(q)

\* gossipsub_tx_append_peer_item adds one link and keeps the order of the others.
LEMMA AppendedProperties ==
    ASSUME NEW q \in Seq(Slots), NEW s \in Slots, NEW prio \in BOOLEAN
    PROVE  /\ Appended(q, s, prio) \in Seq(Slots)
           /\ Len(Appended(q, s, prio)) = Len(q) + 1
           /\ AppendPlace(q, prio) \in 0 .. Len(q)
           /\ \A j \in 1 .. Len(q) + 1 :
                Appended(q, s, prio)[j] =
                  IF j <= AppendPlace(q, prio) THEN q[j]
                  ELSE IF j = AppendPlace(q, prio) + 1 THEN s
                  ELSE q[j - 1]
<1>0. Len(q) \in Nat /\ \A j \in 1 .. Len(q) : q[j] \in Slots
  BY LenProperties, ElementOfSeq
<1>1. CASE ~prio
  BY <1>0, <1>1, AppendProperties DEF Appended, AppendPlace
<1>2. CASE prio
  <2> DEFINE k == PriorityTail(q)
             a == SubSeq(q, 1, k)
             b == SubSeq(q, k + 1, Len(q))
  <2>0. k \in 0 .. Len(q)
    BY PriorityTailProperties
  <2> HIDE DEF k
  <2>1. a \in Seq(Slots) /\ Len(a) = k /\ (\A j \in 1 .. k : a[j] = q[j])
    BY <1>0, <2>0, SubSeqProperties
  <2>2. /\ b \in Seq(Slots) /\ Len(b) = Len(q) - k
        /\ \A j \in 1 .. Len(q) - k : b[j] = q[k + j]
    BY <1>0, <2>0, SubSeqProperties
  <2> HIDE DEF a, b
  <2>3. /\ <<s>> \in Seq(Slots) /\ Len(<<s>>) = 1 /\ <<s>>[1] = s
    OBVIOUS
  <2>4. /\ a \o <<s>> \in Seq(Slots) /\ Len(a \o <<s>>) = k + 1
        /\ \A j \in 1 .. k + 1 : (a \o <<s>>)[j] = IF j <= k THEN q[j] ELSE s
    BY <2>0, <2>1, <2>3, ConcatProperties
  <2> DEFINE c == a \o <<s>>
  <2> HIDE DEF c
  <2>5. /\ c \o b \in Seq(Slots) /\ Len(c \o b) = Len(c) + Len(b)
        /\ \A j \in 1 .. Len(c) + Len(b) :
             (c \o b)[j] = IF j <= Len(c) THEN c[j] ELSE b[j - Len(c)]
    BY <2>2, <2>4, ConcatProperties DEF c
  <2>6. Appended(q, s, prio) = c \o b
    BY <1>2 DEF Appended, a, b, c, k
  <2>7. AppendPlace(q, prio) = k
    BY <1>2 DEF AppendPlace, k
  <2>8. Len(c) = k + 1 /\ \A j \in 1 .. k + 1 : c[j] = IF j <= k THEN q[j] ELSE s
    BY <2>4 DEF c
  <2>9. \A j \in 1 .. Len(q) + 1 :
           (c \o b)[j] = IF j <= k THEN q[j] ELSE IF j = k + 1 THEN s ELSE q[j - 1]
    <3> TAKE j \in 1 .. Len(q) + 1
    <3>1. CASE j <= k + 1
      BY <1>0, <2>0, <2>2, <2>5, <2>8, <3>1
    <3>2. CASE ~(j <= k + 1)
      <4>1. j - (k + 1) \in 1 .. Len(q) - k
        BY <1>0, <2>0, <3>2
      <4>2. b[j - (k + 1)] = q[k + (j - (k + 1))]
        BY <4>1, <2>2
      <4>3. k + (j - (k + 1)) = j - 1
        BY <2>0
      <4> QED
        BY <1>0, <2>0, <2>2, <2>5, <2>8, <3>2, <4>2, <4>3
    <3> QED
      BY <3>1, <3>2
  <2>10. Len(c \o b) = Len(q) + 1
    BY <1>0, <2>0, <2>2, <2>5, <2>8
  <2> DEFINE d == c \o b
  <2>11. /\ d \in Seq(Slots) /\ Len(d) = Len(q) + 1
         /\ \A j \in 1 .. Len(q) + 1 :
              d[j] = IF j <= k THEN q[j] ELSE IF j = k + 1 THEN s ELSE q[j - 1]
    BY <2>5, <2>9, <2>10
  <2>12. Appended(q, s, prio) = d
    BY <2>6
  <2> HIDE DEF d
  <2> QED
    BY <2>0, <2>7, <2>11, <2>12
<1> QED
  BY <1>1, <1>2
-----------------------------------------------------------------------------
(***************************************************************************)
(* The inductive invariant: what concerns the frames and their readiness,  *)
(* and what concerns the loop being executed.                              *)
(***************************************************************************)

ReadyExact == \A p \in Peers : ready[p] <=> writer[p] /\ queue[p] # <<>> /\ ~busy[p]

DataType ==
    /\ writer \in [Peers -> BOOLEAN]
    /\ queue \in [Peers -> Seq(Slots)]
    /\ \A p \in Peers : Len(queue[p]) <= MaxPeerTxQueue
    /\ item \in [Slots -> Item]
    /\ queueLen \in 0 .. MaxTxRpcQueue
    /\ ready \in [Peers -> BOOLEAN]
    /\ busy \in [Peers -> BOOLEAN]
    /\ reported \in [Peers -> BOOLEAN]

DataInv ==
    DataType /\ ReadyCountExact /\ ReadyExact /\ NoFrameWithoutWriter /\ SlotsOwned

LoopInv ==
    /\ nextPeer \in Peers
    /\ pc \in {"idle", "announce", "drop", "stale", "heartbeat", "flush", "write"}
    /\ cur \in Peers
    /\ count \in 0 .. MaxPeers + LocalTopics
    /\ dropId \in Msgs \cup {NoMsg}
    /\ pc = "write" => ready[cur]

IInv == DataInv /\ LoopInv

UsedSlots == {s \in Slots : item[s].used}

\* The table has max_tx_rpc_queue slots, and there are max_peers peers.
LEMMA SlotsFinite ==
    /\ IsFiniteSet(Slots) /\ Cardinality(Slots) = MaxTxRpcQueue
    /\ IsFiniteSet(Peers) /\ Cardinality(Peers) = MaxPeers
<1>1. /\ 0 \in Int /\ MaxTxRpcQueue - 1 \in Int /\ MaxPeers - 1 \in Int
      /\ ~(0 > MaxTxRpcQueue - 1) /\ ~(0 > MaxPeers - 1)
      /\ (MaxTxRpcQueue - 1) - 0 + 1 = MaxTxRpcQueue
      /\ (MaxPeers - 1) - 0 + 1 = MaxPeers
  BY TxAssumption
<1> QED
  BY <1>1, FS_Interval DEF Slots, Peers

\* The numeric bounds follow from what the counters count.
LEMMA CounterBounds ==
    ASSUME DataInv
    PROVE  /\ readyCount \in 0 .. MaxPeers
           /\ IsFiniteSet(UsedSlots) /\ Cardinality(UsedSlots) = queueLen
<1>1. {p \in Peers : ready[p]} \subseteq Peers /\ UsedSlots \subseteq Slots
  BY DEF UsedSlots
<1>2. /\ Cardinality({p \in Peers : ready[p]}) <= MaxPeers
      /\ Cardinality({p \in Peers : ready[p]}) \in Nat
      /\ IsFiniteSet(UsedSlots)
  BY <1>1, SlotsFinite, FS_Subset, FS_CardinalityType
<1> QED
  BY <1>2, TxAssumption DEF DataInv, ReadyCountExact, SlotsOwned, UsedSlots

\* gossipsub_tx_find_free finds a free slot whenever tx_queue_len is below the
\* capacity: the second ERR_LIMIT of gossipsub_tx_reserve is never taken.
LEMMA FindFreeProperties ==
    ASSUME DataInv, queueLen < MaxTxRpcQueue
    PROVE  FindFree \in Slots /\ ~item[FindFree].used
<1> DEFINE F == {s \in Slots : ~item[s].used}
<1>1. F # {}
  <2> SUFFICES ASSUME F = {} PROVE FALSE
    OBVIOUS
  <2>1. UsedSlots = Slots
    BY DEF UsedSlots
  <2>2. queueLen = MaxTxRpcQueue
    BY <2>1, CounterBounds, SlotsFinite
  <2> QED
    BY <2>2, TxAssumption
<1>2. F \subseteq Nat
  BY TxAssumption DEF Slots
<1>3. \E s \in F : \A t \in F : s <= t
  BY <1>1, <1>2, LeastNat
<1>4. \E s \in Slots : ~item[s].used /\ \A t \in Slots : ~item[t].used => s <= t
  BY <1>3
<1> QED
  BY <1>4 DEF FindFree
-----------------------------------------------------------------------------
(***************************************************************************)
(* The two operations on the queues keep the data invariant.               *)
(***************************************************************************)

\* Every frame the router encodes starts unwritten and in use.
LEMMA RpcType ==
    ASSUME NEW rpc \in Rpcs
    PROVE  rpc \in Item /\ rpc.used /\ rpc.pos = 0
<1>1. \A prio \in BOOLEAN, left \in TimeLeft, msg \in Msgs \cup {NoMsg} :
        LET r == Rpc(prio, left, msg) IN r \in Item /\ r.used /\ r.pos = 0
  BY TxAssumption DEF Rpc, Item
<1>2. NoDeadline \in TimeLeft /\ ForwardLifetime \in TimeLeft /\ LocalLifetime \in TimeLeft
  BY TxAssumption DEF TimeLeft
<1>3. \E prio \in BOOLEAN, left \in TimeLeft, msg \in Msgs \cup {NoMsg} :
        rpc = Rpc(prio, left, msg)
  BY <1>2 DEF Rpcs, ControlRpc, WantRpc, IhaveRpc, ForwardRpc, LocalRpc
<1> QED
  BY <1>1, <1>3

\* A cleared slot (gossipsub_tx_clear_item) is a free one.
LEMMA FreeItemType == FreeItem \in Item /\ ~FreeItem.used
BY TxAssumption DEF FreeItem, Item, TimeLeft, NoDeadline

\* Queueing a frame (gossipsub_tx_reserve and _commit_reserved) takes one free
\* slot, adds one link and marks the peer ready when it has to be.
LEMMA EnqueueKeepsData ==
    ASSUME DataInv, NEW p \in Peers, NEW rpc \in Rpcs,
           CanEnqueue(p), EnqueueRpc(p, rpc), UNCHANGED <<writer, busy, reported>>
    PROVE  DataInv' /\ (\A r \in Peers : ready[r] => ready'[r])
<1> DEFINE s == FindFree
           q == queue[p]
           q1 == Appended(q, s, rpc.prio)
           k == AppendPlace(q, rpc.prio)
<1>1. s \in Slots /\ ~item[s].used
  BY FindFreeProperties DEF CanEnqueue
<1>2. q \in Seq(Slots) /\ Len(q) \in Nat /\ Len(q) < MaxPeerTxQueue
  BY LenProperties DEF DataInv, DataType, CanEnqueue
<1>3. rpc \in Item /\ rpc.used /\ rpc.prio \in BOOLEAN
  BY RpcType DEF Item
<1> HIDE DEF s
<1>4. /\ q1 \in Seq(Slots) /\ Len(q1) = Len(q) + 1
      /\ k \in 0 .. Len(q)
      /\ \A j \in 1 .. Len(q) + 1 :
           q1[j] = IF j <= k THEN q[j] ELSE IF j = k + 1 THEN s ELSE q[j - 1]
  BY <1>1, <1>2, <1>3, AppendedProperties
<1>5. /\ item' = [item EXCEPT ![s] = rpc]
      /\ queue' = [queue EXCEPT ![p] = q1]
      /\ queueLen' = queueLen + 1
      /\ IF queue[p] = <<>> /\ ~busy[p]
         THEN SetReady(p, TRUE, writer[p]) ELSE UNCHANGED readyVars
  BY DEF EnqueueRpc, s
<1> HIDE DEF q1, k
<1>6. /\ queue'[p] = q1
      /\ \A r \in Peers \ {p} : queue'[r] = queue[r]
  BY <1>5 DEF DataInv, DataType
<1>7. ReadyCountExact' /\ ready' \in [Peers -> BOOLEAN] /\ ReadyExact'
      /\ \A r \in Peers : ready[r] => ready'[r]
  <2>1. CASE queue[p] = <<>> /\ ~busy[p]
    <3>1. writer[p] \in BOOLEAN /\ ready \in [Peers -> BOOLEAN]
      BY DEF DataInv, DataType
    <3>2. /\ ready' = [ready EXCEPT ![p] = TRUE /\ writer[p]]
          /\ ready' \in [Peers -> BOOLEAN]
          /\ readyCount' = Cardinality({r \in Peers : ready'[r]})
      BY <1>5, <2>1, <3>1, SetReadyCounts DEF DataInv
    <3>3. writer[p] /\ q1 # <<>>
      BY <1>2, <1>4 DEF CanEnqueue
    <3>4. ReadyExact'
      BY <1>6, <2>1, <3>1, <3>2, <3>3 DEF ReadyExact, DataInv
    <3> QED
      BY <3>1, <3>2, <3>3, <3>4 DEF ReadyCountExact
  <2>2. CASE ~(queue[p] = <<>> /\ ~busy[p])
    <3>1. UNCHANGED <<ready, readyCount>>
      BY <1>5, <2>2 DEF readyVars
    <3>2. q1 # <<>>
      BY <1>2, <1>4
    <3>3. ReadyExact'
      BY <1>6, <2>2, <3>1, <3>2 DEF ReadyExact, DataInv
    <3> QED
      BY <3>1, <3>3 DEF ReadyCountExact, DataInv, DataType
  <2> QED
    BY <2>1, <2>2
<1>8. NoFrameWithoutWriter'
  BY <1>6 DEF NoFrameWithoutWriter, DataInv, CanEnqueue
<1>9. DataType'
  <2>1. queue' \in [Peers -> Seq(Slots)]
    BY <1>4, <1>5 DEF DataInv, DataType
  <2>2. \A r \in Peers : Len(queue'[r]) <= MaxPeerTxQueue
    <3>1. Len(q1) <= MaxPeerTxQueue
      BY <1>2, <1>4, TxAssumption
    <3> QED
      BY <1>6, <3>1 DEF DataInv, DataType
  <2>3. item' \in [Slots -> Item]
    BY <1>3, <1>5 DEF DataInv, DataType
  <2>4. queueLen' \in 0 .. MaxTxRpcQueue
    BY <1>5, TxAssumption DEF DataInv, DataType, CanEnqueue
  <2> QED
    BY <1>7, <2>1, <2>2, <2>3, <2>4 DEF DataInv, DataType
<1>10. SlotsOwned'
  <2>1. \A r \in Peers : \A i \in 1 .. Len(queue[r]) : queue[r][i] # s
    BY <1>1 DEF DataInv, SlotsOwned
  <2>2. \A t \in Slots : item'[t].used <=> (t = s \/ item[t].used)
    BY <1>1, <1>3, <1>5 DEF DataInv, DataType
  <2>3. UsedSlots' = UsedSlots \cup {s} /\ s \notin UsedSlots
    BY <1>1, <2>2 DEF UsedSlots
  <2>4. queueLen' = Cardinality(UsedSlots')
    BY <1>5, <2>3, CounterBounds, FS_AddElement
  <2>5. \A i \in 1 .. Len(q) : \E j \in 1 .. Len(q) + 1 : q1[j] = q[i]
    <3> TAKE i \in 1 .. Len(q)
    <3>1. CASE i <= k
      BY <1>2, <1>4, <3>1
    <3>2. CASE ~(i <= k)
      <4>1. i + 1 \in 1 .. Len(q) + 1 /\ ~(i + 1 <= k) /\ i + 1 # k + 1 /\ (i + 1) - 1 = i
        BY <1>2, <1>4, <3>2
      <4> QED
        BY <1>4, <4>1
    <3> QED
      BY <3>1, <3>2
  <2>6. \E j \in 1 .. Len(q) + 1 : q1[j] = s
    <3>1. k + 1 \in 1 .. Len(q) + 1 /\ ~(k + 1 <= k)
      BY <1>2, <1>4
    <3> QED
      BY <1>4, <3>1
  <2>7. \A j \in 1 .. Len(q) + 1 : q1[j] = s \/ \E i \in 1 .. Len(q) : q1[j] = q[i]
    <3> TAKE j \in 1 .. Len(q) + 1
    <3>1. j <= k => j \in 1 .. Len(q)
      BY <1>2, <1>4
    <3>2. ~(j <= k) /\ j # k + 1 => j - 1 \in 1 .. Len(q)
      BY <1>2, <1>4
    <3> QED
      BY <1>4, <3>1, <3>2
  <2>8. \A t \in Slots : item'[t].used <=>
           \E r \in Peers : \E i \in 1 .. Len(queue'[r]) : queue'[r][i] = t
    <3> TAKE t \in Slots
    <3>1. ASSUME item'[t].used
          PROVE  \E r \in Peers : \E i \in 1 .. Len(queue'[r]) : queue'[r][i] = t
      <4>1. CASE t = s
        BY <1>4, <1>6, <2>6, <4>1
      <4>2. CASE item[t].used
        <5>1. PICK r \in Peers : \E i \in 1 .. Len(queue[r]) : queue[r][i] = t
          BY <4>2 DEF DataInv, SlotsOwned
        <5>2. CASE r = p
          <6>1. \E j \in 1 .. Len(q) + 1 : q1[j] = t
            BY <2>5, <5>1, <5>2
          <6> QED
            BY <1>4, <1>6, <6>1
        <5>3. CASE r # p
          BY <1>6, <5>1, <5>3
        <5> QED
          BY <5>2, <5>3
      <4> QED
        BY <2>2, <3>1, <4>1, <4>2
    <3>2. ASSUME NEW r \in Peers, NEW i \in 1 .. Len(queue'[r]), queue'[r][i] = t
          PROVE  item'[t].used
      <4>1. CASE r = p
        <5>1. t = s \/ \E j \in 1 .. Len(queue[p]) : queue[p][j] = t
          BY <1>4, <1>6, <2>7, <3>2, <4>1
        <5> QED
          BY <2>2, <5>1 DEF DataInv, SlotsOwned
      <4>2. CASE r # p
        BY <1>6, <2>2, <3>2, <4>2 DEF DataInv, SlotsOwned
      <4> QED
        BY <4>1, <4>2
    <3> QED
      BY <3>1, <3>2
  <2>9. \A i, j \in 1 .. Len(q) + 1 : q1[i] = q1[j] => i = j
    <3> TAKE i, j \in 1 .. Len(q) + 1
    <3> DEFINE pre(x) == IF x <= k THEN x ELSE x - 1
    <3>1. \A x \in 1 .. Len(q) + 1 : x # k + 1 => pre(x) \in 1 .. Len(q) /\ q1[x] = q[pre(x)]
      BY <1>2, <1>4
    <3>2. \A x \in 1 .. Len(q) + 1 : x = k + 1 => q1[x] = s
      BY <1>2, <1>4
    <3>3. \A x, y \in 1 .. Len(q) : q[x] = q[y] => x = y
      BY DEF DataInv, SlotsOwned
    <3>4. \A x \in 1 .. Len(q) : q[x] # s
      BY <2>1
    <3>5. CASE i = k + 1 \/ j = k + 1
      BY <3>1, <3>2, <3>4, <3>5
    <3>6. CASE i # k + 1 /\ j # k + 1
      <4>1. q1[i] = q1[j] => pre(i) = pre(j)
        BY <3>1, <3>3, <3>6
      <4>2. pre(i) = pre(j) => i = j
        BY <1>2, <1>4, <3>6
      <4> QED
        BY <4>1, <4>2
    <3> QED
      BY <3>5, <3>6
  <2>10. ASSUME NEW r \in Peers, r # p, NEW i \in 1 .. Len(q) + 1,
                NEW j \in 1 .. Len(queue[r])
         PROVE  q1[i] # queue[r][j]
    BY <2>1, <2>7, <2>10 DEF DataInv, SlotsOwned
  <2>11. \A r1, r2 \in Peers :
           \A i \in 1 .. Len(queue'[r1]), j \in 1 .. Len(queue'[r2]) :
             queue'[r1][i] = queue'[r2][j] => r1 = r2 /\ i = j
    <3> SUFFICES ASSUME NEW r1 \in Peers, NEW r2 \in Peers,
                        NEW i \in 1 .. Len(queue'[r1]), NEW j \in 1 .. Len(queue'[r2]),
                        queue'[r1][i] = queue'[r2][j]
                 PROVE  r1 = r2 /\ i = j
      OBVIOUS
    <3>1. CASE r1 = p /\ r2 = p
      BY <1>4, <1>6, <2>9, <3>1
    <3>2. CASE r1 = p /\ r2 # p
      BY <1>4, <1>6, <2>10, <3>2, SMTT(30)
    <3>3. CASE r1 # p /\ r2 = p
      BY <1>4, <1>6, <2>10, <3>3, SMTT(30)
    <3>4. CASE r1 # p /\ r2 # p
      BY <1>6, <3>4 DEF DataInv, SlotsOwned
    <3> QED
      BY <3>1, <3>2, <3>3, <3>4
  <2> QED
    BY <2>4, <2>8, <2>11 DEF SlotsOwned, UsedSlots
<1> QED
  BY <1>7, <1>8, <1>9, <1>10 DEF DataInv

\* gossipsub_tx_remove: one slot becomes free, one link disappears, and a peer
\* whose queue becomes empty is no longer ready.
LEMMA RemoveKeepsData ==
    ASSUME DataInv, NEW p \in Peers, NEW i \in 1 .. Len(queue[p]),
           TxRemove(p, i), UNCHANGED <<writer, busy>>
    PROVE  /\ DataInv'
           /\ \A r \in Peers : ready[r] /\ queue'[r] # <<>> => ready'[r]
<1> DEFINE q == queue[p]
           q1 == Without(q, i)
           s == q[i]
<1>1. q \in Seq(Slots) /\ Len(q) \in Nat /\ Len(q) <= MaxPeerTxQueue /\ s \in Slots
  BY LenProperties, ElementOfSeq DEF DataInv, DataType
<1>2. /\ q1 \in Seq(Slots) /\ Len(q1) = Len(q) - 1
      /\ \A j \in 1 .. Len(q) - 1 : q1[j] = IF j < i THEN q[j] ELSE q[j + 1]
  BY <1>1, WithoutProperties
<1>3. /\ item' = [item EXCEPT ![s] = FreeItem]
      /\ queue' = [queue EXCEPT ![p] = q1]
      /\ queueLen' = queueLen - 1
      /\ reported' = [reported EXCEPT ![p] = FALSE]
      /\ IF Len(q) = 1 THEN SetReady(p, FALSE, FALSE) ELSE UNCHANGED readyVars
  BY DEF TxRemove
<1> HIDE DEF q1
<1>4. queue'[p] = q1 /\ \A r \in Peers \ {p} : queue'[r] = queue[r]
  BY <1>3 DEF DataInv, DataType
<1>5. q # <<>> /\ (q1 = <<>> <=> Len(q) = 1)
  <2>1. Len(q) # 0
    BY <1>1
  <2>2. q # <<>>
    BY <2>1
  <2>3. q1 = <<>> <=> Len(q1) = 0
    BY <1>2, EmptySeq
  <2>4. Len(q1) = 0 <=> Len(q) = 1
    BY <1>1, <1>2
  <2> QED
    BY <2>2, <2>3, <2>4
<1>6. /\ ReadyCountExact' /\ ready' \in [Peers -> BOOLEAN] /\ ReadyExact'
      /\ \A r \in Peers : ready[r] /\ queue'[r] # <<>> => ready'[r]
  <2>1. CASE Len(q) = 1
    <3>1. FALSE \in BOOLEAN /\ ready \in [Peers -> BOOLEAN] /\ ReadyCountExact
      BY DEF DataInv, DataType
    <3>2. /\ ready' = [ready EXCEPT ![p] = FALSE /\ FALSE]
          /\ ready' \in [Peers -> BOOLEAN]
          /\ readyCount' = Cardinality({r \in Peers : ready'[r]})
      BY <1>3, <2>1, <3>1, SetReadyCounts
    <3>3. ReadyExact'
      BY <1>4, <1>5, <2>1, <3>1, <3>2 DEF ReadyExact, DataInv
    <3>4. \A r \in Peers : ready[r] /\ queue'[r] # <<>> => ready'[r]
      BY <1>4, <1>5, <2>1, <3>1, <3>2
    <3> QED
      BY <3>2, <3>3, <3>4 DEF ReadyCountExact
  <2>2. CASE Len(q) # 1
    <3>1. UNCHANGED <<ready, readyCount>>
      BY <1>3, <2>2 DEF readyVars
    <3>2. ReadyExact'
      BY <1>4, <1>5, <2>2, <3>1 DEF ReadyExact, DataInv
    <3> QED
      BY <3>1, <3>2 DEF ReadyCountExact, DataInv, DataType
  <2> QED
    BY <2>1, <2>2
<1>7. NoFrameWithoutWriter'
  BY <1>4, <1>5 DEF NoFrameWithoutWriter, DataInv
<1>8. item[s].used
  BY <1>1 DEF DataInv, SlotsOwned
<1>9. UsedSlots' = UsedSlots \ {s} /\ s \in UsedSlots
  BY <1>1, <1>3, <1>8, FreeItemType DEF UsedSlots, DataInv, DataType
<1>10. queueLen' = Cardinality(UsedSlots') /\ queueLen' \in 0 .. MaxTxRpcQueue
  <2>1. IsFiniteSet(UsedSlots) /\ Cardinality(UsedSlots) = queueLen
    BY CounterBounds
  <2>2. Cardinality(UsedSlots') = queueLen - 1 /\ IsFiniteSet(UsedSlots')
    BY <1>9, <2>1, FS_RemoveElement
  <2>3. Cardinality(UsedSlots') \in Nat
    BY <2>2, FS_CardinalityType
  <2> QED
    BY <1>3, <2>2, <2>3, TxAssumption DEF DataInv, DataType
<1>11. DataType'
  <2>1. queue' \in [Peers -> Seq(Slots)]
    BY <1>2, <1>3 DEF DataInv, DataType
  <2>2. \A r \in Peers : Len(queue'[r]) <= MaxPeerTxQueue
    <3>1. Len(q1) <= MaxPeerTxQueue
      BY <1>1, <1>2, TxAssumption
    <3> QED
      BY <1>4, <3>1 DEF DataInv, DataType
  <2>3. item' \in [Slots -> Item]
    BY <1>3, FreeItemType DEF DataInv, DataType
  <2>4. reported' \in [Peers -> BOOLEAN]
    BY <1>3 DEF DataInv, DataType
  <2> QED
    BY <1>6, <1>10, <2>1, <2>2, <2>3, <2>4 DEF DataInv, DataType
<1>12. SlotsOwned'
  <2> DEFINE post(x) == IF x < i THEN x ELSE x + 1
  <2>1. \A x \in 1 .. Len(q1) : post(x) \in 1 .. Len(q) /\ post(x) # i /\ q1[x] = q[post(x)]
    BY <1>1, <1>2
  <2>2. \A x, y \in 1 .. Len(q) : q[x] = q[y] => x = y
    BY DEF DataInv, SlotsOwned
  <2>3. \A x \in 1 .. Len(q) : x # i => \E y \in 1 .. Len(q1) : q1[y] = q[x]
    <3> TAKE x \in 1 .. Len(q)
    <3> HAVE x # i
    <3>1. CASE x < i
      <4>1. x \in 1 .. Len(q) - 1
        BY <1>1, <3>1
      <4> QED
        BY <1>2, <3>1, <4>1
    <3>2. CASE ~(x < i)
      <4>1. x - 1 \in 1 .. Len(q) - 1 /\ ~(x - 1 < i) /\ (x - 1) + 1 = x
        BY <1>1, <3>2
      <4> QED
        BY <1>2, <4>1
    <3> QED
      BY <3>1, <3>2
  <2>4. \A x \in 1 .. Len(q1) : q1[x] # s
    BY <2>1, <2>2
  <2>5. \A t \in Slots : item'[t].used <=> t # s /\ item[t].used
    BY <1>1, <1>3, FreeItemType DEF DataInv, DataType
  <2>6. \A t \in Slots : item'[t].used <=>
           \E r \in Peers : \E j \in 1 .. Len(queue'[r]) : queue'[r][j] = t
    <3> TAKE t \in Slots
    <3>1. ASSUME item'[t].used
          PROVE  \E r \in Peers : \E j \in 1 .. Len(queue'[r]) : queue'[r][j] = t
      <4>1. PICK r \in Peers : \E j \in 1 .. Len(queue[r]) : queue[r][j] = t
        BY <2>5, <3>1 DEF DataInv, SlotsOwned
      <4>2. CASE r = p
        <5>1. PICK j \in 1 .. Len(q) : q[j] = t
          BY <4>1, <4>2
        <5>2. j # i
          BY <2>5, <3>1, <5>1
        <5>3. \E y \in 1 .. Len(q1) : q1[y] = t
          BY <2>3, <5>1, <5>2
        <5> QED
          BY <1>4, <5>3
      <4>3. CASE r # p
        BY <1>4, <4>1, <4>3
      <4> QED
        BY <4>2, <4>3
    <3>2. ASSUME NEW r \in Peers, NEW j \in 1 .. Len(queue'[r]), queue'[r][j] = t
          PROVE  item'[t].used
      <4>1. CASE r = p
        <5>1. q1[j] = t /\ j \in 1 .. Len(q1)
          BY <1>4, <3>2, <4>1
        <5>2. t # s /\ \E x \in 1 .. Len(queue[p]) : queue[p][x] = t
          BY <2>1, <2>4, <5>1
        <5> QED
          BY <2>5, <5>2 DEF DataInv, SlotsOwned
      <4>2. CASE r # p
        <5>1. queue[r][j] = t /\ j \in 1 .. Len(queue[r])
          BY <1>4, <3>2, <4>2
        <5>2. t # s
          BY <4>2, <5>1 DEF DataInv, SlotsOwned
        <5> QED
          BY <2>5, <5>1, <5>2 DEF DataInv, SlotsOwned
      <4> QED
        BY <4>1, <4>2
    <3> QED
      BY <3>1, <3>2
  <2>7. \A r1, r2 \in Peers :
           \A x \in 1 .. Len(queue'[r1]), y \in 1 .. Len(queue'[r2]) :
             queue'[r1][x] = queue'[r2][y] => r1 = r2 /\ x = y
    <3> SUFFICES ASSUME NEW r1 \in Peers, NEW r2 \in Peers,
                        NEW x \in 1 .. Len(queue'[r1]), NEW y \in 1 .. Len(queue'[r2]),
                        queue'[r1][x] = queue'[r2][y]
                 PROVE  r1 = r2 /\ x = y
      OBVIOUS
    <3>1. CASE r1 = p /\ r2 = p
      <4>1. x \in 1 .. Len(q1) /\ y \in 1 .. Len(q1) /\ q1[x] = q1[y]
        BY <1>4, <3>1
      <4>2. post(x) = post(y)
        BY <2>1, <2>2, <4>1
      <4>3. x = y
        BY <1>1, <1>2, <4>1, <4>2
      <4> QED
        BY <3>1, <4>3
    <3>2. CASE r1 = p /\ r2 # p
      <4>1. x \in 1 .. Len(q1) /\ y \in 1 .. Len(queue[r2]) /\ q[post(x)] = queue[r2][y]
        BY <1>4, <2>1, <3>2
      <4> QED
        BY <2>1, <3>2, <4>1 DEF DataInv, SlotsOwned
    <3>3. CASE r1 # p /\ r2 = p
      <4>1. y \in 1 .. Len(q1) /\ x \in 1 .. Len(queue[r1]) /\ q[post(y)] = queue[r1][x]
        BY <1>4, <2>1, <3>3
      <4> QED
        BY <2>1, <3>3, <4>1 DEF DataInv, SlotsOwned
    <3>4. CASE r1 # p /\ r2 # p
      BY <1>4, <3>4 DEF DataInv, SlotsOwned
    <3> QED
      BY <3>1, <3>2, <3>3, <3>4
  <2> QED
    BY <1>10, <2>6, <2>7 DEF SlotsOwned, UsedSlots
<1> QED
  BY <1>6, <1>7, <1>11, <1>12 DEF DataInv

\* Cardinality of an initial segment and of a difference.
LEMMA SegmentCardinality ==
    ASSUME NEW n \in Nat
    PROVE  IsFiniteSet(1 .. n) /\ Cardinality(1 .. n) = n
<1>1. 1 \in Int /\ n \in Int /\ (1 > n => n = 0) /\ n - 1 + 1 = n
  OBVIOUS
<1>2. /\ IsFiniteSet(1 .. n)
      /\ Cardinality(1 .. n) = IF 1 > n THEN 0 ELSE n - 1 + 1
  BY <1>1, FS_Interval, Zenon
<1> QED
  BY <1>1, <1>2

\* Removing a part of a finite set takes away as many elements as it has.
LEMMA DifferenceCardinality ==
    ASSUME NEW S, NEW T, IsFiniteSet(S), T \subseteq S
    PROVE  IsFiniteSet(S \ T) /\ Cardinality(S \ T) = Cardinality(S) - Cardinality(T)
<1>1. S \cap T = T
  OBVIOUS
<1> QED
  BY <1>1, FS_Difference, Zenon

\* The frames of one queue occupy as many slots as the queue is long.
LEMMA QueueCardinality ==
    ASSUME DataInv, NEW p \in Peers
    PROVE  LET gone == {queue[p][i] : i \in 1 .. Len(queue[p])}
           IN  gone \subseteq UsedSlots /\ Cardinality(gone) = Len(queue[p])
<1> DEFINE q == queue[p]
           gone == {q[i] : i \in 1 .. Len(q)}
           f == [i \in 1 .. Len(q) |-> q[i]]
<1>1. Len(q) \in Nat /\ \A i \in 1 .. Len(q) : q[i] \in Slots
  BY LenProperties, ElementOfSeq DEF DataInv, DataType
<1>2. \A i, j \in 1 .. Len(q) : q[i] = q[j] => i = j
  BY DEF DataInv, SlotsOwned
<1>3. f \in Bijection(1 .. Len(q), gone)
  <2>1. f \in [1 .. Len(q) -> gone]
    OBVIOUS
  <2>2. \A i, j \in 1 .. Len(q) : f[i] = f[j] => i = j
    BY <1>2
  <2>3. \A t \in gone : \E i \in 1 .. Len(q) : f[i] = t
    OBVIOUS
  <2> HIDE DEF f, gone
  <2> QED
    BY <2>1, <2>2, <2>3 DEF Bijection, Injection, Surjection, IsInjective
<1>4. ExistsBijection(1 .. Len(q), gone)
  BY <1>3 DEF ExistsBijection
<1>5. IsFiniteSet(1 .. Len(q)) /\ Cardinality(1 .. Len(q)) = Len(q)
  BY <1>1, SegmentCardinality
<1>6. Cardinality(gone) = Len(q)
  BY <1>4, <1>5, FS_Bijection
<1>7. gone \subseteq UsedSlots
  BY <1>1 DEF DataInv, SlotsOwned, UsedSlots
<1> QED
  BY <1>6, <1>7

\* Closing the writer stream frees every slot of the peer's queue and no other
\* (gossipsub_drop_queued_peer), and leaves the peer unready.
LEMMA CloseKeepsData ==
    ASSUME DataInv, NEW p \in Peers, CloseWriter(p)
    PROVE  DataInv'
<1> DEFINE gone == {queue[p][i] : i \in 1 .. Len(queue[p])}
<1>1. /\ item' = [s \in Slots |-> IF s \in gone THEN FreeItem ELSE item[s]]
      /\ queue' = [queue EXCEPT ![p] = <<>>]
      /\ queueLen' = queueLen - Len(queue[p])
      /\ reported' = [reported EXCEPT ![p] = @ /\ queue[p] = <<>>]
      /\ SetReady(p, FALSE, FALSE)
      /\ writer' = [writer EXCEPT ![p] = FALSE]
      /\ busy' = [busy EXCEPT ![p] = FALSE]
  BY DEF CloseWriter
<1>2. gone \subseteq UsedSlots /\ Cardinality(gone) = Len(queue[p])
  BY QueueCardinality
<1>3. \A s \in gone : \A r \in Peers \ {p} : \A j \in 1 .. Len(queue[r]) : queue[r][j] # s
  BY DEF DataInv, SlotsOwned
<1>4. \A s \in Slots : s \in gone <=> \E i \in 1 .. Len(queue[p]) : queue[p][i] = s
  OBVIOUS
<1> HIDE DEF gone
<1>5. /\ queue'[p] = <<>> /\ ~writer'[p] /\ ~busy'[p]
      /\ \A r \in Peers \ {p} : /\ queue'[r] = queue[r]
                                /\ writer'[r] = writer[r]
                                /\ busy'[r] = busy[r]
  BY <1>1 DEF DataInv, DataType
<1>6. ReadyCountExact' /\ ready' \in [Peers -> BOOLEAN] /\ ReadyExact'
  <2>1. FALSE \in BOOLEAN /\ ready \in [Peers -> BOOLEAN] /\ ReadyCountExact
    BY DEF DataInv, DataType
  <2>2. /\ ready' = [ready EXCEPT ![p] = FALSE /\ FALSE]
        /\ ready' \in [Peers -> BOOLEAN]
        /\ readyCount' = Cardinality({r \in Peers : ready'[r]})
    BY <1>1, <2>1, SetReadyCounts
  <2>3. ReadyExact'
    BY <1>5, <2>1, <2>2 DEF ReadyExact, DataInv
  <2> QED
    BY <2>2, <2>3 DEF ReadyCountExact
<1>7. NoFrameWithoutWriter'
  BY <1>5 DEF NoFrameWithoutWriter, DataInv
<1>8. \A s \in Slots : item'[s].used <=> item[s].used /\ s \notin gone
  BY <1>1, FreeItemType
<1>9. queueLen' = Cardinality(UsedSlots') /\ queueLen' \in 0 .. MaxTxRpcQueue
  <2>1. UsedSlots' = UsedSlots \ gone
    BY <1>8 DEF UsedSlots
  <2>2. IsFiniteSet(UsedSlots) /\ Cardinality(UsedSlots) = queueLen
    BY CounterBounds
  <2>4. /\ IsFiniteSet(UsedSlots')
        /\ Cardinality(UsedSlots') = queueLen - Len(queue[p])
    BY <1>2, <2>1, <2>2, DifferenceCardinality
  <2>5. Cardinality(UsedSlots') \in Nat
    BY <2>4, FS_CardinalityType
  <2>6. Len(queue[p]) \in Nat
    BY LenProperties DEF DataInv, DataType
  <2> QED
    BY <1>1, <2>4, <2>5, <2>6, TxAssumption DEF DataInv, DataType
<1>10. DataType'
  <2>1. <<>> \in Seq(Slots) /\ Len(<<>>) = 0
    OBVIOUS
  <2>2. queue' \in [Peers -> Seq(Slots)]
    BY <1>1, <2>1 DEF DataInv, DataType
  <2>3. \A r \in Peers : Len(queue'[r]) <= MaxPeerTxQueue
    BY <1>5, <2>1, TxAssumption DEF DataInv, DataType
  <2>4. item' \in [Slots -> Item]
    BY <1>1, FreeItemType DEF DataInv, DataType
  <2>5. reported' \in [Peers -> BOOLEAN]
    <3>1. (reported[p] /\ queue[p] = <<>>) \in BOOLEAN
      OBVIOUS
    <3> QED
      BY <1>1, <3>1 DEF DataInv, DataType
  <2>6. writer' \in [Peers -> BOOLEAN] /\ busy' \in [Peers -> BOOLEAN]
    BY <1>1 DEF DataInv, DataType
  <2> QED
    BY <1>6, <1>9, <2>2, <2>3, <2>4, <2>5, <2>6 DEF DataType
<1>11. SlotsOwned'
  <2>0. Len(queue'[p]) = 0
    BY <1>5
  <2>1. \A s \in Slots : item'[s].used <=>
           \E r \in Peers : \E i \in 1 .. Len(queue'[r]) : queue'[r][i] = s
    <3> TAKE s \in Slots
    <3>1. ASSUME item'[s].used
          PROVE  \E r \in Peers : \E i \in 1 .. Len(queue'[r]) : queue'[r][i] = s
      <4>1. PICK r \in Peers : \E i \in 1 .. Len(queue[r]) : queue[r][i] = s
        BY <1>8, <3>1 DEF DataInv, SlotsOwned
      <4>2. r # p
        BY <1>4, <1>8, <3>1, <4>1
      <4> QED
        BY <1>5, <4>1, <4>2
    <3>2. ASSUME NEW r \in Peers, NEW i \in 1 .. Len(queue'[r]), queue'[r][i] = s
          PROVE  item'[s].used
      <4>1. r # p
        BY <2>0, <3>2
      <4>2. i \in 1 .. Len(queue[r]) /\ queue[r][i] = s
        BY <1>5, <3>2, <4>1
      <4>3. s \notin gone
        BY <1>3, <4>1, <4>2
      <4> QED
        BY <1>8, <4>2, <4>3 DEF DataInv, SlotsOwned
    <3> QED
      BY <3>1, <3>2
  <2>2. \A r1, r2 \in Peers :
           \A i \in 1 .. Len(queue'[r1]), j \in 1 .. Len(queue'[r2]) :
             queue'[r1][i] = queue'[r2][j] => r1 = r2 /\ i = j
    BY <1>5, <2>0 DEF DataInv, SlotsOwned
  <2> QED
    BY <1>9, <2>1, <2>2 DEF SlotsOwned, UsedSlots
<1> QED
  BY <1>6, <1>7, <1>10, <1>11 DEF DataInv

\* A step that changes neither a frame nor a flag keeps the data invariant.
LEMMA DataUnchanged ==
    ASSUME DataInv, UNCHANGED <<writer, poolVars, readyVars, busy>>,
           reported' \in [Peers -> BOOLEAN]
    PROVE  DataInv'
BY DEF DataInv, DataType, ReadyCountExact, ReadyExact, NoFrameWithoutWriter, SlotsOwned,
       poolVars, readyVars

\* So does one that changes a frame and neither takes nor frees a slot.
LEMMA FramesRewritten ==
    ASSUME DataInv, UNCHANGED <<writer, queue, queueLen, readyVars, busy, reported>>,
           item' \in [Slots -> Item], \A s \in Slots : item'[s].used = item[s].used
    PROVE  DataInv'
<1>1. UsedSlots' = UsedSlots
  BY DEF UsedSlots
<1>2. SlotsOwned'
  <2>1. queueLen' = Cardinality(UsedSlots')
    BY <1>1, CounterBounds
  <2>2. \A s \in Slots : item'[s].used <=>
          \E p \in Peers : \E i \in 1 .. Len(queue'[p]) : queue'[p][i] = s
    BY DEF DataInv, SlotsOwned
  <2> QED
    BY <2>1, <2>2 DEF DataInv, SlotsOwned, UsedSlots
<1> QED
  BY <1>2 DEF DataInv, DataType, ReadyCountExact, ReadyExact, NoFrameWithoutWriter, readyVars

\* A step on the flags of one peer that leaves the frames alone keeps the data
\* invariant if it leaves the peer ready exactly when it should be.
LEMMA FlagsRewritten ==
    ASSUME DataInv, NEW p \in Peers, NEW w \in BOOLEAN, NEW b \in BOOLEAN,
           NEW want \in BOOLEAN, NEW can \in BOOLEAN,
           UNCHANGED <<poolVars, reported>>,
           writer' = [writer EXCEPT ![p] = w], busy' = [busy EXCEPT ![p] = b],
           SetReady(p, want, can),
           want /\ can <=> w /\ queue[p] # <<>> /\ ~b,
           ~w => queue[p] = <<>> /\ ~b
    PROVE  DataInv' /\ ready'[p] = (want /\ can)
<1>1. ready \in [Peers -> BOOLEAN] /\ ReadyCountExact
  BY DEF DataInv, DataType
<1>2. /\ ready' = [ready EXCEPT ![p] = want /\ can]
      /\ ready' \in [Peers -> BOOLEAN]
      /\ readyCount' = Cardinality({r \in Peers : ready'[r]})
  BY <1>1, SetReadyCounts
<1>3. /\ writer' \in [Peers -> BOOLEAN] /\ busy' \in [Peers -> BOOLEAN]
      /\ writer'[p] = w /\ busy'[p] = b
      /\ \A r \in Peers \ {p} : writer'[r] = writer[r] /\ busy'[r] = busy[r]
  BY DEF DataInv, DataType
<1>4. ReadyExact'
  BY <1>1, <1>2, <1>3 DEF ReadyExact, DataInv, poolVars
<1>5. NoFrameWithoutWriter'
  BY <1>3 DEF NoFrameWithoutWriter, DataInv, poolVars
<1>6. DataType' /\ SlotsOwned'
  BY <1>2, <1>3 DEF DataInv, DataType, SlotsOwned, poolVars
<1> QED
  BY <1>1, <1>2, <1>4, <1>5, <1>6 DEF DataInv, ReadyCountExact

-----------------------------------------------------------------------------
(***************************************************************************)
(* The invariant is inductive.                                             *)
(***************************************************************************)

\* It holds when the router starts.
LEMMA InitInvariant == Init => IInv
<1> SUFFICES ASSUME Init PROVE IInv
  OBVIOUS
<1>1. 0 \in Peers /\ \A p \in Peers : Len(queue[p]) = 0 /\ queue[p] = <<>>
  BY TxAssumption DEF Init, Peers
<1>2. \A s \in Slots : ~item[s].used
  BY FreeItemType DEF Init
<1>3. DataType
  <2>1. queue \in [Peers -> Seq(Slots)]
    BY DEF Init
  <2>2. item \in [Slots -> Item]
    BY FreeItemType DEF Init
  <2> QED
    BY <1>1, <2>1, <2>2, TxAssumption DEF Init, DataType
<1>4. ReadyCountExact
  <2>1. {p \in Peers : ready[p]} = {}
    BY DEF Init
  <2> QED
    BY <2>1, FS_EmptySet DEF Init, ReadyCountExact
<1>5. SlotsOwned
  <2>1. {s \in Slots : item[s].used} = {}
    BY <1>2
  <2>2. queueLen = Cardinality({s \in Slots : item[s].used})
    BY <2>1, FS_EmptySet DEF Init
  <2>3. \A p \in Peers : 1 .. Len(queue[p]) = {}
    BY <1>1
  <2> QED
    BY <1>2, <2>2, <2>3 DEF SlotsOwned
<1>6. ReadyExact /\ NoFrameWithoutWriter
  BY DEF Init, ReadyExact, NoFrameWithoutWriter
<1>7. LoopInv
  BY <1>1, TxAssumption DEF Init, LoopInv
<1> QED
  BY <1>3, <1>4, <1>5, <1>6, <1>7 DEF IInv, DataInv

\* Every step keeps it.
LEMMA NextInvariant == IInv /\ [Next]_vars => IInv'
<1> SUFFICES ASSUME IInv, [Next]_vars PROVE IInv'
  OBVIOUS
<1>0. DataInv /\ LoopInv /\ reported \in [Peers -> BOOLEAN]
  BY DEF IInv, DataInv, DataType
<1>c. MaxPeers \in Nat /\ LocalTopics \in Nat /\ 0 \in Peers
  BY TxAssumption DEF Peers
<1>1. ASSUME NEW p \in Peers, NEW rpc \in Rpcs, Enqueue(p, rpc)
      PROVE  IInv'
  <2>1. DataInv'
    BY <1>0, <1>1, EnqueueKeepsData DEF Enqueue
  <2>2. LoopInv'
    BY <1>0, <1>1 DEF Enqueue, LoopInv, loopVars
  <2> QED
    BY <2>1, <2>2 DEF IInv
<1>2. ASSUME NEW p \in Peers, IdontwantRefused(p)
      PROVE  IInv'
  <2>1. DataInv'
    BY <1>0, <1>2, DataUnchanged DEF IdontwantRefused
  <2>2. LoopInv'
    BY <1>0, <1>2 DEF IdontwantRefused, LoopInv, loopVars
  <2> QED
    BY <2>1, <2>2 DEF IInv
<1>3. ASSUME NEW p \in Peers, OpenWriter(p)
      PROVE  IInv'
  <2>1. queue[p] = <<>> /\ ~writer[p]
    BY <1>0, <1>3 DEF OpenWriter, DataInv, NoFrameWithoutWriter
  <2>2. DataType' /\ UNCHANGED <<ready, readyCount, queue, item, queueLen>>
    BY <1>0, <1>3 DEF OpenWriter, DataInv, DataType, poolVars, readyVars
  <2>3. /\ writer'[p] /\ ~busy'[p]
        /\ \A r \in Peers \ {p} : writer'[r] = writer[r] /\ busy'[r] = busy[r]
    BY <1>0, <1>3 DEF OpenWriter, DataInv, DataType
  <2>4. ReadyExact' /\ NoFrameWithoutWriter'
    BY <1>0, <2>1, <2>2, <2>3 DEF DataInv, ReadyExact, NoFrameWithoutWriter
  <2>5. ReadyCountExact' /\ SlotsOwned'
    BY <1>0, <2>2 DEF DataInv, ReadyCountExact, SlotsOwned
  <2>6. LoopInv'
    BY <1>0, <1>3, <1>c DEF OpenWriter, LoopInv
  <2> QED
    BY <2>2, <2>4, <2>5, <2>6 DEF IInv, DataInv
<1>4. ASSUME NEW p \in Peers, Writable(p)
      PROVE  IInv'
  <2>1. writer[p] = TRUE /\ writer' = [writer EXCEPT ![p] = TRUE]
    BY <1>0, <1>4 DEF Writable, DataInv, DataType
  <2>2. DataInv'
    <3>1. TRUE \in BOOLEAN /\ FALSE \in BOOLEAN /\ (queue[p] # <<>>) \in BOOLEAN
      OBVIOUS
    <3>2. /\ UNCHANGED <<poolVars, reported>> /\ busy' = [busy EXCEPT ![p] = FALSE]
          /\ SetReady(p, TRUE, queue[p] # <<>>)
      BY <1>4 DEF Writable
    <3> QED
      BY <1>0, <2>1, <3>1, <3>2, FlagsRewritten
  <2>3. LoopInv'
    BY <1>0, <1>4 DEF Writable, LoopInv, loopVars
  <2> QED
    BY <2>2, <2>3 DEF IInv
<1>5. ASSUME NEW p \in Peers, CloseWriter(p)
      PROVE  IInv'
  <2>1. DataInv'
    BY <1>0, <1>5, CloseKeepsData
  <2>2. LoopInv'
    BY <1>0, <1>5 DEF CloseWriter, LoopInv, loopVars
  <2> QED
    BY <2>1, <2>2 DEF IInv
<1>6. ASSUME NEW p \in Peers, NEW m \in Msgs, DropQueuedPublish(p, m)
      PROVE  IInv'
  <2>1. DataInv'
    BY <1>0, <1>6, DataUnchanged DEF DropQueuedPublish
  <2>2. LoopInv'
    BY <1>0, <1>6 DEF DropQueuedPublish, LoopInv
  <2> QED
    BY <2>1, <2>2 DEF IInv
<1>7. ASSUME NEW elapsed \in {0, 1}, Drive(elapsed)
      PROVE  IInv'
  <2>1. \A it \in Item : Aged(it, elapsed) \in Item /\ Aged(it, elapsed).used = it.used
    <3> TAKE it \in Item
    <3>1. it.left \in TimeLeft
      BY DEF Item
    <3>2. CASE it.left = NoDeadline
      BY <3>2 DEF Aged
    <3>3. CASE it.left # NoDeadline
      <4>1. it.left \in Nat
        BY <3>1, <3>3 DEF TimeLeft
      <4>2. (IF it.left > elapsed THEN it.left - elapsed ELSE 0) \in TimeLeft
        BY <4>1 DEF TimeLeft
      <4> QED
        BY <3>3, <4>2 DEF Aged, Item
    <3> QED
      BY <3>2, <3>3
  <2>2. item' = [s \in Slots |-> Aged(item[s], elapsed)]
    BY <1>7 DEF Drive
  <2>3. item' \in [Slots -> Item] /\ \A s \in Slots : item'[s].used = item[s].used
    BY <1>0, <2>1, <2>2 DEF DataInv, DataType
  <2>4. DataInv'
    BY <1>0, <1>7, <2>3, FramesRewritten DEF Drive
  <2>5. LoopInv'
    BY <1>0, <1>7 DEF Drive, LoopInv
  <2> QED
    BY <2>4, <2>5 DEF IInv
<1>8. ASSUME Announce
      PROVE  IInv'
  <2>1. cur \in Peers /\ ControlRpc \in Rpcs
    BY <1>0 DEF LoopInv, Rpcs
  <2>2. DataInv'
    <3>1. CASE CanEnqueue(cur) /\ EnqueueRpc(cur, ControlRpc)
      BY <1>0, <1>8, <2>1, <3>1, EnqueueKeepsData DEF Announce
    <3>2. CASE UNCHANGED <<poolVars, readyVars>>
      BY <1>0, <1>8, <3>2, DataUnchanged DEF Announce
    <3> QED
      BY <1>8, <3>1, <3>2 DEF Announce
  <2>3. count' \in 0 .. MaxPeers + LocalTopics
    BY <1>0, <1>8, <1>c DEF Announce, LoopInv
  <2>4. LoopInv'
    BY <1>0, <1>8, <2>3 DEF Announce, LoopInv
  <2> QED
    BY <2>2, <2>4 DEF IInv
<1>9. ASSUME AnnounceDone \/ DropDone \/ FlushDone \/ WriteFailed
      PROVE  IInv'
  <2>1. DataInv'
    BY <1>0, <1>9, DataUnchanged DEF AnnounceDone, DropDone, FlushDone, WriteFailed
  <2>2. LoopInv'
    BY <1>0, <1>9, <1>c DEF AnnounceDone, DropDone, FlushDone, WriteFailed, Return, LoopInv
  <2> QED
    BY <2>1, <2>2 DEF IInv
<1>10. ASSUME DropItem
       PROVE  IInv'
  <2>1. PICK i \in 1 .. Len(queue[cur]) : TxRemove(cur, i)
    BY <1>10 DEF DropItem
  <2>2. cur \in Peers
    BY <1>0 DEF LoopInv
  <2>3. DataInv'
    BY <1>0, <1>10, <2>1, <2>2, RemoveKeepsData DEF DropItem
  <2>4. LoopInv'
    BY <1>0, <1>10 DEF DropItem, LoopInv, loopVars
  <2> QED
    BY <2>3, <2>4 DEF IInv
<1>11. ASSUME DropStale
       PROVE  IInv'
  <2>1. PICK p \in Peers : \E i \in 1 .. Len(queue[p]) : TxRemove(p, i)
    BY <1>11 DEF DropStale
  <2>2. PICK i \in 1 .. Len(queue[p]) : TxRemove(p, i)
    BY <2>1
  <2>3. DataInv'
    BY <1>0, <1>11, <2>2, RemoveKeepsData DEF DropStale
  <2>4. LoopInv'
    BY <1>0, <1>11 DEF DropStale, LoopInv, loopVars
  <2> QED
    BY <2>3, <2>4 DEF IInv
<1>12. ASSUME DropStaleDone \/ HeartbeatDone
       PROVE  IInv'
  <2>1. DataInv'
    BY <1>0, <1>12, DataUnchanged DEF DropStaleDone, HeartbeatDone
  <2>2. LoopInv'
    BY <1>0, <1>12, <1>c DEF DropStaleDone, HeartbeatDone, LoopInv
  <2> QED
    BY <2>1, <2>2 DEF IInv
<1>13. ASSUME Visit
       PROVE  IInv'
  <2>1. DataInv' /\ UNCHANGED ready
    BY <1>0, <1>13, DataUnchanged DEF Visit, readyVars
  <2>2. nextPeer' \in Peers
    BY <1>0, <1>13, TxAssumption DEF Visit, LoopInv, Peers
  <2>3. count' \in 0 .. MaxPeers + LocalTopics
    BY <1>0, <1>13, <1>c DEF Visit, LoopInv
  <2>4. LoopInv'
    BY <1>0, <1>13, <2>1, <2>2, <2>3 DEF Visit, LoopInv
  <2> QED
    BY <2>1, <2>4 DEF IInv
<1>14. ASSUME NEW n \in 1 .. FrameLen, WriteAccepted(n)
       PROVE  IInv'
  <2> DEFINE s == queue[cur][1]
  <2>1. pc = "write" /\ cur \in Peers /\ ready[cur] /\ queue[cur] # <<>>
    BY <1>0, <1>14 DEF WriteAccepted, LoopInv, DataInv, ReadyExact
  <2>2. queue[cur] \in Seq(Slots) /\ 1 \in 1 .. Len(queue[cur]) /\ s \in Slots
    <3>1. queue[cur] \in Seq(Slots)
      BY <1>0, <2>1 DEF DataInv, DataType
    <3>2. Len(queue[cur]) \in Nat /\ Len(queue[cur]) # 0
      BY <2>1, <3>1, EmptySeq, LenProperties
    <3> QED
      BY <3>1, <3>2, ElementOfSeq
  <2>3. DataInv' /\ (ready[cur] /\ queue'[cur] # <<>> => ready'[cur])
    <3>1. CASE Stale(s) \/ item[s].pos + n = FrameLen
      <4>1. TxRemove(cur, 1) /\ UNCHANGED <<writer, busy>>
        BY <1>14, <3>1 DEF WriteAccepted
      <4> QED
        BY <1>0, <2>1, <2>2, <4>1, RemoveKeepsData
    <3>2. CASE ~(Stale(s) \/ item[s].pos + n = FrameLen)
      <4>1. /\ item' = [item EXCEPT ![s].pos = @ + n]
            /\ UNCHANGED <<writer, queue, queueLen, readyVars, busy, reported>>
            /\ n <= FrameLen - item[s].pos
        BY <1>14, <3>2 DEF WriteAccepted
      <4>2. item \in [Slots -> Item] /\ item[s] \in Item /\ item[s].pos \in 0 .. FrameLen
        BY <1>0, <2>2 DEF DataInv, DataType, Item
      <4>3. item[s].pos + n \in 0 .. FrameLen
        BY <4>1, <4>2, TxAssumption
      <4>4. item' = [item EXCEPT ![s] = [item[s] EXCEPT !.pos = item[s].pos + n]]
        BY <2>2, <4>1, <4>2
      <4>5. LET it == [item[s] EXCEPT !.pos = item[s].pos + n]
            IN  it \in Item /\ it.used = item[s].used
        BY <4>2, <4>3 DEF Item
      <4>6. item' \in [Slots -> Item] /\ \A t \in Slots : item'[t].used = item[t].used
        BY <2>2, <4>2, <4>4, <4>5
      <4>7. DataInv'
        BY <1>0, <4>1, <4>6, FramesRewritten
      <4> QED
        BY <4>1, <4>7 DEF readyVars
    <3> QED
      BY <3>1, <3>2
  <2>4. LoopInv'
    BY <1>0, <1>14, <1>c, <2>1, <2>3 DEF WriteAccepted, LoopInv
  <2> QED
    BY <2>3, <2>4 DEF IInv
<1>15. ASSUME WriteBlocked
       PROVE  IInv'
  <2>1. cur \in Peers /\ ready[cur] /\ writer[cur] = TRUE
    BY <1>0, <1>15 DEF WriteBlocked, LoopInv, DataInv, DataType, ReadyExact
  <2>2. writer' = [writer EXCEPT ![cur] = TRUE]
    BY <1>0, <1>15, <2>1 DEF WriteBlocked, DataInv, DataType
  <2>3. DataInv'
    <3>1. TRUE \in BOOLEAN /\ FALSE \in BOOLEAN
      OBVIOUS
    <3>2. /\ UNCHANGED <<poolVars, reported>> /\ busy' = [busy EXCEPT ![cur] = TRUE]
          /\ SetReady(cur, FALSE, TRUE)
      BY <1>15 DEF WriteBlocked
    <3> QED
      BY <1>0, <2>1, <2>2, <3>1, <3>2, FlagsRewritten
  <2>4. LoopInv'
    BY <1>0, <1>15, <1>c DEF WriteBlocked, LoopInv
  <2> QED
    BY <2>3, <2>4 DEF IInv
<1>16. ASSUME UNCHANGED vars
       PROVE  IInv'
  <2>1. DataInv'
    BY <1>0, <1>16, DataUnchanged DEF vars
  <2>2. LoopInv'
    BY <1>0, <1>16 DEF vars, LoopInv, loopVars, readyVars
  <2> QED
    BY <2>1, <2>2 DEF IInv
<1> QED
  BY <1>1, <1>2, <1>3, <1>4, <1>5, <1>6, <1>7, <1>8, <1>9, <1>10, <1>11, <1>12,
     <1>13, <1>14, <1>15, <1>16 DEF Next, HandlerStep, DriveStep

-----------------------------------------------------------------------------
(***************************************************************************)
(* The theorems.                                                           *)
(***************************************************************************)

\* The invariant holds in every reachable state.
THEOREM Invariance == Spec => []IInv
<1>1. Init => IInv
  BY InitInvariant
<1>2. IInv /\ [Next]_vars => IInv'
  BY NextInvariant
<1> QED
  BY <1>1, <1>2, PTL DEF Spec

\* Type correctness: no queue and no counter of the transmit side exceeds its
\* configured capacity, whatever the capacities are.
THEOREM TypeCorrect == Spec => []TypeOK
<1>1. IInv => TypeOK
  BY CounterBounds DEF IInv, DataInv, DataType, LoopInv, TypeOK
<1> QED
  BY <1>1, Invariance, PTL

\* tx_ready_count is exact at every point of every loop.
THEOREM ReadyCountCorrect == Spec => []ReadyCountExact
<1>1. IInv => ReadyCountExact
  BY DEF IInv, DataInv
<1> QED
  BY <1>1, Invariance, PTL

\* A peer is ready exactly when something can be written to it.
THEOREM WakeupsKept == Spec => []NoLostWakeup
<1>1. IInv => NoLostWakeup
  BY DEF IInv, DataInv, LoopInv, ReadyExact, NoLostWakeup
<1> QED
  BY <1>1, Invariance, PTL

\* No frame outlives the writer stream it was queued for.
THEOREM NothingForClosedStreams == Spec => []NoFrameWithoutWriter
<1>1. IInv => NoFrameWithoutWriter
  BY DEF IInv, DataInv
<1> QED
  BY <1>1, Invariance, PTL

\* The slots of the table are never leaked, shared or miscounted.
THEOREM SlotsNeverLeaked == Spec => []SlotsOwned
<1>1. IInv => SlotsOwned
  BY DEF IInv, DataInv
<1> QED
  BY <1>1, Invariance, PTL

-----------------------------------------------------------------------------
(***************************************************************************)
(* What may leave a queue.                                                 *)
(***************************************************************************)

\* What StartedFrameKept says of one step.
FrameKept(p, i) ==
    item[queue[p][i]].pos > 0 /\ ~item'[queue[p][i]].used
        => ~writer'[p] \/ (pc = "write" /\ cur = p /\ i = 1)

\* A step that frees no slot keeps every frame.
LEMMA NothingFreed ==
    ASSUME DataInv, \A s \in Slots : item[s].used => item'[s].used
    PROVE  \A p \in Peers : \A i \in 1 .. Len(queue[p]) : FrameKept(p, i)
<1>1. \A p \in Peers : \A i \in 1 .. Len(queue[p]) :
        queue[p][i] \in Slots /\ item[queue[p][i]].used
  <2> TAKE p \in Peers
  <2> TAKE i \in 1 .. Len(queue[p])
  <2>1. queue[p][i] \in Slots
    BY ElementOfSeq DEF DataInv, DataType
  <2> QED
    BY <2>1 DEF DataInv, SlotsOwned
<1> QED
  BY <1>1 DEF FrameKept

\* gossipsub_tx_remove keeps every frame but the one it is called for, which may be
\* removed if nothing of it is on the wire or it is the head being written.
LEMMA RemoveKeepsFrames ==
    ASSUME DataInv, NEW r \in Peers, NEW k \in 1 .. Len(queue[r]), TxRemove(r, k),
           item[queue[r][k]].pos = 0 \/ (pc = "write" /\ cur = r /\ k = 1)
    PROVE  \A p \in Peers : \A i \in 1 .. Len(queue[p]) : FrameKept(p, i)
<1> TAKE p \in Peers
<1> TAKE i \in 1 .. Len(queue[p])
<1>1. queue[p][i] \in Slots /\ queue[r][k] \in Slots
  BY ElementOfSeq DEF DataInv, DataType
<1>2. CASE queue[p][i] = queue[r][k]
  <2>1. p = r /\ i = k
    BY <1>2 DEF DataInv, SlotsOwned
  <2> QED
    BY <2>1 DEF FrameKept
<1>3. CASE queue[p][i] # queue[r][k]
  <2>1. item' = [item EXCEPT ![queue[r][k]] = FreeItem]
    BY DEF TxRemove
  <2>2. item'[queue[p][i]] = item[queue[p][i]]
    BY <1>1, <1>3, <2>1 DEF DataInv, DataType
  <2>3. item[queue[p][i]].used
    BY <1>1 DEF DataInv, SlotsOwned
  <2> QED
    BY <2>2, <2>3 DEF FrameKept
<1> QED
  BY <1>2, <1>3

\* Every step keeps the started frames.
LEMMA StepKeepsFrames ==
    ASSUME IInv, Next
    PROVE  \A p \in Peers : \A i \in 1 .. Len(queue[p]) : FrameKept(p, i)
<1>0. DataInv /\ LoopInv
  BY DEF IInv
<1>t. item \in [Slots -> Item]
  BY <1>0 DEF DataInv, DataType
<1>u. ASSUME item' = item
      PROVE  \A p \in Peers : \A i \in 1 .. Len(queue[p]) : FrameKept(p, i)
  BY <1>0, <1>u, NothingFreed
<1>e. ASSUME NEW p \in Peers, NEW rpc \in Rpcs, EnqueueRpc(p, rpc)
      PROVE  \A s \in Slots : item[s].used => item'[s].used
  <2>1. rpc.used
    BY RpcType
  <2>2. PICK f : item' = [item EXCEPT ![f] = rpc]
    BY <1>e DEF EnqueueRpc
  <2> QED
    BY <1>t, <2>1, <2>2
<1>1. ASSUME NEW r \in Peers, NEW rpc \in Rpcs, Enqueue(r, rpc)
      PROVE  \A p \in Peers : \A i \in 1 .. Len(queue[p]) : FrameKept(p, i)
  BY <1>0, <1>1, <1>e, NothingFreed DEF Enqueue
<1>2. ASSUME Announce
      PROVE  \A p \in Peers : \A i \in 1 .. Len(queue[p]) : FrameKept(p, i)
  <2>1. cur \in Peers /\ ControlRpc \in Rpcs
    BY <1>0 DEF LoopInv, Rpcs
  <2> QED
    BY <1>0, <1>2, <1>e, <1>u, <2>1, NothingFreed DEF Announce, poolVars
<1>3. ASSUME NEW r \in Peers, CloseWriter(r)
      PROVE  \A p \in Peers : \A i \in 1 .. Len(queue[p]) : FrameKept(p, i)
  <2> TAKE p \in Peers
  <2> TAKE i \in 1 .. Len(queue[p])
  <2>1. queue[p][i] \in Slots /\ item[queue[p][i]].used
    BY <1>0, ElementOfSeq DEF DataInv, DataType, SlotsOwned
  <2>2. CASE p = r
    <3>1. ~writer'[p]
      BY <1>0, <1>3, <2>2 DEF CloseWriter, DataInv, DataType
    <3> QED
      BY <3>1 DEF FrameKept
  <2>3. CASE p # r
    <3>1. queue[p][i] \notin {queue[r][j] : j \in 1 .. Len(queue[r])}
      BY <1>0, <2>3 DEF DataInv, SlotsOwned
    <3>2. item'[queue[p][i]] = item[queue[p][i]]
      BY <1>3, <2>1, <3>1 DEF CloseWriter
    <3> QED
      BY <2>1, <3>2 DEF FrameKept
  <2> QED
    BY <2>2, <2>3
<1>4. ASSUME NEW elapsed \in {0, 1}, Drive(elapsed)
      PROVE  \A p \in Peers : \A i \in 1 .. Len(queue[p]) : FrameKept(p, i)
  <2>1. \A it \in Item : Aged(it, elapsed).used = it.used
    BY DEF Aged, Item
  <2>2. \A s \in Slots : item'[s].used = item[s].used
    BY <1>4, <1>t, <2>1 DEF Drive
  <2> QED
    BY <1>0, <2>2, NothingFreed
<1>5. ASSUME DropItem
      PROVE  \A p \in Peers : \A i \in 1 .. Len(queue[p]) : FrameKept(p, i)
  <2>1. cur \in Peers
    BY <1>0 DEF LoopInv
  <2>2. PICK k \in 1 .. Len(queue[cur]) : Droppable(queue[cur][k]) /\ TxRemove(cur, k)
    BY <1>5 DEF DropItem
  <2> QED
    BY <1>0, <2>1, <2>2, RemoveKeepsFrames DEF Droppable
<1>6. ASSUME DropStale
      PROVE  \A p \in Peers : \A i \in 1 .. Len(queue[p]) : FrameKept(p, i)
  <2>1. PICK r \in Peers : \E k \in 1 .. Len(queue[r]) : Stale(queue[r][k]) /\ TxRemove(r, k)
    BY <1>6 DEF DropStale
  <2>2. PICK k \in 1 .. Len(queue[r]) : Stale(queue[r][k]) /\ TxRemove(r, k)
    BY <2>1
  <2> QED
    BY <1>0, <2>2, RemoveKeepsFrames DEF Stale
<1>7. ASSUME NEW n \in 1 .. FrameLen, WriteAccepted(n)
      PROVE  \A p \in Peers : \A i \in 1 .. Len(queue[p]) : FrameKept(p, i)
  <2>1. pc = "write" /\ cur \in Peers /\ queue[cur] # <<>>
    BY <1>0, <1>7 DEF WriteAccepted, LoopInv, DataInv, ReadyExact
  <2>2. 1 \in 1 .. Len(queue[cur])
    <3>1. queue[cur] \in Seq(Slots)
      BY <1>0, <2>1 DEF DataInv, DataType
    <3> QED
      BY <2>1, <3>1, EmptySeq, LenProperties
  <2>3. CASE TxRemove(cur, 1)
    BY <1>0, <2>1, <2>2, <2>3, RemoveKeepsFrames
  <2>4. CASE item' = [item EXCEPT ![queue[cur][1]].pos = @ + n]
    <3>1. \A s \in Slots : item'[s].used = item[s].used
      BY <1>t, <2>4 DEF Item
    <3> QED
      BY <1>0, <3>1, NothingFreed
  <2> QED
    BY <1>7, <2>3, <2>4 DEF WriteAccepted
<1>8. ASSUME \/ \E r \in Peers : \/ IdontwantRefused(r) \/ OpenWriter(r) \/ Writable(r)
                                \/ \E m \in Msgs : DropQueuedPublish(r, m)
             \/ AnnounceDone \/ DropDone \/ DropStaleDone \/ HeartbeatDone \/ Visit
             \/ FlushDone \/ WriteBlocked \/ WriteFailed
      PROVE  \A p \in Peers : \A i \in 1 .. Len(queue[p]) : FrameKept(p, i)
  <2>1. item' = item
    BY <1>8 DEF IdontwantRefused, OpenWriter, Writable, DropQueuedPublish, AnnounceDone,
                DropDone, DropStaleDone, HeartbeatDone, Visit, FlushDone, WriteBlocked,
                WriteFailed, poolVars
  <2> QED
    BY <1>u, <2>1
<1> QED
  BY <1>1, <1>2, <1>3, <1>4, <1>5, <1>6, <1>7, <1>8 DEF Next, HandlerStep, DriveStep

\* Neither a passed deadline nor an IDONTWANT removes a frame that is partly on the
\* wire (gossipsub_tx_item_stale, gossipsub_drop_queued_publish).
THEOREM StartedFramesKept == Spec => StartedFrameKept
<1>1. IInv /\ [Next]_vars =>
        [\A p \in Peers : \A i \in 1 .. Len(queue[p]) :
            item[queue[p][i]].pos > 0 /\ ~item'[queue[p][i]].used
                => ~writer'[p] \/ (pc = "write" /\ cur = p /\ i = 1)]_vars
  BY StepKeepsFrames DEF FrameKept
<1> QED
  BY <1>1, Invariance, PTL DEF Spec, StartedFrameKept

=============================================================================
