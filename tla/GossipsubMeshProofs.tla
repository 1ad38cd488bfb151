------------------------- MODULE GossipsubMeshProofs -------------------------
(***************************************************************************)
(* Proofs about GossipsubMesh, for every number of peers and topics, every *)
(* capacity of the tables and every mesh parameter.                        *)
(***************************************************************************)
EXTENDS GossipsubMesh, FiniteSetTheorems, TLAPS

-----------------------------------------------------------------------------
(***************************************************************************)
(* The inductive invariant, one part for each group of variables.          *)
(***************************************************************************)

\* The tables of topics and subscriptions.
Tables ==
    /\ topicCount \in 0 .. MaxTopics
    /\ local \subseteq 0 .. topicCount - 1
    /\ edges \subseteq Pairs /\ Cardinality(edges) <= MaxPeerTopics
    /\ subscribed \subseteq edges
    /\ explicit \subseteq Peers

\* The mesh and its counter.
MeshInv ==
    /\ mesh \subseteq Pairs /\ Cardinality(mesh) <= MaxMeshEdges
    /\ meshCount = Cardinality(mesh)
    /\ \A pair \in mesh : pair[2] \in local

Used == {v \in Pairs : backoff[v] # NoBackoff}

\* The backoffs: what is owed to a pair is in its entry, unless a live entry was
\* given up.
BackoffInv ==
    /\ backoff \in [Pairs -> Nat \cup {NoBackoff}]
    /\ Cardinality(Used) <= MaxBackoffs
    /\ owed \in [Pairs -> Nat]
    /\ lost \in BOOLEAN
    /\ lost \/ \A pair \in Pairs : owed[pair] = 0 \/ owed[pair] <= backoff[pair]

\* Streams, frames and what was announced.
Marks ==
    /\ writer \subseteq Peers /\ served \subseteq Peers
    /\ result \in {"ok", "limit", "state"}
    /\ sent \in Frame \cup {NoFrame}
    /\ told \subseteq writer \X Topics
    /\ refused \in BOOLEAN

\* Where a loop can be, and what it relies on.
LoopInv ==
    /\ pc \in {"idle", "fill", "trim", "announce", "open", "heartbeat", "gossip"}
    /\ cont \in {"return", "heartbeat", "subscribe", "unsubscribe"}
    /\ cur \in Nat /\ next \in Nat
    /\ pc \in {"fill", "trim", "announce"} => cur < topicCount
    /\ pc = "fill" => cur \in local /\ cont \in {"return", "heartbeat"}
    /\ pc = "trim" => cont \in {"heartbeat", "unsubscribe"}
    /\ pc = "announce" =>
         /\ next <= MaxPeers
         /\ cont \in {"subscribe", "unsubscribe"}
         /\ cont = "subscribe" <=> cur \in local
    /\ pc = "open" => cur \in writer
    /\ pc \in {"open", "heartbeat", "gossip"} => next <= topicCount
    /\ pc \in {"fill", "trim"} /\ cont = "heartbeat" => next < topicCount

\* A pair the announcement loop has yet to come to.
Ahead(p, t) ==
    \/ pc = "announce" /\ t = cur /\ p >= next
    \/ pc = "open" /\ p = cur /\ t >= next /\ <<p, t>> \notin told

\* Every peer knows what it should, but for the pairs still ahead.
ToldInv ==
    ~refused => \A p \in Peers, t \in Topics :
                    Ahead(p, t) \/ (<<p, t>> \in told <=> p \in writer /\ t \in local)

IInv == Tables /\ MeshInv /\ BackoffInv /\ Marks /\ LoopInv /\ ToldInv

-----------------------------------------------------------------------------
(***************************************************************************)
(* The table operations.                                                   *)
(***************************************************************************)

\* There are finitely many pairs, so the cardinalities of the tables are numbers.
LEMMA PairsFinite ==
    /\ IsFiniteSet(Pairs)
    /\ \A S : S \subseteq Pairs => IsFiniteSet(S) /\ Cardinality(S) \in Nat
<1>0. 0 \in Int /\ MaxPeers - 1 \in Int /\ MaxTopics - 1 \in Int
  BY MeshAssumption
<1>1. IsFiniteSet(Peers) /\ IsFiniteSet(Topics)
  BY <1>0, FS_Interval DEF Peers, Topics
<1>2. IsFiniteSet(Pairs)
  BY <1>1, FS_Product DEF Pairs
<1> QED
  BY <1>2, FS_Subset, FS_CardinalityType

\* Nobody is in the mesh of t when the count of t is zero.
LEMMA CountZero ==
    ASSUME MeshInv, NEW t \in Topics, Count(t) <= 0
    PROVE  \A pair \in mesh : pair[2] # t
<1> DEFINE S == {p \in Peers : MeshContains(p, t)}
<1>1. IsFiniteSet(Peers)
  BY MeshAssumption, FS_Interval DEF Peers
<1>2. IsFiniteSet(S) /\ Cardinality(S) \in Nat
  BY <1>1, FS_Subset, FS_CardinalityType
<1>3. S = {}
  BY <1>2, FS_EmptySet DEF Count
<1> QED
  BY <1>3 DEF MeshInv, Pairs, MeshContains

\* gossipsub_mesh_add keeps the counter exact.
LEMMA MeshAddKeeps ==
    ASSUME MeshInv, NEW p \in Peers, NEW t \in Topics, t \in local, ~MeshContains(p, t),
           Cardinality(mesh) < MaxMeshEdges, MeshAdd(p, t), local \subseteq local'
    PROVE  MeshInv'
<1>1. IsFiniteSet(mesh) /\ Cardinality(mesh) \in Nat
  BY PairsFinite DEF MeshInv
<1>2. <<p, t>> \in Pairs
  BY DEF Pairs
<1>3. Cardinality(mesh \cup {<<p, t>>}) = Cardinality(mesh) + 1
  BY <1>1, FS_AddElement DEF MeshContains
<1> QED
  BY <1>1, <1>2, <1>3, MeshAssumption DEF MeshAdd, MeshInv

\* gossipsub_mesh_remove keeps it exact, whether or not the edge is there.
LEMMA MeshRemoveKeeps ==
    ASSUME MeshInv, NEW p \in Peers, NEW t \in Topics, MeshRemove(p, t), UNCHANGED local
    PROVE  MeshInv'
<1>1. IsFiniteSet(mesh) /\ Cardinality(mesh) \in Nat
  BY PairsFinite DEF MeshInv
<1>2. Cardinality(mesh \ {<<p, t>>}) =
        IF <<p, t>> \in mesh THEN Cardinality(mesh) - 1 ELSE Cardinality(mesh)
  BY <1>1, FS_RemoveElement
<1> QED
  BY <1>1, <1>2, MeshAssumption DEF MeshRemove, MeshInv, MeshContains

\* gossipsub_mesh_remove_peer takes as much off the counter as edges are removed.
LEMMA MeshRemovePeerKeeps ==
    ASSUME MeshInv, NEW p \in Peers, MeshRemovePeer(p), UNCHANGED local
    PROVE  MeshInv'
<1> DEFINE gone == {pair \in mesh : pair[1] = p}
<1>1. IsFiniteSet(mesh) /\ Cardinality(mesh) \in Nat
  BY PairsFinite DEF MeshInv
<1>2. IsFiniteSet(gone) /\ Cardinality(gone) \in Nat /\ Cardinality(gone) <= Cardinality(mesh)
  BY <1>1, FS_Subset, FS_CardinalityType
<1>3. Cardinality(mesh \ gone) = Cardinality(mesh) - Cardinality(gone)
  <2>1. mesh \cap gone = gone
    OBVIOUS
  <2> QED
    BY <1>1, <2>1, FS_Difference
<1>4. mesh' = mesh \ gone /\ meshCount' = meshCount - Cardinality(gone)
  BY DEF MeshRemovePeer
<1> HIDE DEF gone
<1> QED
  BY <1>1, <1>2, <1>3, <1>4, MeshAssumption DEF MeshInv

\* gossipsub_backoff_add keeps what is owed, or marks that a live entry was given
\* up, and never exceeds the table.
LEMMA BackoffAddKeeps ==
    ASSUME BackoffInv, NEW p \in Peers, NEW t \in Topics, NEW left \in Nat \ {0},
           BackoffAdd(p, t, left)
    PROVE  BackoffInv'
<1> DEFINE pair == <<p, t>>
<1>0. pair \in Pairs
  BY DEF Pairs
<1>1. /\ backoff' \in BackoffWith(pair, left)
      /\ owed' = [owed EXCEPT ![pair] = MaxOf(@, left)]
      /\ lost' = (lost \/ \E v \in Pairs : backoff[v] > 0 /\ backoff'[v] = NoBackoff)
  BY DEF BackoffAdd
<1>2. IsFiniteSet(Used) /\ Cardinality(Used) \in Nat
  BY PairsFinite DEF Used
<1> HIDE DEF pair
<1>3. owed' \in [Pairs -> Nat] /\ lost' \in BOOLEAN
  BY <1>0, <1>1 DEF BackoffInv, MaxOf
<1>4. owed'[pair] = MaxOf(owed[pair], left) /\ \A w \in Pairs \ {pair} : owed'[w] = owed[w]
  BY <1>0, <1>1 DEF BackoffInv
<1>5. CASE pair \in Used
  <2>1. backoff' = [backoff EXCEPT ![pair] = MaxOf(@, left)]
    BY <1>1, <1>5 DEF BackoffWith, Used
  <2>2. backoff[pair] \in Nat
    BY <1>0, <1>5 DEF BackoffInv, Used
  <2>3. /\ backoff' \in [Pairs -> Nat \cup {NoBackoff}]
        /\ backoff'[pair] = MaxOf(backoff[pair], left)
        /\ \A w \in Pairs \ {pair} : backoff'[w] = backoff[w]
    BY <1>0, <2>1, <2>2 DEF BackoffInv, MaxOf
  <2>4. Used' = Used
    BY <1>5, <2>2, <2>3 DEF Used, MaxOf, NoBackoff
  <2>5. ASSUME NEW w \in Pairs, ~lost'
        PROVE  owed'[w] = 0 \/ owed'[w] <= backoff'[w]
    <3>1. ~lost /\ (owed[w] = 0 \/ owed[w] <= backoff[w])
      BY <1>1, <2>5 DEF BackoffInv
    <3>2. CASE w = pair
      BY <1>4, <2>2, <2>3, <3>1, <3>2 DEF MaxOf, BackoffInv
    <3> QED
      BY <1>4, <2>3, <3>1, <3>2
  <2> QED
    BY <1>3, <2>3, <2>4, <2>5 DEF BackoffInv
<1>6. CASE pair \notin Used
  <2>0. backoff[pair] = NoBackoff
    BY <1>0, <1>6 DEF Used
  <2>1. ASSUME NEW w \in Pairs, ~lost', backoff' \in [Pairs -> Nat \cup {NoBackoff}],
               backoff'[pair] = left,
               w # pair => backoff'[w] = backoff[w] \/ backoff'[w] = NoBackoff
        PROVE  owed'[w] = 0 \/ owed'[w] <= backoff'[w]
    <3>1. ~lost /\ (owed[w] = 0 \/ owed[w] <= backoff[w]) /\ (owed[pair] = 0 \/ owed[pair] <= backoff[pair])
      BY <1>0, <1>1, <2>1 DEF BackoffInv
    <3>2. CASE w = pair
      <4>1. owed[pair] = 0
        BY <1>0, <2>0, <3>1 DEF NoBackoff, BackoffInv
      <4> QED
        BY <1>4, <2>1, <3>2, <4>1 DEF MaxOf
    <3>3. CASE w # pair /\ backoff'[w] = backoff[w]
      BY <1>4, <3>1, <3>3
    <3>4. CASE w # pair /\ backoff'[w] = NoBackoff
      <4>1. ~(backoff[w] > 0)
        BY <1>1, <2>1, <3>4
      <4>2. owed[w] \in Nat /\ (backoff[w] \in Nat \/ backoff[w] = -1)
        BY DEF BackoffInv, NoBackoff
      <4>3. owed[w] = 0
        BY <3>1, <4>1, <4>2
      <4> QED
        BY <1>4, <3>4, <4>3
    <3> QED
      BY <2>1, <3>2, <3>3, <3>4
  <2>2. CASE Cardinality(Used) < MaxBackoffs
    <3>1. backoff' = [backoff EXCEPT ![pair] = left]
      BY <1>1, <1>6, <2>2 DEF BackoffWith, Used
    <3>2. /\ backoff' \in [Pairs -> Nat \cup {NoBackoff}]
          /\ backoff'[pair] = left
          /\ \A w \in Pairs \ {pair} : backoff'[w] = backoff[w]
      BY <1>0, <3>1 DEF BackoffInv
    <3>3. Used' = Used \cup {pair}
      BY <1>0, <3>2 DEF Used, NoBackoff
    <3>4. Cardinality(Used') = Cardinality(Used) + 1
      BY <1>2, <1>6, <3>3, FS_AddElement
    <3>5. Cardinality(Used') <= MaxBackoffs
      BY <1>2, <2>2, <3>4, MeshAssumption
    <3>6. \A w \in Pairs : ~lost' => owed'[w] = 0 \/ owed'[w] <= backoff'[w]
      BY <2>1, <3>2
    <3> QED
      BY <1>3, <3>2, <3>5, <3>6 DEF BackoffInv
  <2>3. CASE ~(Cardinality(Used) < MaxBackoffs)
    <3>1. PICK v \in Used : backoff' = [backoff EXCEPT ![v] = NoBackoff, ![pair] = left]
      BY <1>1, <1>6, <2>3 DEF BackoffWith, Used
    <3>2. v \in Pairs /\ v # pair
      BY <1>6 DEF Used
    <3>3. /\ backoff' \in [Pairs -> Nat \cup {NoBackoff}]
          /\ backoff'[pair] = left /\ backoff'[v] = NoBackoff
          /\ \A w \in Pairs \ {pair, v} : backoff'[w] = backoff[w]
      BY <1>0, <3>1, <3>2 DEF BackoffInv
    <3>4. Used' = (Used \ {v}) \cup {pair}
      BY <1>0, <3>2, <3>3 DEF Used, NoBackoff
    <3>5. IsFiniteSet(Used \ {v}) /\ Cardinality(Used \ {v}) = Cardinality(Used) - 1
      BY <1>2, FS_RemoveElement
    <3>6. Cardinality(Used') = Cardinality(Used)
      <4>1. pair \notin Used \ {v}
        BY <1>6
      <4>2. Cardinality(Used') = Cardinality(Used \ {v}) + 1
        BY <3>4, <3>5, <4>1, FS_AddElement
      <4> QED
        BY <1>2, <3>5, <4>2
    <3>7. \A w \in Pairs : ~lost' => owed'[w] = 0 \/ owed'[w] <= backoff'[w]
      BY <2>1, <3>3
    <3> QED
      BY <1>3, <3>3, <3>6, <3>7 DEF BackoffInv
  <2> QED
    BY <2>2, <2>3
<1> QED
  BY <1>5, <1>6

\* Time runs for an entry as it does for what is owed, and a heartbeat clears only
\* what is over.
LEMMA BackoffAges ==
    ASSUME BackoffInv, NEW elapsed \in {0, 1}, UNCHANGED lost,
           owed' = [pair \in Pairs |-> Older(owed[pair], elapsed)],
           \/ backoff' = [pair \in Pairs |-> Older(backoff[pair], elapsed)]
           \/ backoff' = [pair \in Pairs |->
                            IF backoff[pair] <= elapsed THEN NoBackoff ELSE backoff[pair] - elapsed]
    PROVE  BackoffInv'
<1>1. ASSUME NEW v \in Pairs
      PROVE  /\ backoff'[v] \in Nat \cup {NoBackoff} /\ owed'[v] \in Nat
             /\ backoff[v] = NoBackoff => backoff'[v] = NoBackoff
             /\ owed[v] = 0 \/ owed[v] <= backoff[v] => owed'[v] = 0 \/ owed'[v] <= backoff'[v]
  <2>1. (backoff[v] \in Nat \/ backoff[v] = -1) /\ owed[v] \in Nat
    BY DEF BackoffInv, NoBackoff
  <2>2. owed'[v] = Older(owed[v], elapsed)
    OBVIOUS
  <2>3. \/ backoff'[v] = Older(backoff[v], elapsed)
        \/ backoff'[v] = IF backoff[v] <= elapsed THEN NoBackoff ELSE backoff[v] - elapsed
    OBVIOUS
  <2> QED
    BY <2>1, <2>2, <2>3 DEF Older, NoBackoff
<1>2. Used' \subseteq Used
  BY <1>1 DEF Used
<1>3. Cardinality(Used') <= Cardinality(Used) /\ Cardinality(Used) \in Nat /\ Cardinality(Used') \in Nat
  <2>1. IsFiniteSet(Used) /\ Cardinality(Used) \in Nat /\ Cardinality(Used') \in Nat
    BY PairsFinite, <1>2 DEF Used
  <2> QED
    BY <1>2, <2>1, FS_Subset
<1>4. backoff' \in [Pairs -> Nat \cup {NoBackoff}] /\ owed' \in [Pairs -> Nat]
  BY <1>1
<1>5. Cardinality(Used') <= MaxBackoffs
  BY <1>3, MeshAssumption DEF BackoffInv
<1> QED
  BY <1>1, <1>4, <1>5 DEF BackoffInv

-----------------------------------------------------------------------------
(***************************************************************************)
(* Initial states and steps.                                               *)
(***************************************************************************)

\* Empty tables.
LEMMA InitInvariant == Init => IInv
<1> SUFFICES ASSUME Init PROVE IInv
  OBVIOUS
<1>1. Cardinality({}) = 0
  BY FS_EmptySet
<1>2. Used = {}
  BY DEF Used, Init
<1>3. Tables
  BY <1>1, MeshAssumption DEF Init, Tables
<1>4. MeshInv
  BY <1>1, MeshAssumption DEF Init, MeshInv
<1>5. BackoffInv
  <2>1. Cardinality(Used) <= MaxBackoffs
    BY <1>1, <1>2, MeshAssumption
  <2>2. backoff \in [Pairs -> Nat \cup {NoBackoff}] /\ owed \in [Pairs -> Nat]
    BY DEF Init
  <2>3. \A pair \in Pairs : owed[pair] = 0
    BY DEF Init
  <2> QED
    BY <2>1, <2>2, <2>3 DEF Init, BackoffInv
<1>6. Marks
  BY DEF Init, Marks
<1>7. LoopInv
  BY DEF Init, LoopInv
<1>8. ToldInv
  BY DEF Init, ToldInv, Ahead
<1> QED
  BY <1>3, <1>4, <1>5, <1>6, <1>7, <1>8 DEF IInv

\* Every step keeps the invariant.
LEMMA NextInvariant == IInv /\ [Next]_vars => IInv'
<1> SUFFICES ASSUME IInv, [Next]_vars PROVE IInv'
  OBVIOUS
<1>0. Tables /\ MeshInv /\ BackoffInv /\ Marks /\ LoopInv /\ ToldInv
  BY DEF IInv
<1>c. /\ MaxPeers \in Nat \ {0} /\ MaxTopics \in Nat \ {0} /\ MaxBackoffs \in Nat \ {0}
      /\ PruneBackoff \in Nat \ {0} /\ MaxPeerTopics \in Nat /\ MaxMeshEdges \in Nat
      /\ PeerBackoffs \subseteq Nat \ {0}
  BY MeshAssumption
<1> USE DEF Send, SendNothing
<1>1. ASSUME NEW p \in Peers, FillAdd(p)
      PROVE  IInv'
  <2>1. Tables'
    BY <1>0, <1>1 DEF FillAdd, Tables, tableVars
  <2>2. MeshInv'
    BY <1>0, <1>c, <1>1, MeshAddKeeps DEF FillAdd, LoopInv, Tables, tableVars, RankedPeer,
       MayRankFirst, Candidate, Topics
  <2>3. BackoffInv'
    BY <1>0, <1>1 DEF FillAdd, BackoffInv, backoffVars, Used
  <2>4. Marks'
    BY <1>0, <1>c, <1>1 DEF FillAdd, Marks, LoopInv, Tables, loopVars, Frame, Topics
  <2>5. LoopInv'
    BY <1>0, <1>1 DEF FillAdd, LoopInv, tableVars, loopVars
  <2>6. ToldInv'
    BY <1>0, <1>1 DEF FillAdd, ToldInv, Ahead, tableVars
  <2> QED
    BY <2>1, <2>2, <2>3, <2>4, <2>5, <2>6 DEF IInv
<1>2. ASSUME FillStop
      PROVE  IInv'
  <2>1. Tables'
    BY <1>0, <1>2 DEF FillStop, Tables, tableVars
  <2>2. MeshInv'
    BY <1>0, <1>2 DEF FillStop, MeshInv, meshVars, tableVars
  <2>3. BackoffInv'
    BY <1>0, <1>2 DEF FillStop, BackoffInv, backoffVars, Used
  <2>4. Marks'
    BY <1>0, <1>2 DEF FillStop, Marks, Return, Enter, Fail
  <2>5. LoopInv'
    BY <1>0, <1>2 DEF FillStop, LoopInv, Tables, tableVars, Return, Enter, Fail
  <2>6. ToldInv'
    BY <1>0, <1>2 DEF FillStop, ToldInv
  <2> QED
    BY <2>1, <2>2, <2>3, <2>4, <2>5, <2>6 DEF IInv
<1>3. ASSUME FillDone
      PROVE  IInv'
  <2>1. Tables'
    BY <1>0, <1>3 DEF FillDone, Tables, tableVars
  <2>2. MeshInv'
    BY <1>0, <1>3 DEF FillDone, MeshInv, meshVars, tableVars
  <2>3. BackoffInv'
    BY <1>0, <1>3 DEF FillDone, BackoffInv, backoffVars, Used
  <2>4. Marks'
    BY <1>0, <1>3 DEF FillDone, Marks, Return, Enter
  <2>5. LoopInv'
    BY <1>0, <1>3 DEF FillDone, LoopInv, Tables, tableVars, Return, Enter
  <2>6. ToldInv'
    BY <1>0, <1>3 DEF FillDone, ToldInv, Ahead, tableVars
  <2> QED
    BY <2>1, <2>2, <2>3, <2>4, <2>5, <2>6 DEF IInv
<1>4. ASSUME NEW p \in Peers, TrimOne(p)
      PROVE  IInv'
  <2>1. Tables'
    BY <1>0, <1>4 DEF TrimOne, Tables, tableVars
  <2>2. MeshInv'
    BY <1>0, <1>c, <1>4, MeshRemoveKeeps DEF TrimOne, LoopInv, Tables, tableVars, Topics
  <2>3. BackoffInv'
    BY <1>0, <1>c, <1>4, BackoffAddKeeps DEF TrimOne, LoopInv, Tables, Topics
  <2>4. Marks'
    BY <1>0, <1>c, <1>4 DEF TrimOne, Marks, LoopInv, Tables, loopVars, Frame, Topics
  <2>5. LoopInv'
    BY <1>0, <1>4 DEF TrimOne, LoopInv, tableVars, loopVars
  <2>6. ToldInv'
    BY <1>0, <1>4 DEF TrimOne, ToldInv, Ahead, tableVars
  <2> QED
    BY <2>1, <2>2, <2>3, <2>4, <2>5, <2>6 DEF IInv
<1>5. ASSUME NEW p \in Peers, TrimStop(p)
      PROVE  IInv'
  <2>1. Tables'
    BY <1>0, <1>5 DEF TrimStop, Tables, tableVars
  <2>2. MeshInv'
    BY <1>0, <1>5 DEF TrimStop, MeshInv, meshVars, tableVars
  <2>3. BackoffInv'
    BY <1>0, <1>5 DEF TrimStop, BackoffInv, backoffVars, Used
  <2>4. Marks'
    BY <1>0, <1>5 DEF TrimStop, Marks, Return, Enter, Fail
  <2>5. LoopInv'
    BY <1>0, <1>5 DEF TrimStop, LoopInv, Tables, tableVars, Return, Enter, Fail
  <2>6. ToldInv'
    BY <1>0, <1>5 DEF TrimStop, ToldInv
  <2> QED
    BY <2>1, <2>2, <2>3, <2>4, <2>5, <2>6 DEF IInv
<1>6. ASSUME NEW p \in Peers, TrimNoWriter(p)
      PROVE  IInv'
  <2>1. Tables'
    BY <1>0, <1>6 DEF TrimNoWriter, Tables, tableVars
  <2>2. MeshInv'
    BY <1>0, <1>6 DEF TrimNoWriter, MeshInv, meshVars, tableVars
  <2>3. BackoffInv'
    BY <1>0, <1>6 DEF TrimNoWriter, BackoffInv, backoffVars, Used
  <2>4. Marks'
    BY <1>0, <1>6 DEF TrimNoWriter, Marks, Return, Enter, Fail
  <2>5. LoopInv'
    BY <1>0, <1>6 DEF TrimNoWriter, LoopInv, Tables, tableVars, Return, Enter, Fail
  <2>6. ToldInv'
    BY <1>0, <1>6 DEF TrimNoWriter, ToldInv, Ahead, tableVars
  <2> QED
    BY <2>1, <2>2, <2>3, <2>4, <2>5, <2>6 DEF IInv
<1>7. ASSUME TrimDone
      PROVE  IInv'
  <2>1. Tables'
    BY <1>0, <1>7 DEF TrimDone, Tables
  <2>2. MeshInv'
    <3>1. mesh' = mesh /\ meshCount' = meshCount
      BY <1>7 DEF TrimDone, meshVars
    <3>2. CASE cont = "heartbeat"
      BY <1>0, <1>7, <3>1, <3>2 DEF TrimDone, MeshInv
    <3>3. CASE cont # "heartbeat"
      <4>1. local' = local \ {cur} /\ cur \in Topics /\ Count(cur) <= 0
        BY <1>0, <1>c, <1>7, <3>3 DEF TrimDone, TrimOver, TrimTarget, LoopInv, Tables, Topics
      <4>2. \A pair \in mesh : pair[2] # cur
        BY <1>0, <4>1, CountZero
      <4> QED
        BY <1>0, <3>1, <4>1, <4>2 DEF MeshInv
    <3> QED
      BY <3>2, <3>3
  <2>3. BackoffInv'
    BY <1>0, <1>7 DEF TrimDone, BackoffInv, backoffVars, Used
  <2>4. Marks'
    BY <1>0, <1>7 DEF TrimDone, Marks, Enter
  <2>5. LoopInv'
    BY <1>0, <1>c, <1>7 DEF TrimDone, LoopInv, Tables, Enter
  <2>6. ToldInv'
    <3> SUFFICES ASSUME ~refused', NEW q \in Peers, NEW u \in Topics
                 PROVE  Ahead(q, u)' \/ (<<q, u>> \in told' <=> q \in writer' /\ u \in local')
      BY DEF ToldInv
    <3>1. ~refused /\ told' = told /\ writer' = writer /\ pc = "trim"
      BY <1>7 DEF TrimDone
    <3>2. <<q, u>> \in told <=> q \in writer /\ u \in local
      BY <1>0, <3>1 DEF ToldInv, Ahead
    <3>3. CASE cont = "heartbeat"
      BY <1>7, <3>2, <3>3 DEF TrimDone
    <3>4. CASE cont # "heartbeat"
      BY <1>7, <3>2 DEF TrimDone, Enter, Ahead, Peers
    <3> QED
      BY <3>3, <3>4
  <2> QED
    BY <2>1, <2>2, <2>3, <2>4, <2>5, <2>6 DEF IInv
<1>8. ASSUME NEW t \in Topics, Subscribe(t)
      PROVE  IInv'
  <2>1. Tables'
    BY <1>0, <1>c, <1>8 DEF Subscribe, Tables, FindOrAdd, TopicCountWith, Topics
  <2>2. MeshInv'
    BY <1>0, <1>8 DEF Subscribe, MeshInv, meshVars
  <2>3. BackoffInv'
    BY <1>0, <1>8 DEF Subscribe, BackoffInv, backoffVars, Used
  <2>4. Marks'
    BY <1>0, <1>8 DEF Subscribe, Marks, Enter
  <2>5. LoopInv'
    BY <1>0, <1>c, <1>8 DEF Subscribe, LoopInv, Enter, FindOrAdd, TopicCountWith, Topics
  <2>6. ToldInv'
    <3> SUFFICES ASSUME ~refused', NEW q \in Peers, NEW u \in Topics
                 PROVE  Ahead(q, u)' \/ (<<q, u>> \in told' <=> q \in writer' /\ u \in local')
      BY DEF ToldInv
    <3>1. ~refused /\ told' = told /\ writer' = writer /\ pc = "idle" /\ local' = local \cup {t}
      BY <1>8 DEF Subscribe
    <3>2. <<q, u>> \in told <=> q \in writer /\ u \in local
      BY <1>0, <3>1 DEF ToldInv, Ahead
    <3>3. pc' = "announce" /\ cur' = t /\ next' = 0
      BY <1>8 DEF Subscribe, Enter
    <3> QED
      BY <3>1, <3>2, <3>3 DEF Ahead, Peers
  <2> QED
    BY <2>1, <2>2, <2>3, <2>4, <2>5, <2>6 DEF IInv
<1>9. ASSUME NEW t \in Topics, Unsubscribe(t)
      PROVE  IInv'
  <2>1. Tables'
    BY <1>0, <1>9 DEF Unsubscribe, Tables, tableVars
  <2>2. MeshInv'
    BY <1>0, <1>9 DEF Unsubscribe, MeshInv, meshVars, tableVars
  <2>3. BackoffInv'
    BY <1>0, <1>9 DEF Unsubscribe, BackoffInv, backoffVars, Used
  <2>4. Marks'
    BY <1>0, <1>9 DEF Unsubscribe, Marks, Enter
  <2>5. LoopInv'
    BY <1>0, <1>9 DEF Unsubscribe, LoopInv, tableVars, Enter, Topics
  <2>6. ToldInv'
    BY <1>0, <1>9 DEF Unsubscribe, ToldInv, Ahead, tableVars
  <2> QED
    BY <2>1, <2>2, <2>3, <2>4, <2>5, <2>6 DEF IInv
<1>10. ASSUME Announce
       PROVE  IInv'
  <2>1. Tables'
    BY <1>0, <1>10 DEF Announce, Tables, tableVars
  <2>2. MeshInv'
    BY <1>0, <1>10 DEF Announce, MeshInv, meshVars, tableVars
  <2>3. BackoffInv'
    BY <1>0, <1>10 DEF Announce, BackoffInv, backoffVars, Used
  <2>4. Marks'
    BY <1>0, <1>c, <1>10 DEF Announce, Marks, LoopInv, Tables, Frame, Topics
  <2>5. LoopInv'
    BY <1>0, <1>c, <1>10 DEF Announce, LoopInv, tableVars
  <2>6. ToldInv'
    <3> SUFFICES ASSUME ~refused', NEW q \in Peers, NEW u \in Topics
                 PROVE  Ahead(q, u)' \/ (<<q, u>> \in told' <=> q \in writer' /\ u \in local')
      BY DEF ToldInv
    <3>1. /\ ~refused /\ writer' = writer /\ local' = local /\ pc = "announce" /\ pc' = "announce"
          /\ cur' = cur /\ next' = next + 1
      BY <1>10 DEF Announce, tableVars
    <3>2. (u = cur /\ q >= next) \/ (<<q, u>> \in told <=> q \in writer /\ u \in local)
      BY <1>0, <3>1 DEF ToldInv, Ahead
    <3>3. CASE u = cur /\ q > next
      BY <1>0, <3>1, <3>3 DEF Ahead, LoopInv, Peers
    <3>4. CASE u = cur /\ q = next
      <4>1. <<q, u>> \in told => q \in writer
        BY <1>0 DEF Marks
      <4> QED
        BY <1>0, <1>10, <3>1, <3>4, <4>1 DEF Announce, LoopInv
    <3>5. CASE ~(u = cur /\ q >= next)
      <4>1. <<q, u>> # <<next, cur>>
        BY <1>0, <3>5 DEF LoopInv
      <4>2. <<q, u>> \in told' <=> <<q, u>> \in told
        BY <1>10, <4>1 DEF Announce
      <4> QED
        BY <3>1, <3>2, <3>5, <4>2
    <3> QED
      BY <1>0, <3>3, <3>4, <3>5 DEF LoopInv, Peers
  <2> QED
    BY <2>1, <2>2, <2>3, <2>4, <2>5, <2>6 DEF IInv
<1>11. ASSUME AnnounceStop
       PROVE  IInv'
  <2>1. Tables'
    BY <1>0, <1>11 DEF AnnounceStop, Tables, tableVars
  <2>2. MeshInv'
    BY <1>0, <1>11 DEF AnnounceStop, MeshInv, meshVars, tableVars
  <2>3. BackoffInv'
    BY <1>0, <1>11 DEF AnnounceStop, BackoffInv, backoffVars, Used
  <2>4. Marks'
    BY <1>0, <1>11 DEF AnnounceStop, Marks, Return
  <2>5. LoopInv'
    BY <1>0, <1>11 DEF AnnounceStop, LoopInv, Return
  <2>6. ToldInv'
    BY <1>0, <1>11 DEF AnnounceStop, ToldInv
  <2> QED
    BY <2>1, <2>2, <2>3, <2>4, <2>5, <2>6 DEF IInv
<1>12. ASSUME AnnounceDone
       PROVE  IInv'
  <2>1. Tables'
    BY <1>0, <1>12 DEF AnnounceDone, Tables, tableVars
  <2>2. MeshInv'
    BY <1>0, <1>12 DEF AnnounceDone, MeshInv, meshVars, tableVars
  <2>3. BackoffInv'
    BY <1>0, <1>12 DEF AnnounceDone, BackoffInv, backoffVars, Used
  <2>4. Marks'
    BY <1>0, <1>12 DEF AnnounceDone, Marks, Return, Enter
  <2>5. LoopInv'
    BY <1>0, <1>12 DEF AnnounceDone, LoopInv, tableVars, Return, Enter
  <2>6. ToldInv'
    <3> SUFFICES ASSUME ~refused', NEW q \in Peers, NEW u \in Topics
                 PROVE  Ahead(q, u)' \/ (<<q, u>> \in told' <=> q \in writer' /\ u \in local')
      BY DEF ToldInv
    <3>1. ~refused /\ told' = told /\ writer' = writer /\ local' = local /\ pc = "announce"
      BY <1>12 DEF AnnounceDone, tableVars
    <3>2. ~(q >= next)
      BY <1>c, <1>12 DEF AnnounceDone, Peers
    <3> QED
      BY <1>0, <3>1, <3>2 DEF ToldInv, Ahead
  <2> QED
    BY <2>1, <2>2, <2>3, <2>4, <2>5, <2>6 DEF IInv
<1>13. ASSUME NEW p \in Peers, NEW t \in Topics, NEW on \in BOOLEAN, RecvSubscription(p, t, on)
       PROVE  IInv'
  <2>1. Tables'
    <3>1. <<p, t>> \in Pairs
      BY DEF Pairs
    <3>2. Cardinality(edges) \in Nat /\ IsFiniteSet(edges)
      BY <1>0, PairsFinite DEF Tables
    <3>3. Cardinality(edges \cup {<<p, t>>}) =
            IF <<p, t>> \in edges THEN Cardinality(edges) ELSE Cardinality(edges) + 1
      BY <3>2, FS_AddElement
    <3>4. edges' \subseteq Pairs /\ Cardinality(edges') <= MaxPeerTopics
      BY <1>0, <1>c, <1>13, <3>1, <3>2, <3>3 DEF RecvSubscription, PeerTopicRoom, Tables
    <3>5. subscribed' \subseteq edges'
      BY <1>0, <1>13 DEF RecvSubscription, Tables
    <3>6. topicCount' \in 0 .. MaxTopics /\ local' \subseteq 0 .. topicCount' - 1
      BY <1>0, <1>c, <1>13 DEF RecvSubscription, Tables, TopicCountWith, Topics
    <3> QED
      BY <1>0, <1>13, <3>4, <3>6 DEF RecvSubscription, Tables
  <2>2. MeshInv'
    <3>1. local' = local
      BY <1>13 DEF RecvSubscription
    <3>2. CASE MeshRemove(p, t)
      BY <1>0, <3>1, <3>2, MeshRemoveKeeps
    <3>3. CASE UNCHANGED meshVars
      BY <1>0, <3>1, <3>3 DEF MeshInv, meshVars
    <3> QED
      BY <1>13, <3>2, <3>3 DEF RecvSubscription
  <2>3. BackoffInv'
    BY <1>0, <1>13 DEF RecvSubscription, BackoffInv, backoffVars, Used
  <2>4. Marks'
    BY <1>0, <1>13 DEF RecvSubscription, Marks, loopVars, Enter
  <2>5. LoopInv'
    BY <1>0, <1>13 DEF RecvSubscription, LoopInv, Tables, loopVars, Enter, TopicCountWith,
       Topics
  <2>6. ToldInv'
    BY <1>0, <1>13 DEF RecvSubscription, ToldInv, Ahead
  <2> QED
    BY <2>1, <2>2, <2>3, <2>4, <2>5, <2>6 DEF IInv
<1>14. ASSUME NEW p \in Peers, NEW t \in Topics, RecvGraftAccept(p, t)
       PROVE  IInv'
  <2>1. Tables'
    BY <1>0, <1>c, <1>14 DEF RecvGraftAccept, Tables, TopicCountWith, Topics
  <2>2. MeshInv'
    <3>1. local' = local /\ t \in local
      BY <1>14 DEF RecvGraftAccept, GraftWanted
    <3>2. CASE MeshContains(p, t) \/ Cardinality(mesh) = MaxMeshEdges
      BY <1>0, <1>14, <3>2 DEF RecvGraftAccept, MeshInv, meshVars
    <3>3. CASE ~(MeshContains(p, t) \/ Cardinality(mesh) = MaxMeshEdges)
      <4>1. Cardinality(mesh) \in Nat
        BY <1>0, PairsFinite DEF MeshInv
      <4>2. Cardinality(mesh) < MaxMeshEdges
        BY <1>0, <1>c, <3>3, <4>1 DEF MeshInv
      <4> QED
        BY <1>0, <1>14, <3>1, <3>3, <4>2, MeshAddKeeps DEF RecvGraftAccept
    <3> QED
      BY <3>2, <3>3
  <2>3. BackoffInv'
    BY <1>0, <1>14 DEF RecvGraftAccept, BackoffInv, backoffVars, Used
  <2>4. Marks'
    BY <1>0, <1>14 DEF RecvGraftAccept, Marks, loopVars
  <2>5. LoopInv'
    BY <1>0, <1>14 DEF RecvGraftAccept, LoopInv, loopVars
  <2>6. ToldInv'
    BY <1>0, <1>14 DEF RecvGraftAccept, ToldInv, Ahead
  <2> QED
    BY <2>1, <2>2, <2>3, <2>4, <2>5, <2>6 DEF IInv
<1>15. ASSUME NEW p \in Peers, NEW t \in Topics, RecvGraftPrune(p, t)
       PROVE  IInv'
  <2>1. Tables'
    BY <1>0, <1>c, <1>15 DEF RecvGraftPrune, Tables, TopicCountWith, Topics
  <2>2. MeshInv'
    BY <1>0, <1>15 DEF RecvGraftPrune, MeshInv, meshVars
  <2>3. BackoffInv'
    BY <1>0, <1>c, <1>15, BackoffAddKeeps DEF RecvGraftPrune
  <2>4. Marks'
    BY <1>0, <1>15 DEF RecvGraftPrune, Marks, loopVars, Frame
  <2>5. LoopInv'
    BY <1>0, <1>15 DEF RecvGraftPrune, LoopInv, loopVars
  <2>6. ToldInv'
    BY <1>0, <1>15 DEF RecvGraftPrune, ToldInv, Ahead
  <2> QED
    BY <2>1, <2>2, <2>3, <2>4, <2>5, <2>6 DEF IInv
<1>16. ASSUME NEW p \in Peers, NEW t \in Topics, RecvGraftDrop(p, t)
       PROVE  IInv'
  <2>1. Tables'
    BY <1>0, <1>c, <1>16 DEF RecvGraftDrop, Tables, TopicCountWith, Topics
  <2>2. MeshInv'
    BY <1>0, <1>16 DEF RecvGraftDrop, MeshInv, meshVars
  <2>3. BackoffInv'
    BY <1>0, <1>16 DEF RecvGraftDrop, BackoffInv, backoffVars, Used
  <2>4. Marks'
    BY <1>0, <1>16 DEF RecvGraftDrop, Marks, loopVars
  <2>5. LoopInv'
    BY <1>0, <1>16 DEF RecvGraftDrop, LoopInv, loopVars
  <2>6. ToldInv'
    BY <1>0, <1>16 DEF RecvGraftDrop, ToldInv, Ahead
  <2> QED
    BY <2>1, <2>2, <2>3, <2>4, <2>5, <2>6 DEF IInv
<1>17. ASSUME NEW p \in Peers, NEW t \in Topics, NEW left \in PeerBackoffs \cup {PruneBackoff}, RecvPrune(p, t, left)
       PROVE  IInv'
  <2>1. Tables'
    BY <1>0, <1>17 DEF RecvPrune, Tables, tableVars
  <2>2. MeshInv'
    BY <1>0, <1>17, MeshRemoveKeeps DEF RecvPrune, tableVars
  <2>3. BackoffInv'
    BY <1>0, <1>c, <1>17, BackoffAddKeeps DEF RecvPrune
  <2>4. Marks'
    BY <1>0, <1>17 DEF RecvPrune, Marks, loopVars
  <2>5. LoopInv'
    BY <1>0, <1>17 DEF RecvPrune, LoopInv, loopVars
  <2>6. ToldInv'
    BY <1>0, <1>17 DEF RecvPrune, ToldInv, Ahead, tableVars
  <2> QED
    BY <2>1, <2>2, <2>3, <2>4, <2>5, <2>6 DEF IInv
<1>18. ASSUME NEW p \in Peers, OpenWriter(p)
       PROVE  IInv'
  <2>1. Tables'
    BY <1>0, <1>18 DEF OpenWriter, Tables, tableVars
  <2>2. MeshInv'
    BY <1>0, <1>18 DEF OpenWriter, MeshInv, meshVars, tableVars
  <2>3. BackoffInv'
    BY <1>0, <1>18 DEF OpenWriter, BackoffInv, backoffVars, Used
  <2>4. Marks'
    BY <1>0, <1>18 DEF OpenWriter, Marks
  <2>5. LoopInv'
    <3>1. /\ pc' = "open" /\ cur' = p /\ next' = 0 /\ cont' = "return" /\ p \in writer'
          /\ topicCount' = topicCount
      BY <1>18 DEF OpenWriter, tableVars
    <3>2. p \in Nat
      BY DEF Peers
    <3> QED
      BY <1>0, <3>1, <3>2 DEF LoopInv, Tables
  <2>6. ToldInv'
    <3> SUFFICES ASSUME ~refused', NEW q \in Peers, NEW u \in Topics
                 PROVE  Ahead(q, u)' \/ (<<q, u>> \in told' <=> q \in writer' /\ u \in local')
      BY DEF ToldInv
    <3>1. /\ ~refused /\ told' = told /\ writer' = writer \cup {p} /\ local' = local
          /\ pc = "idle" /\ pc' = "open" /\ cur' = p /\ next' = 0 /\ p \notin writer
      BY <1>18 DEF OpenWriter, tableVars
    <3>2. <<q, u>> \in told <=> q \in writer /\ u \in local
      BY <1>0, <3>1 DEF ToldInv, Ahead
    <3>3. u >= 0
      BY DEF Topics
    <3> QED
      BY <3>1, <3>2, <3>3 DEF Ahead
  <2> QED
    BY <2>1, <2>2, <2>3, <2>4, <2>5, <2>6 DEF IInv
<1>19. ASSUME OpenAnnounce
       PROVE  IInv'
  <2>1. Tables'
    BY <1>0, <1>19 DEF OpenAnnounce, Tables, tableVars
  <2>2. MeshInv'
    BY <1>0, <1>19 DEF OpenAnnounce, MeshInv, meshVars, tableVars
  <2>3. BackoffInv'
    BY <1>0, <1>19 DEF OpenAnnounce, BackoffInv, backoffVars, Used
  <2>4. Marks'
    BY <1>0, <1>c, <1>19 DEF OpenAnnounce, Marks, LoopInv, Tables, Frame, Topics
  <2>5. LoopInv'
    BY <1>0, <1>19 DEF OpenAnnounce, LoopInv, Tables, tableVars
  <2>6. ToldInv'
    <3> SUFFICES ASSUME ~refused', NEW q \in Peers, NEW u \in Topics
                 PROVE  Ahead(q, u)' \/ (<<q, u>> \in told' <=> q \in writer' /\ u \in local')
      BY DEF ToldInv
    <3>1. /\ ~refused /\ writer' = writer /\ local' = local /\ pc = "open" /\ pc' = "open"
          /\ cur' = cur /\ next' = next + 1 /\ cur \in writer
      BY <1>0, <1>19 DEF OpenAnnounce, tableVars, LoopInv
    <3>2. \/ q = cur /\ u >= next /\ <<q, u>> \notin told
          \/ <<q, u>> \in told <=> q \in writer /\ u \in local
      BY <1>0, <3>1 DEF ToldInv, Ahead
    <3>3. CASE q = cur /\ u = next
      BY <1>19, <3>1, <3>2, <3>3 DEF OpenAnnounce
    <3>4. CASE ~(q = cur /\ u = next)
      <4>1. <<q, u>> \in told' <=> <<q, u>> \in told
        BY <1>19, <3>4 DEF OpenAnnounce
      <4>2. u \in Int /\ next \in Int
        BY <1>0 DEF Topics, LoopInv
      <4> QED
        BY <3>1, <3>2, <3>4, <4>1, <4>2 DEF Ahead
    <3> QED
      BY <3>3, <3>4
  <2> QED
    BY <2>1, <2>2, <2>3, <2>4, <2>5, <2>6 DEF IInv
<1>20. ASSUME OpenRefused
       PROVE  IInv'
  <2>1. Tables'
    BY <1>0, <1>20 DEF OpenRefused, Tables, tableVars
  <2>2. MeshInv'
    BY <1>0, <1>20 DEF OpenRefused, MeshInv, meshVars, tableVars
  <2>3. BackoffInv'
    BY <1>0, <1>20 DEF OpenRefused, BackoffInv, backoffVars, Used
  <2>4. Marks'
    BY <1>0, <1>20 DEF OpenRefused, Marks
  <2>5. LoopInv'
    BY <1>0, <1>20 DEF OpenRefused, LoopInv, Tables, tableVars
  <2>6. ToldInv'
    BY <1>0, <1>20 DEF OpenRefused, ToldInv
  <2> QED
    BY <2>1, <2>2, <2>3, <2>4, <2>5, <2>6 DEF IInv
<1>21. ASSUME OpenDone
       PROVE  IInv'
  <2>1. Tables'
    BY <1>0, <1>21 DEF OpenDone, Tables, tableVars
  <2>2. MeshInv'
    BY <1>0, <1>21 DEF OpenDone, MeshInv, meshVars, tableVars
  <2>3. BackoffInv'
    BY <1>0, <1>21 DEF OpenDone, BackoffInv, backoffVars, Used
  <2>4. Marks'
    BY <1>0, <1>21 DEF OpenDone, Marks, Return
  <2>5. LoopInv'
    BY <1>0, <1>21 DEF OpenDone, LoopInv, Return
  <2>6. ToldInv'
    <3> SUFFICES ASSUME ~refused', NEW q \in Peers, NEW u \in Topics
                 PROVE  Ahead(q, u)' \/ (<<q, u>> \in told' <=> q \in writer' /\ u \in local')
      BY DEF ToldInv
    <3>1. ~refused /\ told' = told /\ writer' = writer /\ local' = local /\ pc = "open"
      BY <1>21 DEF OpenDone, tableVars
    <3>2. u \in local => ~(u >= next)
      BY <1>0, <1>21 DEF OpenDone, Tables
    <3> QED
      BY <1>0, <3>1, <3>2 DEF ToldInv, Ahead
  <2> QED
    BY <2>1, <2>2, <2>3, <2>4, <2>5, <2>6 DEF IInv
<1>22. ASSUME NEW p \in Peers, PeerClosed(p)
       PROVE  IInv'
  <2>1. Tables'
    BY <1>0, <1>22 DEF PeerClosed, Tables, tableVars
  <2>2. MeshInv'
    BY <1>0, <1>22, MeshRemovePeerKeeps DEF PeerClosed, tableVars
  <2>3. BackoffInv'
    BY <1>0, <1>22 DEF PeerClosed, BackoffInv, backoffVars, Used
  <2>4. Marks'
    BY <1>0, <1>22 DEF PeerClosed, Marks, loopVars
  <2>5. LoopInv'
    BY <1>0, <1>22 DEF PeerClosed, LoopInv, loopVars
  <2>6. ToldInv'
    BY <1>0, <1>22 DEF PeerClosed, ToldInv, Ahead, tableVars
  <2> QED
    BY <2>1, <2>2, <2>3, <2>4, <2>5, <2>6 DEF IInv
<1>23. ASSUME NEW elapsed \in {0, 1}, DriveBetween(elapsed)
       PROVE  IInv'
  <2>1. Tables'
    BY <1>0, <1>23 DEF DriveBetween, Tables, tableVars
  <2>2. MeshInv'
    BY <1>0, <1>23 DEF DriveBetween, MeshInv, meshVars, tableVars
  <2>3. BackoffInv'
    BY <1>0, <1>23, BackoffAges DEF DriveBetween
  <2>4. Marks'
    BY <1>0, <1>23 DEF DriveBetween, Marks, loopVars
  <2>5. LoopInv'
    BY <1>0, <1>23 DEF DriveBetween, LoopInv, loopVars
  <2>6. ToldInv'
    BY <1>0, <1>23 DEF DriveBetween, ToldInv, Ahead, tableVars
  <2> QED
    BY <2>1, <2>2, <2>3, <2>4, <2>5, <2>6 DEF IInv
<1>24. ASSUME NEW elapsed \in {0, 1}, Heartbeat(elapsed)
       PROVE  IInv'
  <2>1. Tables'
    BY <1>0, <1>24 DEF Heartbeat, Tables, tableVars
  <2>2. MeshInv'
    BY <1>0, <1>24 DEF Heartbeat, MeshInv, meshVars, tableVars
  <2>3. BackoffInv'
    BY <1>0, <1>24, BackoffAges DEF Heartbeat
  <2>4. Marks'
    BY <1>0, <1>24 DEF Heartbeat, Marks, Enter
  <2>5. LoopInv'
    BY <1>0, <1>24 DEF Heartbeat, LoopInv, Tables, tableVars, Enter
  <2>6. ToldInv'
    BY <1>0, <1>24 DEF Heartbeat, ToldInv, Ahead, tableVars
  <2> QED
    BY <2>1, <2>2, <2>3, <2>4, <2>5, <2>6 DEF IInv
<1>25. ASSUME HeartbeatTopic
       PROVE  IInv'
  <2>1. Tables'
    BY <1>0, <1>25 DEF HeartbeatTopic, Tables, tableVars
  <2>2. MeshInv'
    BY <1>0, <1>25 DEF HeartbeatTopic, MeshInv, meshVars, tableVars
  <2>3. BackoffInv'
    BY <1>0, <1>25 DEF HeartbeatTopic, BackoffInv, backoffVars, Used
  <2>4. Marks'
    BY <1>0, <1>25 DEF HeartbeatTopic, Marks, Enter
  <2>5. LoopInv'
    BY <1>0, <1>25 DEF HeartbeatTopic, LoopInv, Tables, tableVars, Enter
  <2>6. ToldInv'
    BY <1>0, <1>25 DEF HeartbeatTopic, ToldInv, Ahead, tableVars
  <2> QED
    BY <2>1, <2>2, <2>3, <2>4, <2>5, <2>6 DEF IInv
<1>26. ASSUME HeartbeatDone
       PROVE  IInv'
  <2>1. Tables'
    BY <1>0, <1>26 DEF HeartbeatDone, Tables, tableVars
  <2>2. MeshInv'
    BY <1>0, <1>26 DEF HeartbeatDone, MeshInv, meshVars, tableVars
  <2>3. BackoffInv'
    BY <1>0, <1>26 DEF HeartbeatDone, BackoffInv, backoffVars, Used
  <2>4. Marks'
    BY <1>0, <1>26 DEF HeartbeatDone, Marks, Enter
  <2>5. LoopInv'
    BY <1>0, <1>26 DEF HeartbeatDone, LoopInv, tableVars, Enter
  <2>6. ToldInv'
    BY <1>0, <1>26 DEF HeartbeatDone, ToldInv, Ahead, tableVars
  <2> QED
    BY <2>1, <2>2, <2>3, <2>4, <2>5, <2>6 DEF IInv
<1>27. ASSUME NEW p \in Peers, GossipSend(p)
       PROVE  IInv'
  <2>1. Tables'
    BY <1>0, <1>27 DEF GossipSend, Tables, tableVars
  <2>2. MeshInv'
    BY <1>0, <1>27 DEF GossipSend, MeshInv, meshVars, tableVars
  <2>3. BackoffInv'
    BY <1>0, <1>27 DEF GossipSend, BackoffInv, backoffVars, Used
  <2>4. Marks'
    <3>1. next \in Topics
      BY <1>0, <1>c, <1>27 DEF GossipSend, GossipPending, Tables, Topics
    <3> QED
      BY <1>0, <1>27, <3>1 DEF GossipSend, Marks, Frame
  <2>5. LoopInv'
    BY <1>0, <1>27 DEF GossipSend, LoopInv, tableVars
  <2>6. ToldInv'
    BY <1>0, <1>27 DEF GossipSend, ToldInv, Ahead, tableVars
  <2> QED
    BY <2>1, <2>2, <2>3, <2>4, <2>5, <2>6 DEF IInv
<1>28. ASSUME GossipRefused
       PROVE  IInv'
  <2>1. Tables'
    BY <1>0, <1>28 DEF GossipRefused, Tables, tableVars
  <2>2. MeshInv'
    BY <1>0, <1>28 DEF GossipRefused, MeshInv, meshVars, tableVars
  <2>3. BackoffInv'
    BY <1>0, <1>28 DEF GossipRefused, BackoffInv, backoffVars, Used
  <2>4. Marks'
    BY <1>0, <1>28 DEF GossipRefused, Marks, Return
  <2>5. LoopInv'
    BY <1>0, <1>28 DEF GossipRefused, LoopInv, Return
  <2>6. ToldInv'
    BY <1>0, <1>28 DEF GossipRefused, ToldInv
  <2> QED
    BY <2>1, <2>2, <2>3, <2>4, <2>5, <2>6 DEF IInv
<1>29. ASSUME GossipNothing
       PROVE  IInv'
  <2>1. Tables'
    BY <1>0, <1>29 DEF GossipNothing, Tables, tableVars
  <2>2. MeshInv'
    BY <1>0, <1>29 DEF GossipNothing, MeshInv, meshVars, tableVars
  <2>3. BackoffInv'
    BY <1>0, <1>29 DEF GossipNothing, BackoffInv, backoffVars, Used
  <2>4. Marks'
    BY <1>0, <1>29 DEF GossipNothing, Marks, Return
  <2>5. LoopInv'
    BY <1>0, <1>29 DEF GossipNothing, LoopInv, Return
  <2>6. ToldInv'
    <3> SUFFICES ASSUME ~refused', NEW q \in Peers, NEW u \in Topics
                 PROVE  Ahead(q, u)' \/ (<<q, u>> \in told' <=> q \in writer' /\ u \in local')
      BY DEF ToldInv
    <3>1. ~refused /\ told' = told /\ writer' = writer /\ local' = local /\ pc = "gossip"
      BY <1>29 DEF GossipNothing, GossipPending, tableVars
    <3> QED
      BY <1>0, <3>1 DEF ToldInv, Ahead
  <2> QED
    BY <2>1, <2>2, <2>3, <2>4, <2>5, <2>6 DEF IInv
<1>30. ASSUME GossipNextTopic
       PROVE  IInv'
  <2>1. Tables'
    BY <1>0, <1>30 DEF GossipNextTopic, Tables, tableVars
  <2>2. MeshInv'
    BY <1>0, <1>30 DEF GossipNextTopic, MeshInv, meshVars, tableVars
  <2>3. BackoffInv'
    BY <1>0, <1>30 DEF GossipNextTopic, BackoffInv, backoffVars, Used
  <2>4. Marks'
    BY <1>0, <1>30 DEF GossipNextTopic, Marks
  <2>5. LoopInv'
    BY <1>0, <1>30 DEF GossipNextTopic, LoopInv, Tables, tableVars
  <2>6. ToldInv'
    BY <1>0, <1>30 DEF GossipNextTopic, ToldInv, Ahead, tableVars
  <2> QED
    BY <2>1, <2>2, <2>3, <2>4, <2>5, <2>6 DEF IInv
<1>31. ASSUME GossipDone
       PROVE  IInv'
  <2>1. Tables'
    BY <1>0, <1>31 DEF GossipDone, Tables, tableVars
  <2>2. MeshInv'
    BY <1>0, <1>31 DEF GossipDone, MeshInv, meshVars, tableVars
  <2>3. BackoffInv'
    BY <1>0, <1>31 DEF GossipDone, BackoffInv, backoffVars, Used
  <2>4. Marks'
    BY <1>0, <1>31 DEF GossipDone, Marks, Return
  <2>5. LoopInv'
    BY <1>0, <1>31 DEF GossipDone, LoopInv, Return
  <2>6. ToldInv'
    BY <1>0, <1>31 DEF GossipDone, ToldInv, Ahead, tableVars
  <2> QED
    BY <2>1, <2>2, <2>3, <2>4, <2>5, <2>6 DEF IInv
<1>32. ASSUME NEW p \in Peers, NEW on \in BOOLEAN, SetPeerExplicit(p, on)
       PROVE  IInv'
  <2>1. Tables'
    BY <1>0, <1>32 DEF SetPeerExplicit, Tables
  <2>2. MeshInv'
    BY <1>0, <1>32 DEF SetPeerExplicit, MeshInv, meshVars
  <2>3. BackoffInv'
    BY <1>0, <1>32 DEF SetPeerExplicit, BackoffInv, backoffVars, Used
  <2>4. Marks'
    BY <1>0, <1>32 DEF SetPeerExplicit, Marks, loopVars
  <2>5. LoopInv'
    BY <1>0, <1>32 DEF SetPeerExplicit, LoopInv, loopVars
  <2>6. ToldInv'
    BY <1>0, <1>32 DEF SetPeerExplicit, ToldInv, Ahead
  <2> QED
    BY <2>1, <2>2, <2>3, <2>4, <2>5, <2>6 DEF IInv
<1>33. ASSUME UNCHANGED vars
       PROVE  IInv'
  BY <1>0, <1>33 DEF IInv, vars, tableVars, meshVars, backoffVars, loopVars, Tables, MeshInv,
     BackoffInv, Used, Marks, LoopInv, ToldInv, Ahead
<1> QED
  BY <1>1, <1>2, <1>3, <1>4, <1>5, <1>6, <1>7, <1>8, <1>9, <1>10, <1>11, <1>12, <1>13, <1>14,
     <1>15, <1>16, <1>17, <1>18, <1>19, <1>20, <1>21, <1>22, <1>23, <1>24, <1>25, <1>26,
     <1>27, <1>28, <1>29, <1>30, <1>31, <1>32, <1>33 DEF Next, LoopStep, LoopStop, Recv

\* A pair joins the mesh in the fill of a heartbeat or a subscription and when a
\* GRAFT is accepted; both look at its backoff first.
LEMMA JoinsAfterBackoff ==
    IInv /\ [Next]_vars => \A pair \in mesh' \ mesh : owed[pair] = 0 \/ lost
<1> SUFFICES ASSUME IInv, [Next]_vars, NEW pair \in mesh' \ mesh
             PROVE  owed[pair] = 0 \/ lost
  OBVIOUS
<1>1. BackoffInv /\ LoopInv /\ Tables
  BY DEF IInv
<1>2. ASSUME NEW p \in Peers, NEW t \in Topics, pair = <<p, t>>, ~BackoffActive(p, t)
      PROVE  owed[pair] = 0 \/ lost
  <2>1. pair \in Pairs
    BY <1>2 DEF Pairs
  <2>2. ~(backoff[pair] > 0) /\ owed[pair] \in Nat
        /\ (backoff[pair] \in Nat \/ backoff[pair] = -1)
    BY <1>1, <1>2, <2>1 DEF BackoffActive, BackoffInv, NoBackoff
  <2> QED
    BY <1>1, <2>1, <2>2 DEF BackoffInv
<1>3. ASSUME NEW p \in Peers, FillAdd(p)
      PROVE  owed[pair] = 0 \/ lost
  <2>1. pair = <<p, cur>> /\ ~BackoffActive(p, cur)
    BY <1>3 DEF FillAdd, MeshAdd, RankedPeer, MayRankFirst, Candidate
  <2>2. cur \in Topics
    BY <1>1, <1>3, MeshAssumption DEF FillAdd, LoopInv, Tables, Topics
  <2> QED
    BY <1>2, <2>1, <2>2
<1>4. ASSUME NEW p \in Peers, NEW t \in Topics, RecvGraftAccept(p, t)
      PROVE  owed[pair] = 0 \/ lost
  <2>1. pair = <<p, t>> /\ ~BackoffActive(p, t)
    BY <1>4 DEF RecvGraftAccept, GraftWanted, MeshAdd, meshVars
  <2> QED
    BY <1>2, <2>1
<1>5. ASSUME mesh' \subseteq mesh
      PROVE  FALSE
  BY <1>5
<1>6. ASSUME LoopStep, ~\E p \in Peers : FillAdd(p)
      PROVE  mesh' \subseteq mesh
  BY <1>6 DEF LoopStep, TrimOne, TrimNoWriter, FillDone, TrimDone, Announce, AnnounceDone,
     OpenAnnounce, OpenDone, HeartbeatTopic, HeartbeatDone, GossipSend, GossipNothing,
     GossipNextTopic, GossipDone, MeshRemove, meshVars
<1>7. ASSUME LoopStop
      PROVE  mesh' \subseteq mesh
  BY <1>7 DEF LoopStop, FillStop, AnnounceStop, OpenRefused, GossipRefused, TrimStop, meshVars
<1>8. ASSUME NEW p \in Peers, NEW t \in Topics, Recv(p, t), ~RecvGraftAccept(p, t)
      PROVE  mesh' \subseteq mesh
  BY <1>8 DEF Recv, RecvSubscription, RecvGraftPrune, RecvGraftDrop, RecvPrune, MeshRemove, meshVars
<1>9. ASSUME NEW t \in Topics, Subscribe(t) \/ Unsubscribe(t)
      PROVE  mesh' \subseteq mesh
  BY <1>9 DEF Subscribe, Unsubscribe, meshVars
<1>10. ASSUME NEW p \in Peers,
              OpenWriter(p) \/ PeerClosed(p) \/ \E on \in BOOLEAN : SetPeerExplicit(p, on)
       PROVE  mesh' \subseteq mesh
  BY <1>10 DEF OpenWriter, PeerClosed, SetPeerExplicit, MeshRemovePeer, meshVars
<1>11. ASSUME NEW elapsed \in {0, 1}, DriveBetween(elapsed) \/ Heartbeat(elapsed)
       PROVE  mesh' \subseteq mesh
  BY <1>11 DEF DriveBetween, Heartbeat, meshVars
<1>12. ASSUME UNCHANGED vars
       PROVE  mesh' \subseteq mesh
  BY <1>12 DEF vars, meshVars
<1> QED
  BY <1>3, <1>4, <1>5, <1>6, <1>7, <1>8, <1>9, <1>10, <1>11, <1>12 DEF Next

-----------------------------------------------------------------------------
(***************************************************************************)
(* The theorems.                                                           *)
(***************************************************************************)

\* The invariant holds in every reachable state.
THEOREM Invariance == Spec => []IInv
<1>1. Init => IInv
  BY InitInvariant
<1>2. IInv /\ [Next]_vars => IInv'
  BY NextInvariant
<1> QED
  BY <1>1, <1>2, PTL DEF Spec

\* Type correctness: no table of the router exceeds its configured capacity and
\* every frame it queues names a peer slot and a topic slot.
THEOREM TypeCorrect == Spec => []TypeOK
<1>1. IInv => TypeOK
  <2> SUFFICES ASSUME IInv PROVE TypeOK
    OBVIOUS
  <2>1. Tables /\ MeshInv /\ BackoffInv /\ Marks /\ LoopInv
    BY DEF IInv
  <2>2. meshCount \in Nat
    BY <2>1, PairsFinite DEF MeshInv
  <2>3. told \subseteq Pairs
    BY <2>1 DEF Marks, Pairs
  <2> QED
    BY <2>1, <2>2, <2>3 DEF TypeOK, Tables, MeshInv, BackoffInv, Used, Marks, LoopInv
<1> QED
  BY <1>1, Invariance, PTL

\* mesh_peer_count is exact wherever a loop stands, and the mesh holds edges of
\* locally subscribed topics only (libp2p_gossipsub_mesh_peer_count).
THEOREM MeshCountCorrect == Spec => []MeshCountExact
<1>1. IInv => MeshCountExact
  BY DEF IInv, MeshInv, MeshCountExact
<1> QED
  BY <1>1, Invariance, PTL

\* Between calls, and as long as no queue was full, every peer with a writer stream
\* was told exactly the topics the router is subscribed to.
THEOREM PeersCorrectlyTold == Spec => []PeersTold
<1>1. IInv => PeersTold
  <2> SUFFICES ASSUME IInv, pc = "idle", ~refused
               PROVE  told = {pair \in Pairs : pair[1] \in writer /\ pair[2] \in local}
    BY DEF PeersTold
  <2>1. Marks /\ ToldInv
    BY DEF IInv
  <2>2. \A p \in Peers, t \in Topics : <<p, t>> \in told <=> p \in writer /\ t \in local
    BY <2>1 DEF ToldInv, Ahead
  <2>3. told \subseteq Pairs
    BY <2>1 DEF Marks, Pairs
  <2> QED
    BY <2>2, <2>3 DEF Pairs
<1> QED
  BY <1>1, Invariance, PTL

\* Nobody joins the mesh during a backoff that either side asked for, unless a full
\* table had to give up a live entry.
THEOREM BackoffsKept == Spec => BackoffKept
<1>1. IInv /\ [Next]_vars => [\A pair \in mesh' \ mesh : owed[pair] = 0 \/ lost]_vars
  BY JoinsAfterBackoff
<1> QED
  BY <1>1, Invariance, PTL DEF Spec, BackoffKept

=============================================================================
