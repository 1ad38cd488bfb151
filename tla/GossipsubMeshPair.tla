-------------------------- MODULE GossipsubMeshPair --------------------------
(***************************************************************************)
(* Two gossipsub routers, A and B, over one connection and one topic: the   *)
(* control frames that GossipsubMesh queues travel in order on the stream   *)
(* each side opened for writing.                                            *)
(*                                                                          *)
(* An RPC that a router answers with ERR_STATE makes the host reset the     *)
(* stream it came on (libp2p_host_drive.c), so its writer loses the stream. *)
(* A lost connection takes both streams; each side learns of it on its own. *)
(* Both routers read the same clock.                                        *)
(***************************************************************************)
EXTENDS Integers, Sequences, FiniteSets

CONSTANTS
    PruneBackoff,
    MaxInFlight      \* bound: frames on a stream

VARIABLES
    topicCountA, localA, edgesA, subscribedA, meshA, meshCountA, backoffA, writerA,
    pcA, curA, nextA, contA, servedA, resultA, sentA, toldA, refusedA, owedA, lostA,
    topicCountB, localB, edgesB, subscribedB, meshB, meshCountB, backoffB, writerB,
    pcB, curB, nextB, contB, servedB, resultB, sentB, toldB, refusedB, owedB, lostB,
    toB, toA,          \* the frames on the stream of A and on the stream of B
    up,                \* the connection is established
    closedA, closedB,  \* the router still has to be told that its stream is gone
    alone              \* history: a stream was reset while the connection was up

A == INSTANCE GossipsubMesh WITH
        MaxPeers <- 1, MaxTopics <- 1, MaxPeerTopics <- 1, MaxMeshEdges <- 1, MaxBackoffs <- 1,
        D <- 1, DLow <- 1, DHigh <- 1, DLazy <- 1, GossipFactor <- 0, PeerBackoffs <- {},
        topicCount <- topicCountA, local <- localA, edges <- edgesA, subscribed <- subscribedA,
        mesh <- meshA, meshCount <- meshCountA, backoff <- backoffA, writer <- writerA,
        pc <- pcA, cur <- curA, next <- nextA, cont <- contA, served <- servedA,
        result <- resultA, sent <- sentA, explicit <- {},
        told <- toldA, refused <- refusedA, owed <- owedA, lost <- lostA

B == INSTANCE GossipsubMesh WITH
        MaxPeers <- 1, MaxTopics <- 1, MaxPeerTopics <- 1, MaxMeshEdges <- 1, MaxBackoffs <- 1,
        D <- 1, DLow <- 1, DHigh <- 1, DLazy <- 1, GossipFactor <- 0, PeerBackoffs <- {},
        topicCount <- topicCountB, local <- localB, edges <- edgesB, subscribed <- subscribedB,
        mesh <- meshB, meshCount <- meshCountB, backoff <- backoffB, writer <- writerB,
        pc <- pcB, cur <- curB, next <- nextB, cont <- contB, served <- servedB,
        result <- resultB, sent <- sentB, explicit <- {},
        told <- toldB, refused <- refusedB, owed <- owedB, lost <- lostB

varsA == <<topicCountA, localA, edgesA, subscribedA, meshA, meshCountA, backoffA, writerA,
           pcA, curA, nextA, contA, servedA, resultA, sentA, toldA, refusedA, owedA, lostA>>
varsB == <<topicCountB, localB, edgesB, subscribedB, meshB, meshCountB, backoffB, writerB,
           pcB, curB, nextB, contB, servedB, resultB, sentB, toldB, refusedB, owedB, lostB>>
netVars == <<toA, toB, up, closedA, closedB, alone>>
vars == <<varsA, varsB, netVars>>
-----------------------------------------------------------------------------
(***************************************************************************)
(* The stream: what a step queued goes out at once, if the stream is there. *)
(* An IHAVE changes nothing in this module and is left out.                 *)
(***************************************************************************)

Membership == {"SUBSCRIBE", "UNSUBSCRIBE", "GRAFT", "PRUNE"}

OutA(stream) ==
    IF sentA'.type \in Membership /\ up /\ ~closedA THEN Append(stream, sentA'.type) ELSE stream
OutB(stream) ==
    IF sentB'.type \in Membership /\ up /\ ~closedB THEN Append(stream, sentB'.type) ELSE stream

\* A call of the application on a router, a step of a call, or a heartbeat.
LocalA ==
    /\ A!LoopStep \/ A!Subscribe(0) \/ A!Unsubscribe(0) \/ A!Heartbeat(0)
    /\ toB' = OutA(toB) /\ Len(toB') <= MaxInFlight
    /\ UNCHANGED <<varsB, toA, up, closedA, closedB, alone>>

LocalB ==
    /\ B!LoopStep \/ B!Subscribe(0) \/ B!Unsubscribe(0) \/ B!Heartbeat(0)
    /\ toA' = OutB(toA) /\ Len(toA') <= MaxInFlight
    /\ UNCHANGED <<varsA, toB, up, closedA, closedB, alone>>

\* The next frame is processed.
HandleA(type) ==
    \/ type = "SUBSCRIBE" /\ A!RecvSubscription(0, 0, TRUE)
    \/ type = "UNSUBSCRIBE" /\ A!RecvSubscription(0, 0, FALSE)
    \/ type = "GRAFT" /\ (A!RecvGraftAccept(0, 0) \/ A!RecvGraftPrune(0, 0))
    \/ type = "PRUNE" /\ A!RecvPrune(0, 0, PruneBackoff)

HandleB(type) ==
    \/ type = "SUBSCRIBE" /\ B!RecvSubscription(0, 0, TRUE)
    \/ type = "UNSUBSCRIBE" /\ B!RecvSubscription(0, 0, FALSE)
    \/ type = "GRAFT" /\ (B!RecvGraftAccept(0, 0) \/ B!RecvGraftPrune(0, 0))
    \/ type = "PRUNE" /\ B!RecvPrune(0, 0, PruneBackoff)

ReceiveA ==
    /\ toA # <<>>
    /\ HandleA(Head(toA))
    /\ toA' = Tail(toA)
    /\ toB' = OutA(toB) /\ Len(toB') <= MaxInFlight
    /\ UNCHANGED <<varsB, up, closedA, closedB, alone>>

ReceiveB ==
    /\ toB # <<>>
    /\ HandleB(Head(toB))
    /\ toB' = Tail(toB)
    /\ toA' = OutB(toA) /\ Len(toA') <= MaxInFlight
    /\ UNCHANGED <<varsA, up, closedA, closedB, alone>>

\* A GRAFT that has to be refused by a router without a writer stream: ERR_STATE.
RefuseA ==
    /\ toA # <<>> /\ Head(toA) = "GRAFT" /\ 0 \notin writerA
    /\ A!RecvGraftDrop(0, 0)
    /\ toA' = <<>> /\ closedB' = TRUE /\ alone' = TRUE
    /\ UNCHANGED <<varsB, toB, up, closedA>>

RefuseB ==
    /\ toB # <<>> /\ Head(toB) = "GRAFT" /\ 0 \notin writerB
    /\ B!RecvGraftDrop(0, 0)
    /\ toB' = <<>> /\ closedA' = TRUE /\ alone' = TRUE
    /\ UNCHANGED <<varsA, toA, up, closedB>>

-----------------------------------------------------------------------------
OpenA ==
    /\ up /\ ~closedA /\ A!OpenWriter(0)
    /\ UNCHANGED <<varsB, netVars>>

OpenB ==
    /\ up /\ ~closedB /\ B!OpenWriter(0)
    /\ UNCHANGED <<varsA, netVars>>

CloseA ==
    /\ closedA /\ A!PeerClosed(0) /\ closedA' = FALSE
    /\ UNCHANGED <<varsB, toA, toB, up, closedB, alone>>

CloseB ==
    /\ closedB /\ B!PeerClosed(0) /\ closedB' = FALSE
    /\ UNCHANGED <<varsA, toA, toB, up, closedA, alone>>

\* The connection is lost with everything on it.
Disconnect ==
    /\ up /\ up' = FALSE
    /\ toA' = <<>> /\ toB' = <<>>
    /\ closedA' = TRUE /\ closedB' = TRUE
    /\ UNCHANGED <<varsA, varsB, alone>>

\* A new connection, after both sides have dealt with the end of the old one.
Reconnect ==
    /\ ~up /\ ~closedA /\ ~closedB
    /\ up' = TRUE /\ alone' = FALSE
    /\ UNCHANGED <<varsA, varsB, toA, toB, closedA, closedB>>

\* Time passes for both, in units longer than a frame is under way: without this
\* assumption a GRAFT that is overtaken by a whole backoff is accepted by a peer
\* that has pruned its sender in between.
Tick ==
    /\ toA = <<>> /\ toB = <<>>
    /\ A!DriveBetween(1) /\ B!DriveBetween(1)
    /\ UNCHANGED netVars

Init ==
    /\ A!Init /\ B!Init
    /\ toA = <<>> /\ toB = <<>>
    /\ up = TRUE /\ closedA = FALSE /\ closedB = FALSE /\ alone = FALSE

Next ==
    \/ LocalA \/ LocalB \/ ReceiveA \/ ReceiveB \/ RefuseA \/ RefuseB
    \/ OpenA \/ OpenB \/ CloseA \/ CloseB
    \/ Disconnect \/ Reconnect \/ Tick

Spec == Init /\ [][Next]_vars
-----------------------------------------------------------------------------
Quiet ==
    /\ up /\ ~closedA /\ ~closedB
    /\ pcA = "idle" /\ pcB = "idle"
    /\ toA = <<>> /\ toB = <<>>
    /\ 0 \in writerA /\ 0 \in writerB

\* When nothing is on the way, the two routers agree: A has B in its mesh if and
\* only if B has A, whatever grafts, prunes, subscriptions and unsubscriptions
\* crossed on the way and whichever backoffs were running, and neither misses a
\* subscription of the other, whenever it was made.  (An UNSUBSCRIBE that is lost
\* with the connection is never repeated: the other side keeps the subscription.)
QuietAgreed ==
    Quiet =>
        /\ ~alone => (meshA = {} <=> meshB = {})
        /\ localB # {} => subscribedA # {}
        /\ localA # {} => subscribedB # {}

=============================================================================
