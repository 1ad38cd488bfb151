--------------------------- MODULE HostNegotiation ---------------------------
(***************************************************************************)
(* How two hosts agree on the protocol of a stream (multistream-select in   *)
(* libp2p_host_streams.c): the outbound side offers its protocol without    *)
(* waiting for an answer and, if there is one, its fallback; the inbound    *)
(* side answers with the protocol, with "na", or with a list.               *)
(*                                                                          *)
(* The stream is a sequence of units in each direction, in order and        *)
(* without loss (QUIC).  A frame of multistream-select is two units, so     *)
(* that it can be written and read in part and so that one read can return  *)
(* the end of one frame and the beginning of what follows; what a protocol  *)
(* sends is single units.  Both sides keep what they read beyond a frame in *)
(* in_frame and hand it to the protocol first (libp2p_host_stream_read).    *)
(***************************************************************************)
EXTENDS Integers, Sequences, FiniteSets

CONSTANTS
    Protocols,     \* the protocols a host may know
    MaxListed,     \* the most protocols whose list fits in a message
    InCapacity,    \* units of in_frame
    MaxFlight,     \* bound: units on the wire in one direction
    MaxData        \* bound: units a protocol sends

NoProtocol == "none"

\* No protocol is named like a word of multistream-select; libp2p_host_handle leaves
\* that to the application.
ASSUME NegotiationAssumption ==
    /\ {InCapacity, MaxFlight, MaxData} \subseteq Nat \ {0}
    /\ InCapacity >= 2 /\ MaxListed \in Nat
    /\ Protocols \cap {"na", "ls", "bad length", "no newline", NoProtocol} = {}

VARIABLES
    known,       \* the protocols of the inbound side
    offers,      \* what the outbound side was asked to open: protocol and fallback
    remote,      \* "host", or "other": the outbound side is some other program
    out,         \* the outbound side: see Side
    in,          \* the inbound side
    toIn, toOut, \* the units on the wire
    fin,         \* the other program has finished its direction
    reset        \* the stream was reset by a side that gave up

vars == <<known, offers, remote, out, in, toIn, toOut, fin, reset>>

Messages ==
    Protocols \cup {"multistream", "na", "ls", "list", "unknown", "bad length", "no newline"}
Unit == [msg : Messages \cup {"data"}, n : Nat]
DataUnit(k) == [msg |-> "data", n |-> k]

OutStates == {"OUT_SEND_MS", "OUT_SEND_PROTOCOL", "OUT_READ_MS", "OUT_READ_PROTOCOL"}
InStates == {"IN_READ_MS", "IN_READ_PROTOCOL", "IN_SEND_PROTOCOL", "IN_SEND_NA", "IN_SEND_LS"}
Done == "DONE"
Failed == "FAILED"

\* neg: neg_state; protocol, fallback; ready: outbound_multistream_ready; frame: what
\* is left of out_frame; inFrame; wrote: units the protocol wrote; read: what it read.
Side == [neg : OutStates \cup InStates \cup {Done, Failed},
         protocol : Protocols \cup {NoProtocol}, fallback : Protocols \cup {NoProtocol},
         ready : BOOLEAN, frame : Seq(Unit), inFrame : Seq(Unit), wrote : Nat, read : Seq(Unit)]

-----------------------------------------------------------------------------
(***************************************************************************)
(* Frames.                                                                 *)
(***************************************************************************)

\* libp2p_multistream_select_message_encode: the length prefix and the message.
Frame(m) == <<[msg |-> m, n |-> 1], [msg |-> m, n |-> 2]>>

Min2(a, b) == IF a <= b THEN a ELSE b

\* host_stream_send_prepared: k units of frame f are accepted.
Sent(f, k) == SubSeq(f, k + 1, Len(f))
Accepted(f, k) == SubSeq(f, 1, k)

\* multistream_select_message_metadata: a length that is no varint, zero or too
\* large is known from the prefix, a missing newline from the whole frame.
Malformed(f) ==
    \/ Len(f) >= 1 /\ f[1].msg = "bad length"
    \/ Len(f) >= 2 /\ f[1].msg = "no newline"

\* libp2p_multistream_select_message_decode of what in_frame holds.
Decodes(f) == Len(f) >= 2 /\ ~Malformed(f)
Message(f) == f[1].msg

\* Mutant: what was read beyond the frame is dropped with it.
RestDropped(f) == <<>>

\* What remains of in_frame.
Rest(f) == SubSeq(f, 3, Len(f))

\* host_stream_read_message without a whole frame: n more units of the wire.
MayRead(side, wire, n) ==
    /\ ~Decodes(side.inFrame) /\ ~Malformed(side.inFrame)
    /\ n \in 1 .. Min2(InCapacity - Len(side.inFrame), Len(wire))

-----------------------------------------------------------------------------
(***************************************************************************)
(* The outbound side (host_stream_outbound_step).                          *)
(***************************************************************************)

OutTurn(state) == remote = "host" /\ out.neg = state

\* The frame being sent: the one host_stream_prepare_message makes, or what is left.
OutFrame(m) == IF out.frame = <<>> THEN Frame(m) ELSE out.frame

OutWrites(m, k, then) ==
    /\ k \in 1 .. Len(OutFrame(m)) /\ Len(toIn) + k <= MaxFlight
    /\ toIn' = toIn \o Accepted(OutFrame(m), k)
    /\ out' = [out EXCEPT !.frame = Sent(OutFrame(m), k),
                          !.neg = IF k = Len(OutFrame(m)) THEN then ELSE @]
    /\ UNCHANGED <<known, offers, remote, fin, in, toOut, reset>>

OutSendMs(k) ==
    /\ OutTurn("OUT_SEND_MS")
    /\ OutWrites("multistream", k, "OUT_SEND_PROTOCOL")

OutSendProtocol(k) ==
    /\ OutTurn("OUT_SEND_PROTOCOL")
    /\ OutWrites(out.protocol, k, IF out.ready THEN "OUT_READ_PROTOCOL" ELSE "OUT_READ_MS")

OutRead(n) ==
    /\ \E s \in {"OUT_READ_MS", "OUT_READ_PROTOCOL"} : OutTurn(s)
    /\ MayRead(out, toOut, n)
    /\ out' = [out EXCEPT !.inFrame = @ \o SubSeq(toOut, 1, n)]
    /\ toOut' = SubSeq(toOut, n + 1, Len(toOut))
    /\ UNCHANGED <<known, offers, remote, fin, in, toIn, reset>>

OutTakeMs ==
    /\ OutTurn("OUT_READ_MS") /\ Decodes(out.inFrame)
    /\ out' = [out EXCEPT !.inFrame = Rest(@),
                          !.ready = Message(out.inFrame) = "multistream",
                          !.neg = IF Message(out.inFrame) = "multistream"
                                  THEN "OUT_READ_PROTOCOL" ELSE Failed]
    /\ reset' = (reset \/ Message(out.inFrame) # "multistream")
    /\ UNCHANGED <<known, offers, remote, fin, in, toIn, toOut>>

\* host_stream_complete_negotiation, the fallback, or host_stream_fail_negotiation.
OutTakeProtocol ==
    LET m == Message(out.inFrame)
        after == IF m = out.protocol THEN Done
                 ELSE IF m = "na" /\ out.fallback # NoProtocol THEN "OUT_SEND_PROTOCOL"
                 ELSE Failed
    IN  /\ OutTurn("OUT_READ_PROTOCOL") /\ Decodes(out.inFrame)
        /\ out' = [out EXCEPT
                     !.inFrame = Rest(@), !.neg = after,
                     !.protocol = IF after = "OUT_SEND_PROTOCOL" THEN out.fallback ELSE @,
                     !.fallback = IF after = "OUT_SEND_PROTOCOL" THEN NoProtocol ELSE @]
        /\ reset' = (reset \/ after = Failed)
        /\ UNCHANGED <<known, offers, remote, fin, in, toIn, toOut>>

-----------------------------------------------------------------------------
(***************************************************************************)
(* The inbound side (host_stream_inbound_step).                            *)
(***************************************************************************)

InRead(n) ==
    /\ in.neg \in {"IN_READ_MS", "IN_READ_PROTOCOL"}
    /\ MayRead(in, toIn, n)
    /\ in' = [in EXCEPT !.inFrame = @ \o SubSeq(toIn, 1, n)]
    /\ toIn' = SubSeq(toIn, n + 1, Len(toIn))
    /\ UNCHANGED <<known, offers, remote, fin, out, toOut, reset>>

InTakeMs ==
    LET ok == Message(in.inFrame) = "multistream"
    IN  /\ in.neg = "IN_READ_MS" /\ Decodes(in.inFrame)
        /\ in' = [in EXCEPT !.inFrame = Rest(@),
                            !.frame = IF ok THEN Frame("multistream") ELSE @,
                            !.neg = IF ok THEN "IN_SEND_PROTOCOL" ELSE Failed]
        /\ reset' = (reset \/ ~ok)
        /\ UNCHANGED <<known, offers, remote, fin, out, toIn, toOut>>

\* A frame that cannot be decoded, or the end of the stream within or before one.
InBroken ==
    /\ in.neg \in {"IN_READ_MS", "IN_READ_PROTOCOL"}
    /\ \/ Malformed(in.inFrame)
       \/ fin /\ toIn = <<>> /\ ~Decodes(in.inFrame)
    /\ in' = [in EXCEPT !.neg = Failed]
    /\ reset' = TRUE
    /\ UNCHANGED <<known, offers, remote, out, toIn, toOut, fin>>

\* host_protocol_find
Registered(m) == m \in known

\* libp2p_multistream_select_ls_response_payload_encode: all protocols in one message.
ListFits == Cardinality(known) <= MaxListed

\* "ls": host_stream_prepare_ls, which fails when the list does not fit.
InTakeLs ==
    /\ in.neg = "IN_READ_PROTOCOL" /\ Decodes(in.inFrame) /\ Message(in.inFrame) = "ls"
    /\ in' = [in EXCEPT !.inFrame = Rest(@),
                        !.frame = IF ListFits THEN Frame("list") ELSE @,
                        !.neg = IF ListFits THEN "IN_SEND_LS" ELSE Failed]
    /\ reset' = (reset \/ ~ListFits)
    /\ UNCHANGED <<known, offers, remote, out, toIn, toOut, fin>>

\* Mutant: a protocol the host does not know is answered with its name.
InTakeProtocolUnknown ==
    LET m == Message(in.inFrame)
    IN  /\ in.neg = "IN_READ_PROTOCOL" /\ Decodes(in.inFrame) /\ m # "ls"
        /\ in' = [in EXCEPT !.inFrame = Rest(@),
                            !.protocol = IF m \in Protocols THEN m ELSE @,
                            !.frame = Frame(IF m \in Protocols THEN m ELSE "na"),
                            !.neg = IF m \in Protocols THEN "IN_SEND_PROTOCOL" ELSE "IN_SEND_NA"]
        /\ UNCHANGED <<known, offers, remote, out, toIn, toOut, fin, reset>>

\* Anything else: the protocol, or "na".
InTakeProtocol ==
    LET m == Message(in.inFrame)
    IN  /\ in.neg = "IN_READ_PROTOCOL" /\ Decodes(in.inFrame) /\ m # "ls"
        /\ in' = [in EXCEPT !.inFrame = Rest(@),
                            !.protocol = IF Registered(m) THEN m ELSE @,
                            !.frame = Frame(IF Registered(m) THEN m ELSE "na"),
                            !.neg = IF Registered(m) THEN "IN_SEND_PROTOCOL" ELSE "IN_SEND_NA"]
        /\ UNCHANGED <<known, offers, remote, out, toIn, toOut, fin, reset>>

\* IN_SEND_PROTOCOL is used for the header and for the protocol.
AfterSend ==
    IF in.neg = "IN_SEND_PROTOCOL" /\ in.protocol # NoProtocol THEN Done ELSE "IN_READ_PROTOCOL"

InSend(k) ==
    /\ in.neg \in {"IN_SEND_PROTOCOL", "IN_SEND_NA", "IN_SEND_LS"}
    /\ k \in 1 .. Len(in.frame) /\ Len(toOut) + k <= MaxFlight
    /\ toOut' = toOut \o Accepted(in.frame, k)
    /\ in' = [in EXCEPT !.frame = Sent(@, k), !.neg = IF k = Len(in.frame) THEN AfterSend ELSE @]
    /\ UNCHANGED <<known, offers, remote, fin, out, toIn, reset>>

-----------------------------------------------------------------------------
(***************************************************************************)
(* The protocols, and another program as the outbound side (external).     *)
(***************************************************************************)

\* libp2p_host_stream_write of an open stream.
OutWriteData ==
    /\ remote = "host" /\ out.neg = Done /\ out.wrote < MaxData /\ Len(toIn) < MaxFlight
    /\ toIn' = Append(toIn, DataUnit(out.wrote + 1))
    /\ out' = [out EXCEPT !.wrote = @ + 1]
    /\ UNCHANGED <<known, offers, remote, fin, in, toOut, reset>>

InWriteData ==
    /\ in.neg = Done /\ in.wrote < MaxData /\ Len(toOut) < MaxFlight
    /\ toOut' = Append(toOut, DataUnit(in.wrote + 1))
    /\ in' = [in EXCEPT !.wrote = @ + 1]
    /\ UNCHANGED <<known, offers, remote, fin, out, toIn, reset>>

\* libp2p_host_stream_read: what is in in_frame comes first.
OutReadData ==
    /\ remote = "host" /\ out.neg = Done
    /\ \/ /\ out.inFrame # <<>>
          /\ out' = [out EXCEPT !.read = Append(@, Head(out.inFrame)), !.inFrame = Tail(@)]
          /\ UNCHANGED toOut
       \/ /\ out.inFrame = <<>> /\ toOut # <<>>
          /\ out' = [out EXCEPT !.read = Append(@, Head(toOut))]
          /\ toOut' = Tail(toOut)
    /\ UNCHANGED <<known, offers, remote, fin, in, toIn, reset>>

InReadData ==
    /\ remote = "host" /\ in.neg = Done
    /\ \/ /\ in.inFrame # <<>>
          /\ in' = [in EXCEPT !.read = Append(@, Head(in.inFrame)), !.inFrame = Tail(@)]
          /\ UNCHANGED toIn
       \/ /\ in.inFrame = <<>> /\ toIn # <<>>
          /\ in' = [in EXCEPT !.read = Append(@, Head(toIn))]
          /\ toIn' = Tail(toIn)
    /\ UNCHANGED <<known, offers, remote, fin, out, toOut, reset>>

\* The transport reports the reset to the other side.
ResetSeen ==
    /\ reset
    /\ \/ /\ remote = "host" /\ out.neg \notin {Done, Failed}
          /\ out' = [out EXCEPT !.neg = Failed]
          /\ UNCHANGED in
       \/ /\ in.neg \notin {Done, Failed}
          /\ in' = [in EXCEPT !.neg = Failed]
          /\ UNCHANGED out
    /\ UNCHANGED <<known, offers, remote, fin, toIn, toOut, reset>>

\* Another program sends any frame and reads whatever comes.
OtherSends(m) ==
    /\ remote = "other" /\ ~fin /\ Len(toIn) + 2 <= MaxFlight
    /\ toIn' = toIn \o Frame(m)
    /\ UNCHANGED <<known, offers, remote, fin, out, in, toOut, reset>>

\* ... and may finish.
OtherFinishes ==
    /\ remote = "other" /\ fin' = TRUE
    /\ UNCHANGED <<known, offers, remote, out, in, toIn, toOut, reset>>

OtherReads ==
    /\ remote = "other" /\ toOut # <<>>
    /\ toOut' = <<>>
    /\ UNCHANGED <<known, offers, remote, fin, out, in, toIn, reset>>

-----------------------------------------------------------------------------
Fresh(neg, protocol, fallback) ==
    [neg |-> neg, protocol |-> protocol, fallback |-> fallback, ready |-> FALSE,
     frame |-> <<>>, inFrame |-> <<>>, wrote |-> 0, read |-> <<>>]

\* host_stream_alloc on both sides
Init ==
    /\ known \in SUBSET Protocols
    /\ offers \in Protocols \X (Protocols \cup {NoProtocol})
    /\ remote \in {"host", "other"}
    /\ remote = "other" => offers[2] = NoProtocol
    /\ out = Fresh("OUT_SEND_MS", offers[1], offers[2])
    /\ in = Fresh("IN_READ_MS", NoProtocol, NoProtocol)
    /\ toIn = <<>> /\ toOut = <<>> /\ fin = FALSE /\ reset = FALSE

OutStep ==
    \/ \E k \in 1 .. 2 : OutSendMs(k) \/ OutSendProtocol(k)
    \/ \E n \in 1 .. InCapacity : OutRead(n)
    \/ OutTakeMs \/ OutTakeProtocol

InStep ==
    \/ \E n \in 1 .. InCapacity : InRead(n)
    \/ InTakeMs \/ InTakeLs \/ InTakeProtocol \/ InBroken
    \/ \E k \in 1 .. 2 : InSend(k)

DataStep == OutWriteData \/ InWriteData \/ OutReadData \/ InReadData

OtherStep == OtherReads \/ OtherFinishes \/ \E m \in Messages : OtherSends(m)

Next == OutStep \/ InStep \/ DataStep \/ ResetSeen \/ OtherStep

Spec == Init /\ [][Next]_vars

\* Both hosts are driven, and the transport reports a reset.
FairSpec ==
    Spec /\ WF_vars(OutStep) /\ WF_vars(InStep) /\ WF_vars(ResetSeen)
         /\ WF_vars(OutReadData) /\ WF_vars(InReadData)

-----------------------------------------------------------------------------
(***************************************************************************)
(* Properties.                                                             *)
(***************************************************************************)

\* Every variable has its type, and neither frame buffer overflows.
TypeOK ==
    /\ known \subseteq Protocols
    /\ offers \in Protocols \X (Protocols \cup {NoProtocol})
    /\ remote \in {"host", "other"}
    /\ out \in Side /\ in \in Side
    /\ \A side \in {out, in} : Len(side.inFrame) <= InCapacity
    /\ toIn \in Seq(Unit) /\ toOut \in Seq(Unit)
    /\ fin \in BOOLEAN /\ reset \in BOOLEAN

\* The outbound side opens the stream only with the protocol on which the inbound
\* side has agreed, one that both know, and with the fallback only if the first is
\* not known; the two fail only if they have no protocol in common.  Whoever it
\* talks to, the inbound side opens a stream only with a protocol it has.
Agreement ==
    /\ remote = "host" /\ out.neg = Done =>
         /\ in.protocol = out.protocol /\ out.protocol \in known
         /\ out.protocol # offers[1] => offers[1] \notin known
    /\ remote = "host" /\ (out.neg = Failed \/ in.neg = Failed) =>
         offers[1] \notin known /\ offers[2] \notin known
    /\ in.neg = Done => in.protocol \in known

\* What a protocol reads is what the other one wrote: nothing of the negotiation
\* reaches it, and nothing that was read along with a frame is lost.
DataIntact ==
    remote = "host" =>
        /\ \A i \in 1 .. Len(out.read) : out.read[i] = DataUnit(i)
        /\ \A i \in 1 .. Len(in.read) : in.read[i] = DataUnit(i)
        /\ Len(out.read) <= in.wrote /\ Len(in.read) <= out.wrote

\* The negotiation between two hosts ends.
NegotiationEnds ==
    (remote = "host") ~> (out.neg \in {Done, Failed} /\ in.neg \in {Done, Failed})

=============================================================================
