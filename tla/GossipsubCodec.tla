--------------------------- MODULE GossipsubCodec ---------------------------
(***************************************************************************)
(* The gossipsub wire format: protobuf RPCs, their sizes, encoders and     *)
(* decoders (gossipsub_codec_*.c, unsigned_varint.c).                      *)
(*                                                                         *)
(* A byte is a number below 2 * VBase; a varint byte at or above VBase has *)
(* the continuation bit (VBase is 128 in the code).  A byte string is a    *)
(* sequence, absent and empty alike <<>>.  The error codes of a decoder    *)
(* are one outcome, except TRUNCATED of a varint, which the receiver tells *)
(* apart.                                                                  *)
(***************************************************************************)
EXTENDS Integers, Sequences, SequencesExt, FiniteSetsExt

CONSTANTS
    VBase,          \* 2^7 in the code
    MaxVarintBytes, \* LIBP2P_UVARINT_MAX_BYTES
    Limits,         \* libp2p_gossipsub_limits_t: how long and how many
    Caps            \* elements of the arrays shared by the lists of an RPC (the
                    \* other arrays are as long as their limits)

ASSUME GossipsubCodecAssumption == VBase \in Nat \ {0, 1} /\ MaxVarintBytes \in Nat \ {0}

Wire == [varint |-> 0, fixed64 |-> 1, len |-> 2, fixed32 |-> 5]

----------------------------------------------------------------------------
(* Varints *)

(* libp2p_uvarint_encode *)
Varint(n) ==
    LET enc[k \in Nat] ==
          IF k < VBase THEN <<k>> ELSE <<VBase + (k % VBase)>> \o enc[k \div VBase]
    IN enc[n]

(* uvarint_measure_unchecked *)
VarintSize(n) ==
    LET size[k \in Nat] == IF k < VBase THEN 1 ELSE 1 + size[k \div VBase]
    IN size[n]

Truncated == [ok |-> FALSE, truncated |-> TRUE, val |-> 0, len |-> 0]
BadVarint == [Truncated EXCEPT !.truncated = FALSE]

(* libp2p_uvarint_decode: the varint at the start of b, which ends at its   *)
(* first byte n without the continuation bit and must be minimal.           *)
VarintUpTo(b, n) ==
    IF n > MaxVarintBytes /\ Len(b) >= MaxVarintBytes THEN BadVarint
    ELSE IF n > Len(b) THEN Truncated
    ELSE IF n > 1 /\ b[n] = 0 THEN BadVarint
    ELSE [ok |-> TRUE, truncated |-> FALSE, len |-> n,
          val |-> FoldLeftDomain(LAMBDA acc, i : acc + (b[i] % VBase) * VBase ^ (i - 1),
                                 0, SubSeq(b, 1, n))]
ReadVarint(b) == VarintUpTo(b, Min({i \in 1..Len(b) : b[i] < VBase} \union {Len(b) + 1}))

----------------------------------------------------------------------------
(* Fields *)
Key(f, wire) == f * 8 + Wire[wire]

(* gossipsub_field_size *)
LenSize(f, n) == VarintSize(Key(f, "len")) + VarintSize(n) + n
VarintFieldSize(f, v) == VarintSize(Key(f, "varint")) + VarintSize(v)

(* gossipsub_write_len_field, gossipsub_write_len_prefix *)
LenField(f, b) == Varint(Key(f, "len")) \o Varint(Len(b)) \o b

(* gossipsub_write_varint_field *)
VarintField(f, v) == Varint(Key(f, "varint")) \o Varint(v)

(* A field that is written only when it is present. *)
OptSize(f, b) == IF b = <<>> THEN 0 ELSE LenSize(f, Len(b))
OptField(f, b) == IF b = <<>> THEN <<>> ELSE LenField(f, b)

(* A length-prefixed element for each member of a list. *)
ListSize(f, list, Size(_)) == FoldLeft(LAMBDA n, x : n + LenSize(f, Size(x)), 0, list)
ListEncode(f, list, Encode(_)) == FoldLeft(LAMBDA b, x : b \o LenField(f, Encode(x)), <<>>, list)

DropBytes(b, n) == SubSeq(b, n + 1, Len(b))

(* gossipsub_read_len_span, gossipsub_skip_field: the value of a field of   *)
(* this wire type at the start of b, where v is the varint at that place,   *)
(* and the bytes it takes.                                                  *)
ReadValue(b, wire, v) ==
    CASE wire = Wire.varint -> [ok |-> v.ok, val |-> v.val, len |-> v.len]
      [] wire = Wire.len -> [ok |-> v.ok /\ v.val <= Len(b) - v.len,
                             val |-> SubSeq(b, v.len + 1, v.len + v.val), len |-> v.len + v.val]
      [] wire = Wire.fixed64 -> [ok |-> Len(b) >= 8, val |-> <<>>, len |-> 8]
      [] wire = Wire.fixed32 -> [ok |-> Len(b) >= 4, val |-> <<>>, len |-> 4]
      [] OTHER -> [ok |-> FALSE, val |-> <<>>, len |-> 0]

(* A loop: Step is taken while x.on, at most n times. *)
While(Step(_), x, n) ==
    LET Round(y) == IF y.on THEN Step(y) ELSE y
        run[i \in 0..n] == IF i = 0 THEN x ELSE Round(run[i - 1])
    IN run[n]

(* The loop of every decoder: what a field is for does not change how many  *)
(* bytes it takes, so the fields are read before they are looked at.        *)
FieldRead(p, key, v) ==
    IF ~key.ok \/ ~v.ok THEN [p EXCEPT !.on = FALSE, !.ok = FALSE]
    ELSE [p EXCEPT !.rest = DropBytes(@, v.len),
                   !.fields = Append(@, [f |-> key.val \div 8, w |-> key.val % 8, val |-> v.val])]
KeyRead(p, key) ==
    FieldRead([p EXCEPT !.rest = DropBytes(@, key.len)], key,
              ReadValue(DropBytes(p.rest, key.len), key.val % 8,
                        ReadVarint(DropBytes(p.rest, key.len))))
Fields(b) ==
    While(LAMBDA p : IF p.rest = <<>> THEN [p EXCEPT !.on = FALSE]
                     ELSE KeyRead(p, ReadVarint(p.rest)),
          [on |-> TRUE, ok |-> TRUE, rest |-> b, fields |-> <<>>], Len(b) + 1)

(* The values of field f with this wire type, and the last of them. *)
AllOf(p, f, wire) ==
    FoldLeft(LAMBDA vals, x : IF x.f = f /\ x.w = Wire[wire] THEN Append(vals, x.val) ELSE vals,
             <<>>, p.fields)
LastIn(vals, none) == IF vals = <<>> THEN none ELSE Last(vals)
LastOf(p, f, wire, none) == LastIn(AllOf(p, f, wire), none)

AtMost(list, n) == \A i \in 1..Len(list) : Len(list[i]) <= n
TopicOk(t) == t # <<>> /\ Len(t) <= Limits.topic

----------------------------------------------------------------------------
(* Published messages *)

(* gossipsub_message_size *)
MessageSize(m) ==
    OptSize(1, m.from) + OptSize(2, m.data) + OptSize(3, m.seqno) + LenSize(4, Len(m.topic))
    + OptSize(5, m.signature) + OptSize(6, m.key)

MessageOk(m) == TopicOk(m.topic) /\ Len(m.data) <= Limits.data

(* Mutant: a field is written without its presence being looked at. *)
MessageEncodeSeqno(m) ==
    OptField(1, m.from) \o OptField(2, m.data) \o LenField(3, m.seqno) \o LenField(4, m.topic)
    \o OptField(5, m.signature) \o OptField(6, m.key)

(* gossipsub_message_encode *)
MessageEncode(m) ==
    OptField(1, m.from) \o OptField(2, m.data) \o OptField(3, m.seqno) \o LenField(4, m.topic)
    \o OptField(5, m.signature) \o OptField(6, m.key)

(* gossipsub_message_decode *)
MessageOf(p) ==
    LET Of(f) == LastOf(p, f, "len", <<>>)
    IN [ok |-> /\ p.ok /\ Of(4) # <<>>
               /\ AtMost(AllOf(p, 2, "len"), Limits.data)
               /\ AtMost(AllOf(p, 4, "len"), Limits.topic),
        val |-> [from |-> Of(1), data |-> Of(2), seqno |-> Of(3), topic |-> Of(4),
                 signature |-> Of(5), key |-> Of(6)]]
MessageDecode(b) == MessageOf(Fields(b))

----------------------------------------------------------------------------
(* Subscriptions *)
Flag(b) == IF b THEN 1 ELSE 0

(* gossipsub_sub_size, gossipsub_sub_encode, gossipsub_sub_decode *)
SubSize(s) == VarintFieldSize(1, Flag(s.subscribe)) + LenSize(2, Len(s.topic))
SubEncode(s) == VarintField(1, Flag(s.subscribe)) \o LenField(2, s.topic)
SubOf(p, topic) ==
    [ok |-> p.ok /\ topic # <<>> /\ AtMost(AllOf(p, 2, "len"), Limits.topic),
     val |-> [subscribe |-> LastOf(p, 1, "varint", 0) # 0, topic |-> topic]]
SubFields(p) == SubOf(p, LastOf(p, 2, "len", <<>>))
SubDecode(b) == SubFields(Fields(b))

----------------------------------------------------------------------------
(* Control messages *)

(* gossipsub_message_id_list_size, gossipsub_message_id_list_encode *)
IdsOk(ids) ==
    /\ Len(ids) <= Limits.ids
    /\ \A i \in 1..Len(ids) : ids[i] # <<>> /\ Len(ids[i]) <= Limits.id
IdsSize(f, ids) == ListSize(f, ids, Len)
IdsEncode(f, ids) == ListEncode(f, ids, LAMBDA x : x)

(* gossipsub_ihave_size, gossipsub_ihave_encode, gossipsub_ihave_decode *)
IhaveSize(h) == LenSize(1, Len(h.topic)) + IdsSize(2, h.ids)
IhaveEncode(h) == LenField(1, h.topic) \o IdsEncode(2, h.ids)
IhaveOf(p, topic, ids) ==
    [ok |-> p.ok /\ AtMost(ids, Limits.id) /\ Len(ids) <= Limits.ids /\ TopicOk(topic),
     val |-> [topic |-> topic, ids |-> ids]]
IhaveFields(p) == IhaveOf(p, LastOf(p, 1, "len", <<>>), AllOf(p, 2, "len"))
IhaveDecode(b) == IhaveFields(Fields(b))

(* gossipsub_iwant_size and gossipsub_idontwant_size, _encode, _decode *)
IwantSize(ids) == IdsSize(1, ids)
IwantEncode(ids) == IdsEncode(1, ids)
IwantOf(p, ids) ==
    [ok |-> p.ok /\ AtMost(ids, Limits.id) /\ Len(ids) <= Limits.ids, val |-> ids]
IwantFields(p) == IwantOf(p, AllOf(p, 1, "len"))
IwantDecode(b) == IwantFields(Fields(b))
IdontwantSize(ids) == IdsSize(1, ids)
IdontwantEncode(ids) == IdsEncode(1, ids)
IdontwantDecode(b) == IwantDecode(b)

(* gossipsub_topic_control_size, _encode, gossipsub_graft_decode *)
GraftSize(t) == LenSize(1, Len(t))
GraftEncode(t) == LenField(1, t)
GraftOf(p, t) == [ok |-> p.ok /\ TopicOk(t), val |-> t]
GraftFields(p) == GraftOf(p, LastOf(p, 1, "len", <<>>))
GraftDecode(b) == GraftFields(Fields(b))

(* gossipsub_peer_info_decode *)
PeerInfoFields(p) == p.ok /\ AtMost(AllOf(p, 2, "len"), Limits.record)
PeerInfoOk(b) == PeerInfoFields(Fields(b))

(* gossipsub_prune_size, gossipsub_prune_encode: no peers are ever written *)
PruneSize(r) == LenSize(1, Len(r.topic))
                + (IF r.backoff = 0 THEN 0 ELSE VarintFieldSize(3, r.backoff))
PruneEncode(r) == LenField(1, r.topic)
                  \o (IF r.backoff = 0 THEN <<>> ELSE VarintField(3, r.backoff))

(* gossipsub_prune_decode *)
PruneOf(p, topic, peers) ==
    [ok |-> /\ p.ok /\ TopicOk(topic) /\ Len(peers) <= Limits.peers
            /\ \A i \in 1..Len(peers) : PeerInfoOk(peers[i]),
     val |-> [topic |-> topic, backoff |-> LastOf(p, 3, "varint", 0), peers |-> Len(peers)]]
PruneFields(p) == PruneOf(p, LastOf(p, 1, "len", <<>>), AllOf(p, 2, "len"))
PruneDecode(b) == PruneFields(Fields(b))

NoControl == [ihave |-> <<>>, iwant |-> <<>>, graft |-> <<>>, prune |-> <<>>, idontwant |-> <<>>]

(* gossipsub_control_size *)
ControlSize(c) ==
    ListSize(1, c.ihave, IhaveSize) + ListSize(2, c.iwant, IwantSize)
    + ListSize(3, c.graft, GraftSize) + ListSize(4, c.prune, PruneSize)
    + ListSize(5, c.idontwant, IdontwantSize)

(* gossipsub_control_encode *)
ControlEncode(c) ==
    ListEncode(1, c.ihave, IhaveEncode) \o ListEncode(2, c.iwant, IwantEncode)
    \o ListEncode(3, c.graft, GraftEncode) \o ListEncode(4, c.prune, PruneEncode)
    \o ListEncode(5, c.idontwant, IdontwantEncode)

(* The elements of field f, each decoded. *)
Decoded(p, f, Decode(_)) ==
    FoldLeft(LAMBDA l, d : [ok |-> l.ok /\ d.ok, val |-> Append(l.val, d.val)],
             [ok |-> TRUE, val |-> <<>>],
             [i \in 1..Len(AllOf(p, f, "len")) |-> Decode(AllOf(p, f, "len")[i])])

(* A known field with another wire type is an error here, not skipped. *)
Typed(p, known) == \A i \in 1..Len(p.fields) : p.fields[i].f \in known => p.fields[i].w = Wire.len

SumLen(lists) == FoldLeft(LAMBDA n, s : n + Len(s), 0, lists)

(* gossipsub_control_decode: the ids of all lists share one array, and the  *)
(* peers of all PRUNEs another.                                             *)
ControlOf(p, h, w, g, r, d) ==
    [ok |-> /\ p.ok /\ Typed(p, 1..5)
            /\ h.ok /\ w.ok /\ g.ok /\ r.ok /\ d.ok
            /\ SumLen([i \in DOMAIN h.val |-> h.val[i].ids] \o w.val \o d.val) <= Caps.ids
            /\ FoldLeft(LAMBDA n, x : n + x.peers, 0, r.val) <= Caps.peers
            /\ Len(h.val) <= Limits.ihave /\ Len(w.val) <= Limits.iwant
            /\ Len(g.val) <= Limits.graft /\ Len(r.val) <= Limits.prune
            /\ Len(d.val) <= Limits.idontwant,
     val |-> [ihave |-> h.val, iwant |-> w.val, graft |-> g.val, prune |-> r.val,
              idontwant |-> d.val]]
ControlFields(p) ==
    ControlOf(p, Decoded(p, 1, IhaveDecode), Decoded(p, 2, IwantDecode),
              Decoded(p, 3, GraftDecode), Decoded(p, 4, PruneDecode),
              Decoded(p, 5, IdontwantDecode))
ControlDecode(b) == ControlFields(Fields(b))

(* What gossipsub_control_size accepts for protocol version v. *)
ControlOk(c, v) ==
    /\ Len(c.ihave) <= Limits.ihave /\ Len(c.iwant) <= Limits.iwant
    /\ Len(c.graft) <= Limits.graft /\ Len(c.prune) <= Limits.prune
    /\ Len(c.idontwant) <= Limits.idontwant
    /\ c.idontwant # <<>> => v = 12
    /\ \A i \in 1..Len(c.ihave) : TopicOk(c.ihave[i].topic) /\ IdsOk(c.ihave[i].ids)
    /\ \A i \in 1..Len(c.iwant) : IdsOk(c.iwant[i])
    /\ \A i \in 1..Len(c.idontwant) : IdsOk(c.idontwant[i])
    /\ \A i \in 1..Len(c.graft) : TopicOk(c.graft[i])
    /\ \A i \in 1..Len(c.prune) : TopicOk(c.prune[i].topic)

----------------------------------------------------------------------------
(* RPCs *)
NoRpc == [subs |-> <<>>, publish |-> <<>>, control |-> NoControl]

(* libp2p_gossipsub_rpc_body_size *)
RpcBodySize(r) ==
    ListSize(1, r.subs, SubSize) + ListSize(2, r.publish, MessageSize)
    + (IF r.control = NoControl THEN 0 ELSE LenSize(3, ControlSize(r.control)))

(* What libp2p_gossipsub_rpc_body_size accepts. *)
Encodable(r, v) ==
    /\ Len(r.subs) <= Limits.subs /\ Len(r.publish) <= Limits.publish
    /\ \A i \in 1..Len(r.subs) : TopicOk(r.subs[i].topic)
    /\ \A i \in 1..Len(r.publish) : MessageOk(r.publish[i])
    /\ ControlOk(r.control, v)
    /\ RpcBodySize(r) <= Limits.rpc

(* libp2p_gossipsub_rpc_body_encode *)
RpcBodyEncode(r) ==
    ListEncode(1, r.subs, SubEncode) \o ListEncode(2, r.publish, MessageEncode)
    \o (IF r.control = NoControl THEN <<>> ELSE LenField(3, ControlEncode(r.control)))

(* libp2p_gossipsub_rpc_frame_size, libp2p_gossipsub_rpc_frame_encode *)
RpcFrameSize(r) == VarintSize(RpcBodySize(r)) + RpcBodySize(r)
RpcFrameEncode(r) == Varint(RpcBodySize(r)) \o RpcBodyEncode(r)

(* libp2p_gossipsub_rpc_body_decode: of several control fields the last one *)
(* replaces the others.                                                     *)
RpcOf(n, p, s, m, c) ==
    [ok |-> /\ n <= Limits.rpc /\ p.ok /\ Typed(p, 1..3) /\ s.ok /\ m.ok /\ c.ok
            /\ Len(s.val) <= Limits.subs /\ Len(m.val) <= Limits.publish,
     val |-> [subs |-> s.val, publish |-> m.val, control |-> LastIn(c.val, NoControl)]]
RpcFields(n, p) ==
    RpcOf(n, p, Decoded(p, 1, SubDecode), Decoded(p, 2, MessageDecode),
          Decoded(p, 3, ControlDecode))
RpcBodyDecode(b) == RpcFields(Len(b), Fields(b))
=============================================================================
