--------------------------- MODULE MCGossipsubRx ---------------------------
(* RPCs of every kind and size, with and without fields of later versions. *)
EXTENDS GossipsubRx

Sub(t, on) == [subscribe |-> on, topic |-> t]
Msg(data, seqno) == [from |-> <<>>, data |-> data, seqno |-> seqno, topic |-> <<7>>,
                     signature |-> <<>>, key |-> <<>>]
Full == [from |-> <<1>>, data |-> <<2, 31>>, seqno |-> <<3>>, topic |-> <<7, 8>>,
         signature |-> <<5>>, key |-> <<6>>]

Subscribe == [NoRpc EXCEPT !.subs = <<Sub(<<7>>, TRUE)>>]
TwoSubs == [NoRpc EXCEPT !.subs = <<Sub(<<7>>, FALSE), Sub(<<8>>, TRUE)>>]
Publish == [NoRpc EXCEPT !.publish = <<Msg(<<20, 21, 22, 23, 24, 25, 26, 27, 28, 29>>, <<1>>)>>]
PublishFull == [NoRpc EXCEPT !.publish = <<Full>>]
Control == [NoRpc EXCEPT !.control =
              [NoControl EXCEPT !.iwant = <<<<<<4>>, <<17>>>>>>, !.graft = <<<<7>>>>,
                                !.prune = <<[topic |-> <<8>>, backoff |-> 20, peers |-> 0]>>]]
Advert == [NoRpc EXCEPT !.control =
              [NoControl EXCEPT !.ihave = <<[topic |-> <<7>>, ids |-> <<<<3>>, <<4>>>>]>>,
                                !.idontwant = <<<<<<16>>>>>>]]
Mixed == [NoRpc EXCEPT !.subs = <<Sub(<<7>>, TRUE)>>, !.publish = <<Msg(<<30>>, <<>>)>>,
                       !.control = [NoControl EXCEPT !.graft = <<<<7>>>>]]
Unidentified == [NoRpc EXCEPT !.publish = <<Msg(<<>>, <<9>>)>>]

(* Fields a later version may add. *)
UnknownVarint == VarintField(7, 300)
UnknownLen == LenField(7, <<1, 2>>)
UnknownFixed32 == Varint(7 * 8 + 5) \o <<1, 2, 3, 4>>
UnknownFixed64 == Varint(7 * 8 + 1) \o <<1, 2, 3, 4, 5, 6, 7, 8>>

Framed(body) == Varint(Len(body)) \o body
Good(rpc) == [bytes |-> RpcFrameEncode(rpc), rpc |-> rpc]
Extended(rpc, extra) == [bytes |-> Framed(RpcBodyEncode(rpc) \o extra), rpc |-> rpc]
Bad(body) == [bytes |-> Framed(body), rpc |-> Reject]

Later == Extended(NoRpc, UnknownLen \o UnknownFixed32)
WithPeers ==
    [bytes |-> Framed(LenField(3, LenField(4, LenField(1, <<8>>)
                                              \o LenField(2, LenField(1, <<1>>))))),
     rpc |-> [NoRpc EXCEPT !.control =
                [NoControl EXCEPT !.prune = <<[topic |-> <<8>>, backoff |-> 0, peers |-> 1]>>]]]
TooMany == Bad(RpcBodyEncode(Unidentified) \o RpcBodyEncode(Unidentified))
Wrong == Bad(VarintField(1, 1))
TooLong == [bytes |-> Varint(33) \o <<1>>, rpc |-> Reject]

(* Large frames against each other, next to small and to invalid ones, and  *)
(* a stream that takes a slot given back.                                   *)
MCScripts ==
    {<<<<Good(Publish)>>, <<Good(Mixed)>>, <<Good(PublishFull)>>>>,
     <<<<Good(Control), WithPeers>>, <<Extended(Advert, UnknownVarint), Later>>>>,
     <<<<Extended(TwoSubs, UnknownFixed64), Good(PublishFull)>>,
       <<Good(Subscribe), Good(Mixed)>>>>,
     <<<<Later, Wrong, Good(Subscribe)>>, <<Good(Publish), Good(Control)>>>>,
     <<<<Good(Unidentified), Good(PublishFull)>>, <<TooLong>>, <<TooMany>>>>}
MCFragments == {1, 3, 10, 31}
MCRefused == {Unidentified}
MCLimits == [topic |-> 2, data |-> 10, id |-> 2, ids |-> 2, peers |-> 1, record |-> 2, rpc |-> 32,
             subs |-> 2, publish |-> 1, ihave |-> 1, iwant |-> 1, graft |-> 1, prune |-> 1,
             idontwant |-> 1]
MCCaps == [ids |-> 3, peers |-> 1]
=============================================================================
