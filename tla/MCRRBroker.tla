------------------------------ MODULE MCRRBroker ------------------------------
(***************************************************************************)
(* RRBroker on two days: two sockets of the thumbnail server that draw one *)
(* identity in two worker processes come while a message waits and two     *)
(* compressors connect; and the messages of five sockets, one of them of   *)
(* the older server, wait for one compressor.                              *)
(***************************************************************************)
EXTENDS RRBroker

Burst == <<"b1", "r", "b2", "b3", "b4">>
Ids == [c \in Clients |-> IF c \in {"a1", "a2"} THEN "0CD3-B28A" ELSE c]
TwoDays == {[there |-> {"a1", "a2", "b1", "k1", "k2"}, waiting |-> <<"b1">>],
            [there |-> ToSet(Burst) \cup {"k1"}, waiting |-> Burst]}
ThreeMessages == {[there |-> {"b1", "b2", "b3", "k1", "k2", "k3"}, waiting |-> <<"b1", "b2", "b3">>]}
===============================================================================
