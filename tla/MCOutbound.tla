----------------------------- MODULE MCOutbound -----------------------------
(* Instances of Outbound: two connections, whose descriptors hash to the     *)
(* same bucket.                                                              *)
EXTENDS Outbound

CONSTANTS c1, c2

TwoConns == {c1, c2}
OneConn == {c1}
Neither == {}
SameBucket == [c \in Conns |-> 0]
=============================================================================
