---------------------------- MODULE MCBrokerLink ----------------------------
(***************************************************************************)
(* Instances of BrokerLink for TLC: two peers, peer 2 the one with raw     *)
(* mode.  The peers are numbers because the broker serves them in order,   *)
(* thus they are not symmetric.                                            *)
(***************************************************************************)
EXTENDS BrokerLink

None  == {}
First == {1}
Last  == {NPeers}
=============================================================================
