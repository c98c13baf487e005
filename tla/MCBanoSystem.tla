----------------------------- MODULE MCBanoSystem ---------------------------
(* Instances of BanoSystem for TLC: one node, one key with two values, a   *)
(* browser that asks for its value or sets it, and an application of the   *)
(* base that asks for it too.                                              *)
EXTENDS BanoSystem

CONSTANTS n1, k1

MCNodl == [a \in {n1} |-> {k1}]
MCAppRequests ==
  {[op |-> "get", addr |-> n1, key |-> k1, val |-> 0, ack |-> FALSE]}
MCHttpRequests ==
  {[op |-> "get", addr |-> n1, key |-> k1, val |-> 0, ack |-> FALSE]} \cup
  {[op |-> "set", addr |-> n1, key |-> k1, val |-> v, ack |-> TRUE] : v \in {0, 1}}
=============================================================================
