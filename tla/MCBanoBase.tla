----------------------------- MODULE MCBanoBase -----------------------------
(* Instances of BanoBase for TLC: one configured node whose description    *)
(* lists one of two keys, one node that may be discovered.                 *)
EXTENDS BanoBase, TLC

CONSTANTS n1, n2, k1, k2

MCAddr == {n1, n2}
MCConf == {n1}
MCKey == {k1, k2}
MCVal == {0, 1}
MCNodl == (n1 :> {k1})

Req(op, a, k, v, ack) == [op |-> op, addr |-> a, key |-> k, val |-> v, ack |-> ack]
Msg(op, a, k, v, reply, err) ==
  [op |-> op, addr |-> a, key |-> k, val |-> v, reply |-> reply, err |-> err]

MCAppRequests ==
  {Req("get", n1, k1, 0, FALSE), Req("set", n1, k1, 1, TRUE),
   Req("set", n2, k2, 1, FALSE)}

MCHttpRequests ==
  {Req("get", n1, k1, 0, FALSE), Req("set", n1, k1, 1, TRUE),
   Req("get", n1, k2, 0, FALSE), Req("set", n2, k1, 1, FALSE),
   Req("rst", n1, k1, 0, FALSE), Req("none", n1, k1, 0, FALSE),
   Req("cam", n1, k1, 0, FALSE)}

(* Replies with either value and key, an error, a notification, and a GET. *)
MCMessages ==
  {Msg("set", n1, k1, v, TRUE, FALSE) : v \in MCVal} \cup
  {Msg("set", n1, k1, 1, TRUE, TRUE), Msg("set", n1, k2, 1, TRUE, FALSE),
   Msg("set", n2, k1, 1, FALSE, FALSE), Msg("get", n1, k1, 0, FALSE, FALSE)}

(* Which memory malloc returns makes no difference to any property.        *)
IoSymmetry == Permutations(Io)

(* The liveness instance: one key, no node to discover.                    *)
LiveAppRequests == {Req("get", n1, k1, 0, FALSE)}
LiveHttpRequests ==
  {Req("set", n1, k1, 1, TRUE), Req("set", n1, k1, 1, FALSE), Req("get", n2, k1, 0, FALSE),
   Req("none", n1, k1, 0, FALSE)}
LiveMessages ==
  {Msg("set", n1, k1, v, TRUE, FALSE) : v \in MCVal}
=============================================================================
