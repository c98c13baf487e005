----------------------------- MODULE MCBanoPage -----------------------------
(* An instance of BanoPage for TLC: two nodes, three keys of which two     *)
(* share a list, and a block of four cells.                                *)
EXTENDS BanoPage

CONSTANTS n1, n2, k1, k2, k3

MCNodeSeq == <<n1, n2>>
MCListed == n1 :> <<k2, k3, k1>> @@ n2 :> <<k1>>
MCHash == k1 :> 0 @@ k2 :> 0 @@ k3 :> 1
=============================================================================
