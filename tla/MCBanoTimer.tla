----------------------------- MODULE MCBanoTimer ----------------------------
(* Instances of BanoTimer for TLC: three ios and the loop timer, with      *)
(* delays of 5 ms and 3 ms for the 1700 ms of an io (bano_base.c) and the  *)
(* 1000 ms of the loop timer (main.c).                                     *)
EXTENDS BanoTimer
=============================================================================
