---------------------------- MODULE RequestReply ----------------------------
(***************************************************************************)
(* The contract between the HTTP server thread (bano_httpd.c) and the      *)
(* event loop (bano_base.c): the server thread hands over one request      *)
(* through a pipe and blocks; the loop reads the request, holds it for as  *)
(* long as it takes, and answers it once, which unblocks the thread.       *)
(*                                                                         *)
(* BanoBase and BanoHttpd each implement this, one from either side.       *)
(***************************************************************************)
VARIABLES thread,   \* "idle", or "blocked" on its request
          request   \* where the request is: "none", "piped" or "held"

Init == thread = "idle" /\ request = "none"

Submit ==
  /\ thread = "idle" /\ request = "none"
  /\ thread' = "blocked" /\ request' = "piped"

Read ==
  /\ request = "piped"
  /\ request' = "held"
  /\ UNCHANGED thread

(* A request may be answered as soon as it is read.                        *)
Answer ==
  /\ request \in {"piped", "held"}
  /\ thread' = "idle" /\ request' = "none"

Next == Submit \/ Read \/ Answer

Spec == Init /\ [][Next]_<<thread, request>>
=============================================================================
