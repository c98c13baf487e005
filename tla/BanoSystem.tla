----------------------------- MODULE BanoSystem -----------------------------
(***************************************************************************)
(* The base and its nodes, over a radio that loses and reorders packets:   *)
(* BanoBase, whose transmissions reach the nodes, closed by what bano_loop *)
(* (src/src/node/bano_node.c) does with them.  A node's program is         *)
(* sequential: it handles a message, and answers it, in one step.          *)
(*                                                                         *)
(* The application of the node is external: it holds a value for each key, *)
(* applies or refuses what it is asked, chooses whether a SET is           *)
(* acknowledged, and may change a value by itself and tell the base.       *)
(***************************************************************************)
EXTENDS BanoBase, FiniteSets

CONSTANTS
  Late,    \* the radio may deliver a packet, or the node answer one, after
           \* the timer of the transmission has expired.  FALSE asks this of
           \* the radio while one io waits at a time; with several, the code
           \* itself lets timers expire early (NeverEarly of BanoTimer)
  MaxAir   \* bound on the packets in the air

VARIABLES
  held,  \* held[a][k]: the value of key k at node a
  air,   \* the packets in the air: [to, io, n, msg], the io and the transmission
         \* they come from being history
  seen   \* history: the values the key of an io had since it was posted

sysVars == <<vars, held, air, seen>>

Room == Cardinality(air) < MaxAir

(* What a step adds to the history.                                        *)
Watch ==
  seen' = [i \in Io |->
             IF io'[i] = None THEN {}
             ELSE LET r == io'[i].req IN
                  (IF io[i] = None THEN {} ELSE seen[i]) \cup {held'[r.addr][r.key]}]
-----------------------------------------------------------------------------
(* Steps of the base that concern no packet.                               *)
Quiet ==
  /\ \/ \E i \in Io, r \in AppRequests : AppPost(i, r)
     \/ \E q \in HttpRequests : HttpSubmit(q)
     \/ ReadPipe \/ StartWrite \/ ExpireLoop
  /\ UNCHANGED <<held, air>>
  /\ Watch

(* bano_socket_write: what the base sends is the request, with no flag.    *)
PacketOf(i) ==
  [to |-> "node", io |-> i, n |-> io[i].sent + 1,
   msg |-> [op |-> io[i].req.op, addr |-> io[i].req.addr, key |-> io[i].req.key,
            val |-> io[i].req.val, reply |-> FALSE, err |-> FALSE]]

Transmit(a) ==
  /\ Room
  /\ WriteAwaited(a) \/ WriteUnawaited(a)
  /\ air' = air \cup {PacketOf(Head(posted[a]))}
  /\ UNCHANGED held
  /\ Watch

(* A timer expires, after all packets of the io it is for unless `Late'.   *)
ExpireIo(i) ==
  /\ ExpireRetry(i) \/ ExpireTimeout(i)
  /\ Late \/ \A p \in air : p.io # i
  /\ UNCHANGED <<held, air>>
  /\ Watch

(* The base receives a packet.                                             *)
Deliver(p) ==
  /\ p.to = "base"
  /\ HandleMsg(p.msg) \/ HandleReply(p.msg)
  /\ air' = air \ {p}
  /\ UNCHANGED held
  /\ Watch

Lose(p) ==
  /\ air' = air \ {p}
  /\ UNCHANGED <<vars, held>>
  /\ Watch
-----------------------------------------------------------------------------
(* bano_loop: the message is answered in the buffer it was received in.    *)
Reply(p, val, err) ==
  [p EXCEPT !.to = "base", !.msg.op = "set", !.msg.val = val, !.msg.reply = TRUE,
            !.msg.err = err]

(* A SET: bano_set_handler applies it or not, and its flags say whether to *)
(* acknowledge it and whether it failed.                                   *)
NodeSet(p) ==
  /\ p.to = "node" /\ p.msg.op = "set"
  /\ \E reply, err \in BOOLEAN :
       /\ held' = IF err THEN held ELSE [held EXCEPT ![p.msg.addr][p.msg.key] = p.msg.val]
       /\ air' = (air \ {p}) \cup (IF reply THEN {Reply(p, p.msg.val, err)} ELSE {})
  /\ UNCHANGED vars
  /\ Watch

NodeGetZero(p) ==    \* mutant: the message is made before bano_get_handler
  /\ p.to = "node" /\ p.msg.op = "get"
  /\ \E err \in BOOLEAN : air' = (air \ {p}) \cup {Reply(p, 0, err)}
  /\ UNCHANGED <<vars, held>>
  /\ Watch

(* A GET is always answered; if bano_get_handler fails, with any value.    *)
NodeGet(p) ==
  /\ p.to = "node" /\ p.msg.op = "get"
  /\ \E err \in BOOLEAN :
       \E val \in IF err THEN Val ELSE {held[p.msg.addr][p.msg.key]} :
         air' = (air \ {p}) \cup {Reply(p, val, err)}
  /\ UNCHANGED <<vars, held>>
  /\ Watch

(* The node's application changes a value, and calls bano_send_set.        *)
NodeChange(a, k, v) ==
  /\ Room
  /\ held[a][k] # v
  /\ held' = [held EXCEPT ![a][k] = v]
  /\ air' = air \cup
       {[to |-> "base", io |-> None, n |-> 0,
         msg |-> [op |-> "set", addr |-> a, key |-> k, val |-> v, reply |-> FALSE,
                  err |-> FALSE]]}
  /\ UNCHANGED vars
  /\ Watch
-----------------------------------------------------------------------------
SysInit ==
  /\ Init
  /\ held = [a \in Addr |-> [k \in Key |-> 0]]
  /\ air = {}
  /\ seen = [i \in Io |-> {}]

SysNext ==
  \/ Quiet
  \/ \E a \in nodes : Transmit(a)
  \/ \E i \in Io : ExpireIo(i)
  \/ \E p \in air : Deliver(p) \/ Lose(p) \/ NodeSet(p) \/ NodeGet(p)
  \/ \E a \in Addr, k \in Key, v \in Val : NodeChange(a, k, v)

SysSpec == SysInit /\ [][SysNext]_sysVars
-----------------------------------------------------------------------------
(***************************************************************************)
(* "synchronous GET: a base gets a node value by sending a GET message,    *)
(* and waits for the corresponding reply", and in the same way a SET that  *)
(* is acknowledged (doc/protocol/tex/main.tex:64-68): the value a browser  *)
(* is told, or asked for and is told was set, is one that the node had     *)
(* since the browser asked.  Replies name the key and not the request, so  *)
(* that a reply to an earlier transmission may pass for this one's.        *)
(***************************************************************************)
AnswerCurrent ==
  [][\A i \in HttpIos :
       io'[i] = None /\ answer'.err = "success" /\ NeedsReply(io[i].req) =>
         answer'.val \in seen[i]]_sysVars

(***************************************************************************)
(* Unless replies come `Late', while one io waits at a time, every reply   *)
(* in the air is for the last transmission of the io that still waits for  *)
(* it, and would complete it: nothing answers a request twice, whatever    *)
(* the node loses, refuses or notifies.  The base has no more than this to *)
(* tell replies apart, since cmp_pending_io (bano_base.c:1070) looks for   *)
(* no identity of the request.                                             *)
(***************************************************************************)
RepliesOwned ==
  \A p \in air : p.to = "base" /\ p.msg.reply =>
    /\ p.io \in Live /\ p.io \in ToSet(pending[p.msg.addr])
    /\ p.n = io[p.io].sent
    /\ Answers(p.msg, p.io)
=============================================================================
