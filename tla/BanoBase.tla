------------------------------ MODULE BanoBase ------------------------------
(***************************************************************************)
(* The event loop of the base station (src/src/base/bano_base.c): the ios  *)
(* that applications and the HTTP server thread post to the nodes, their   *)
(* transmission, the timers that retransmit or abandon them, and the radio *)
(* messages that complete them.                                            *)
(*                                                                         *)
(* The loop is single threaded: each handler it calls runs to completion,  *)
(* so each is one action.  The only step that spans several actions is     *)
(* write_msg, which empties the posted lists one io at a time; nothing     *)
(* else runs meanwhile (`writing').                                        *)
(*                                                                         *)
(* The radio is left arbitrary: any message of Messages may arrive at any  *)
(* time, which covers loss, delay, duplication, reordering, and nodes that *)
(* answer with whatever they like.  BanoSystem closes this system with the *)
(* firmware of the nodes.                                                  *)
(*                                                                         *)
(* Abstracted: the ms of the timers (module BanoTimer has them; here a     *)
(* timer may expire whenever it is the head of the list), the pointers of  *)
(* the lists, the text of the answers, and allocation failures other than  *)
(* that of an io.  Sockets never fail here.                                *)
(***************************************************************************)
EXTENDS Integers, Sequences, SequencesExt

CONSTANTS
  Addr,          \* addresses of the nodes that may exist
  Conf,          \* nodes the configuration declares (bano_add_node)
  NewNodes,      \* TRUE iff BANO_BASE_FLAG_NEW_NODES is set
  Key, Val,      \* keys and values of the nodes
  Nodl,          \* for a node of Conf, the keys its node description lists
  Io,            \* memory for bano_io_t: one element per live io
  RetryCount,    \* BANO_RETRY_COUNT
  AppRequests,   \* what the application may post
  HttpRequests,  \* what a browser may ask the HTTP server
  Messages,      \* radio messages that may arrive
  HasLoopTimer,  \* TRUE iff linfo->timer_fn is set
  LoopTimer,     \* the timer of linfo->timer_fn, in base->timers
  None           \* no io, no request, no value

Request == [op : {"get", "set"}, addr : Addr, key : Key, val : Val, ack : BOOLEAN]

HttpRequest ==
  [op : {"get", "set", "rst", "cam", "none"}, addr : Addr, key : Key, val : Val,
   ack : BOOLEAN]

Message ==
  [op : {"get", "set"}, addr : Addr, key : Key, val : Val,
   reply : BOOLEAN, err : BOOLEAN]

(* compl_err of an io or of an HTTP message, and compl_val beside it.      *)
ComplErr == {"success", "failure", "timeout"}
Answer == [err : ComplErr, val : Val]

(* A bano_io_t.  `sent' counts its transmissions: the code has no such     *)
(* field, it is history for the properties.                                *)
IoRec == [req : Request, via : {"app", "http"}, retry : Nat, sent : Nat]

ASSUME ConstantsOK ==
  /\ Conf \subseteq Addr
  /\ NewNodes \in BOOLEAN
  /\ HasLoopTimer \in BOOLEAN
  /\ 0 \in Val
  /\ Nodl \in [Conf -> SUBSET Key]
  /\ RetryCount \in Nat
  /\ AppRequests \subseteq Request
  /\ HttpRequests \subseteq HttpRequest
  /\ Messages \subseteq Message
  /\ LoopTimer \notin Io
  /\ None \notin Val \cup HttpRequest \cup IoRec

VARIABLES
  nodes,    \* addresses of base->nodes
  store,    \* store[a][k]: keyval_pairs of node a, None if k was never set
  io,       \* io[i]: contents of memory i, None when it is free
  posted,   \* posted[a]: node a's posted_ios
  pending,  \* pending[a]: node a's pending_ios, each with a timer armed
  timers,   \* base->timers, soonest first
  writing,  \* write_msg is emptying the posted lists
  thread,   \* the HTTP server thread: "idle", or "blocked" on its request
  pipe,     \* its request, while the loop has not read it
  answer    \* what the last HTTP request was answered with

vars == <<nodes, store, io, posted, pending, timers, writing, thread, pipe, answer>>
lists == <<posted, pending, timers>>

TypeOK ==
  /\ nodes \in SUBSET Addr
  /\ store \in [Addr -> [Key -> Val \cup {None}]]
  /\ io \in [Io -> IoRec \cup {None}]
  /\ posted \in [Addr -> Seq(Io)]
  /\ pending \in [Addr -> Seq(Io)]
  /\ timers \in Seq(Io \cup {LoopTimer})
  /\ writing \in BOOLEAN
  /\ thread \in {"idle", "blocked"}
  /\ pipe \in HttpRequest \cup {None}
  /\ answer \in Answer
-----------------------------------------------------------------------------
(* What the handlers are built from.                                       *)

(* bano_alloc_get_io always sets BANO_IO_FLAG_REPLY, bano_alloc_set_io     *)
(* only when an acknowledgement is asked for.                              *)
NeedsReply(r) == r.op = "get" \/ r.ack

NewIo(r, via) == [req |-> r, via |-> via, retry |-> RetryCount, sent |-> 0]

Sent(rec) == [rec EXCEPT !.sent = @ + 1]

RetriedForever(rec) == rec    \* mutant: retry_count is not decremented
Retried(rec) == [rec EXCEPT !.retry = @ - 1]

(* A new io at the tail of its node's posted list.                         *)
Post(i, r, via) ==
  /\ io[i] = None
  /\ io' = [io EXCEPT ![i] = NewIo(r, via)]
  /\ posted' = [posted EXCEPT ![r.addr] = Append(@, i)]

AnswerUnsignalled(err, val) ==    \* mutant: the condition is not signalled
  /\ UNCHANGED thread
  /\ answer' = [err |-> err, val |-> val]

(* complete_httpd_msg: the answer goes out and the server thread wakes up. *)
AnswerHttp(err, val) ==
  /\ thread' = "idle"
  /\ answer' = [err |-> err, val |-> val]

CompleteSilently(i, err, val) ==    \* mutant: freed without compl_fn
  /\ io' = [io EXCEPT ![i] = None]
  /\ UNCHANGED <<thread, answer>>

(* compl_fn followed by bano_free_io.                                      *)
Complete(i, err, val) ==
  /\ io' = [io EXCEPT ![i] = None]
  /\ IF io[i].via = "http" THEN AnswerHttp(err, val) ELSE UNCHANGED <<thread, answer>>

(* A node that was discovered rather than configured has no description,   *)
(* and then any key is accepted.                                           *)
KeyKnown(a, k) == a \in Conf => k \in Nodl[a]

AnswersAnyValue(m, i) == m.key = io[i].req.key    \* mutant: value not compared

(* cmp_pending_io: does message m answer the pending io i?                 *)
Answers(m, i) ==
  /\ io[i].req.op = "set" => m.val = io[i].req.val
  /\ m.key = io[i].req.key

(* find_pending_io: the first pending io of the node that m answers.       *)
FirstAnswered(m, j) ==
  /\ Answers(m, pending[m.addr][j])
  /\ \A l \in 1..(j - 1) : ~ Answers(m, pending[m.addr][l])

ArmFirst(i) == timers' = <<i>> \o timers    \* mutant: delays compared backwards
ArmNone(i) == timers' = timers    \* mutant: bano_timer_add is forgotten

(* bano_timer_add: retry_ms is the largest delay in use, so the timer goes *)
(* last.                                                                   *)
ArmTimer(i) == timers' = Append(timers, i)

KeepTimer(i) == timers' = timers    \* mutant: bano_timer_del is forgotten

DeleteTimer(i) ==
  \E t \in DOMAIN timers : timers[t] = i /\ timers' = RemoveAt(timers, t)

InsertAnywhere(s, e) == {InsertAt(s, p, e) : p \in 1..(Len(s) + 1)}
-----------------------------------------------------------------------------
(* The application posts an io to a node of the base, from one of the      *)
(* callbacks of the loop.                                                  *)
AppPost(i, r) ==
  /\ ~ writing
  /\ r.addr \in nodes
  /\ Post(i, r, "app")
  /\ UNCHANGED <<nodes, store, pending, timers, writing, thread, pipe, answer>>

(* The server thread has parsed a browser's request: it writes it to the   *)
(* pipe and waits.  It is the only server thread, so no other request can  *)
(* be on its way.                                                          *)
HttpSubmit(q) ==
  /\ thread = "idle"
  /\ thread' = "blocked"
  /\ pipe' = q
  /\ UNCHANGED <<nodes, store, io, lists, writing, answer>>

(* handle_httpd_msg, GET or SET for a known node: an io is posted, and the *)
(* thread stays blocked until it completes.                                *)
HttpPost(i) ==
  /\ ~ writing /\ pipe # None
  /\ pipe.op \in {"get", "set"} /\ pipe.addr \in nodes
  /\ Post(i, pipe, "http")
  /\ pipe' = None
  /\ UNCHANGED <<nodes, store, pending, timers, writing, thread, answer>>

(* GET, SET or RST for a node the base does not know, or no memory left    *)
(* for an io: answered at once with a failure.                             *)
HttpRefuse ==
  /\ ~ writing /\ pipe # None
  /\ \/ pipe.op \in {"get", "set", "rst"} /\ pipe.addr \notin nodes
     \/ pipe.op \in {"get", "set"} /\ \A i \in Io : io[i] # None
  /\ AnswerHttp("failure", 0)
  /\ pipe' = None
  /\ UNCHANGED <<nodes, store, io, lists, writing>>

(* RST: the table's value for the key becomes 0; the node is not told.     *)
HttpReset ==
  /\ ~ writing /\ pipe # None
  /\ pipe.op = "rst" /\ pipe.addr \in nodes
  /\ store' = [store EXCEPT ![pipe.addr][pipe.key] = 0]
  /\ AnswerHttp("success", 0)
  /\ pipe' = None
  /\ UNCHANGED <<nodes, io, lists, writing>>

(* CAM answers with the result of the capture, no operation with success.  *)
HttpOther ==
  /\ ~ writing /\ pipe # None
  /\ pipe.op \in {"cam", "none"}
  /\ \E err \in {"success", "failure"} :
       /\ pipe.op = "none" => err = "success"
       /\ AnswerHttp(err, 0)
  /\ pipe' = None
  /\ UNCHANGED <<nodes, store, io, lists, writing>>
-----------------------------------------------------------------------------
(* Radio messages.  One from an address the base does not know is dropped, *)
(* unless new nodes are accepted: then the node joins first.  A SET        *)
(* without the error flag updates the table before anything is completed.  *)
Accepts(m) == m.addr \in nodes \/ NewNodes

Learn(m) ==
  /\ nodes' = nodes \cup {m.addr}
  /\ store' = IF m.op = "set" /\ ~ m.err /\ KeyKnown(m.addr, m.key)
                THEN [store EXCEPT ![m.addr][m.key] = m.val]
                ELSE store

(* A message that completes no io: a GET, a notification, or a reply that  *)
(* nothing pending was waiting for, an io that is posted again included.   *)
HandleMsg(m) ==
  /\ ~ writing
  /\ Accepts(m)
  /\ m.op = "set" /\ m.reply =>
       \A j \in DOMAIN pending[m.addr] : ~ Answers(m, pending[m.addr][j])
  /\ Learn(m)
  /\ UNCHANGED <<io, lists, writing, thread, pipe, answer>>

HandleUnflagged(m) ==    \* mutant: BANO_MSG_FLAG_REPLY is not tested
  /\ ~ writing
  /\ Accepts(m)
  /\ m.op = "set"
  /\ Learn(m)
  /\ \E j \in DOMAIN pending[m.addr] :
       LET i == pending[m.addr][j] IN
       /\ FirstAnswered(m, j)
       /\ IF m.err THEN Complete(i, "failure", 0) ELSE Complete(i, "success", m.val)
       /\ pending' = [pending EXCEPT ![m.addr] = RemoveAt(@, j)]
       /\ DeleteTimer(i)
  /\ UNCHANGED <<posted, writing, pipe>>

(* A reply to a pending io: the io completes and its timer is deleted.     *)
HandleReply(m) ==
  /\ ~ writing
  /\ Accepts(m)
  /\ m.op = "set" /\ m.reply
  /\ Learn(m)
  /\ \E j \in DOMAIN pending[m.addr] :
       LET i == pending[m.addr][j] IN
       /\ FirstAnswered(m, j)
       /\ IF m.err THEN Complete(i, "failure", 0) ELSE Complete(i, "success", m.val)
       /\ pending' = [pending EXCEPT ![m.addr] = RemoveAt(@, j)]
       /\ DeleteTimer(i)
  /\ UNCHANGED <<posted, writing, pipe>>
-----------------------------------------------------------------------------
(* select reports the radio writable for a node with posted ios; write_msg *)
(* then posts every io of every node, post_io one of them.                 *)
StartWrite ==
  /\ ~ writing
  /\ \E a \in nodes : posted[a] # <<>>
  /\ writing' = TRUE
  /\ UNCHANGED <<nodes, store, io, lists, thread, pipe, answer>>

PopPosted(a) ==
  /\ writing
  /\ posted[a] # <<>>
  /\ posted' = [posted EXCEPT ![a] = Tail(@)]
  /\ writing' = (\E b \in nodes : posted'[b] # <<>>)

(* An io that waits for a reply becomes pending, with a timer armed.       *)
WriteAwaited(a) ==
  LET i == Head(posted[a]) IN
  /\ PopPosted(a)
  /\ NeedsReply(io[i].req)
  /\ io' = [io EXCEPT ![i] = Sent(@)]
  /\ pending' = [pending EXCEPT ![a] = Append(@, i)]
  /\ ArmTimer(i)
  /\ UNCHANGED <<nodes, store, thread, pipe, answer>>

(* Any other io completes as soon as it is written.                        *)
WriteUnawaited(a) ==
  LET i == Head(posted[a]) IN
  /\ PopPosted(a)
  /\ ~ NeedsReply(io[i].req)
  /\ Complete(i, "success", 0)
  /\ UNCHANGED <<nodes, store, pending, timers, pipe>>
-----------------------------------------------------------------------------
PopTimerOnly(i) ==    \* mutant: the io stays in the pending list
  /\ ~ writing
  /\ timers # <<>> /\ i = Head(timers)
  /\ timers' = Tail(timers)
  /\ UNCHANGED pending

(* The head timer expires.  That of an io takes the io out of its node's   *)
(* pending list.                                                           *)
PopTimer(i) ==
  /\ ~ writing
  /\ timers # <<>> /\ i = Head(timers)
  /\ timers' = Tail(timers)
  /\ LET a == io[i].req.addr IN
     \E j \in DOMAIN pending[a] :
       pending[a][j] = i /\ pending' = [pending EXCEPT ![a] = RemoveAt(@, j)]

RetryUnchecked(i) ==    \* mutant: retry_count is decremented below 0
  /\ PopTimer(i)
  /\ io' = [io EXCEPT ![i] = Retried(@)]
  /\ posted' = [posted EXCEPT ![io[i].req.addr] = Append(@, i)]
  /\ UNCHANGED <<nodes, store, writing, thread, pipe, answer>>

(* retry_count is not yet 0: the io is posted again.                       *)
ExpireRetry(i) ==
  /\ PopTimer(i)
  /\ io[i].retry > 0
  /\ io' = [io EXCEPT ![i] = Retried(@)]
  /\ posted' = [posted EXCEPT ![io[i].req.addr] = Append(@, i)]
  /\ UNCHANGED <<nodes, store, writing, thread, pipe, answer>>

TimeoutEarly(i) ==    \* mutant: --retry_count instead of retry_count--
  /\ PopTimer(i)
  /\ io[i].retry <= 1
  /\ Complete(i, "timeout", 0)
  /\ UNCHANGED <<nodes, store, posted, writing, pipe>>

(* retry_count is 0: the io completes with a timeout.                      *)
ExpireTimeout(i) ==
  /\ PopTimer(i)
  /\ io[i].retry = 0
  /\ Complete(i, "timeout", 0)
  /\ UNCHANGED <<nodes, store, posted, writing, pipe>>

(* The loop timer: timer_fn runs and the next iteration arms it again,     *)
(* wherever its delay falls among those of the ios.                        *)
ExpireLoop ==
  /\ ~ writing
  /\ timers # <<>> /\ Head(timers) = LoopTimer
  /\ timers' \in InsertAnywhere(Tail(timers), LoopTimer)
  /\ UNCHANGED <<nodes, store, io, posted, pending, writing, thread, pipe, answer>>

Expire == ExpireLoop \/ \E i \in Io : ExpireRetry(i) \/ ExpireTimeout(i)
-----------------------------------------------------------------------------
Init ==
  /\ nodes = Conf
  /\ store = [a \in Addr |-> [k \in Key |-> None]]
  /\ io = [i \in Io |-> None]
  /\ posted = [a \in Addr |-> <<>>]
  /\ pending = [a \in Addr |-> <<>>]
  /\ timers = IF HasLoopTimer THEN <<LoopTimer>> ELSE <<>>
  /\ writing = FALSE
  /\ thread = "idle"
  /\ pipe = None
  /\ answer = [err |-> "success", val |-> 0]

ReadPipe == (\E i \in Io : HttpPost(i)) \/ HttpRefuse \/ HttpReset \/ HttpOther

Write == \E a \in nodes : WriteAwaited(a) \/ WriteUnawaited(a)

Next ==
  \/ \E i \in Io, r \in AppRequests : AppPost(i, r)
  \/ \E q \in HttpRequests : HttpSubmit(q)
  \/ ReadPipe
  \/ \E m \in Messages : HandleMsg(m) \/ HandleReply(m)
  \/ StartWrite
  \/ Write
  \/ Expire

Spec == Init /\ [][Next]_vars
-----------------------------------------------------------------------------
(* Where an io is.                                                         *)
Live == {i \in Io : io[i] # None}

(***************************************************************************)
(* Every io that was allocated and not freed is in exactly one list of the *)
(* node it was posted to, posted or pending, once; no list holds a freed   *)
(* io.  post_io, find_pending_io and the expiry of a timer each move an io *)
(* between lists by hand: forgetting one side leaks the io, and with it    *)
(* the browser that waits; doing both is a use after free.                 *)
(***************************************************************************)
OwnedOnce ==
  /\ \A a \in Addr :
       /\ IsInjective(posted[a]) /\ IsInjective(pending[a])
       /\ ToSet(posted[a]) \cap ToSet(pending[a]) = {}
       /\ \A i \in ToSet(posted[a]) \cup ToSet(pending[a]) :
            i \in Live /\ io[i].req.addr = a
  /\ \A i \in Live :
       LET a == io[i].req.addr IN i \in ToSet(posted[a]) \cup ToSet(pending[a])

(***************************************************************************)
(* base->timers holds one timer for each pending io, and none for any      *)
(* other io: timer->data points into the pending list, so a timer that     *)
(* outlives its io would be dereferenced when it expires, and a pending io *)
(* without a timer would wait forever for a lost reply.                    *)
(***************************************************************************)
TimerPerPendingIo ==
  /\ IsInjective(timers)
  /\ \A i \in Io : i \in ToSet(timers) <=>
                       i \in Live /\ i \in ToSet(pending[io[i].req.addr])
  /\ HasLoopTimer <=> LoopTimer \in ToSet(timers)

(***************************************************************************)
(* The timers of a node's pending ios expire in the order of its pending   *)
(* list, so that an expiry always takes the head of that list, the io that *)
(* find_pending_io would have matched first.                               *)
(***************************************************************************)
ExpiresInOrder ==
  \A x, y \in DOMAIN timers : x < y /\ timers[x] \in Io /\ timers[y] \in Io =>
    \A a \in Addr : \A p, q \in DOMAIN pending[a] :
      pending[a][p] = timers[x] /\ pending[a][q] = timers[y] => p < q

(***************************************************************************)
(* Transmissions made and retries left add up: an io is sent at most       *)
(* 1 + BANO_RETRY_COUNT times, whatever the interleaving of expiries,      *)
(* reposts and late replies ("retry 3 times", bano_base.c:2105).  Only an  *)
(* io that waits for a reply is ever pending.                              *)
(***************************************************************************)
SendBudget ==
  \A i \in Live :
    LET a == io[i].req.addr IN
    /\ i \in ToSet(posted[a]) => io[i].sent + io[i].retry = RetryCount
    /\ i \in ToSet(pending[a]) =>
         NeedsReply(io[i].req) /\ io[i].sent + io[i].retry = RetryCount + 1

(***************************************************************************)
(* A browser that waits is owed exactly one answer: its request is in the  *)
(* pipe, or exactly one live io will answer it, never both and never none; *)
(* and no io answers a browser that is not waiting.  on_event blocks the   *)
(* only server thread with no time limit, so a lost completion would stop  *)
(* the HTTP server for good.                                               *)
(***************************************************************************)
HttpIos == {i \in Live : io[i].via = "http"}
OneAnswerOwed ==
  /\ \A i, j \in HttpIos : i = j
  /\ pipe # None => HttpIos = {}
  /\ thread = "blocked" <=> pipe # None \/ HttpIos # {}

(***************************************************************************)
(* The loop keeps its side of the contract with the server thread: it      *)
(* reads a request once, and answers each one it has read, once.           *)
(***************************************************************************)
Contract == INSTANCE RequestReply WITH
  request <- IF pipe # None THEN "piped"
             ELSE IF HttpIos # {} THEN "held" ELSE "none"
ImplementsRequestReply == Contract!Spec

(***************************************************************************)
(* A browser is told "timeout" only after every transmission allowed was   *)
(* made, and no io is given up while it is posted.                         *)
(***************************************************************************)
GivesUpLast ==
  [][thread = "blocked" /\ thread' = "idle" /\ answer'.err = "timeout" =>
       \E i \in HttpIos : io'[i] = None /\ io[i].sent = RetryCount + 1]_vars

(***************************************************************************)
(* "add to node pairs before possibly completing (generating html ...)",   *)
(* bano_base.c:1138.  When an io that waited for a reply succeeds, the     *)
(* answer and the table the page shows agree on the value of the key, and  *)
(* a SET that is acknowledged left the value that was asked for.           *)
(***************************************************************************)
PageShowsAnswer ==
  [][\A i \in HttpIos :
       LET r == io[i].req IN
       io'[i] = None /\ answer'.err = "success" /\ NeedsReply(r) =>
         /\ KeyKnown(r.addr, r.key) => store'[r.addr][r.key] = answer'.val
         /\ r.op = "set" => answer'.val = r.val]_vars
-----------------------------------------------------------------------------
(***************************************************************************)
(* The loop runs: select reports the radio writable, and write_msg runs to *)
(* its end.  An iteration reads the pipe before it writes, and each select *)
(* deducts what it slept from the head timer, so that neither the pipe nor *)
(* the head timer is passed over forever by iterations that write (strong  *)
(* fairness, as `writing' disables both each time).  Nothing is assumed of *)
(* the radio, of the application or of the browser.                        *)
(***************************************************************************)
Fairness ==
  /\ SF_vars(ReadPipe)
  /\ WF_vars(StartWrite)
  /\ WF_vars(Write)
  /\ SF_vars(Expire)

FairSpec == Spec /\ Fairness

(***************************************************************************)
(* Every io that is posted is completed and freed in the end, even if no   *)
(* reply ever comes.                                                       *)
(***************************************************************************)
IoRetired == \A i \in Io : io[i] # None ~> io[i] = None

(***************************************************************************)
(* A browser's request is answered in the end, whatever the nodes do and   *)
(* however many messages arrive.                                           *)
(***************************************************************************)
BrowserAnswered == thread = "blocked" ~> thread = "idle"
=============================================================================
