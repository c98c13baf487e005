--------------------------- MODULE BanoBase_proofs ---------------------------
(***************************************************************************)
(* The ios of the base are never leaked, freed twice or used after they    *)
(* are freed, each pending io has exactly one timer, and a waiting browser *)
(* is owed exactly one answer: for any number of nodes, ios and retries,   *)
(* and any messages.  With the nodes (BanoSystem), the answer is a value   *)
(* that the node had since the browser asked.                              *)
(***************************************************************************)
EXTENDS BanoSystem, SeqLemmas

(* None of the parts is inductive alone: the expiry of a timer finds its   *)
(* io live because TimerPerPendingIo says the io is pending and OwnedOnce  *)
(* that what is pending is live, and both are re-established only because  *)
(* the lists hold no io twice.                                             *)
IInv ==
  /\ TypeOK
  /\ OwnedOnce
  /\ TimerPerPendingIo
  /\ SendBudget
  /\ OneAnswerOwed

(* A request of the HTTP server to get or set a key is one an io may carry. *)
LEMMA HttpRequestIsRequest ==
  ASSUME NEW q \in HttpRequest, q.op \in {"get", "set"}
  PROVE  q \in Request
BY DEF HttpRequest, Request

LEMMA InitIInv == Init => IInv
<1> SUFFICES ASSUME Init PROVE IInv
  OBVIOUS
<1> USE ConstantsOK DEF ConstantsOK, Init
<1>1. TypeOK
  <2>1. timers \in Seq(Io \cup {LoopTimer})
    <3>1. <<>> \in Seq(Io \cup {LoopTimer}) /\ <<LoopTimer>> \in Seq(Io \cup {LoopTimer})
      OBVIOUS
    <3> QED BY <3>1
  <2>2. answer \in Answer
    BY DEF Answer, ComplErr
  <2>3. posted \in [Addr -> Seq(Io)] /\ pending \in [Addr -> Seq(Io)]
    OBVIOUS
  <2> QED BY <2>1, <2>2, <2>3 DEF TypeOK
<1>2. /\ \A a \in Addr : ToSet(posted[a]) = {} /\ ToSet(pending[a]) = {}
      /\ \A a \in Addr : IsInjective(posted[a]) /\ IsInjective(pending[a])
      /\ IsInjective(timers)
      /\ ToSet(timers) = IF HasLoopTimer THEN {LoopTimer} ELSE {}
      /\ Live = {}
  BY DEF ToSet, IsInjective, Live
<1>3. OwnedOnce
  BY <1>2 DEF OwnedOnce
<1>4. TimerPerPendingIo
  BY <1>2 DEF TimerPerPendingIo
<1>5. SendBudget
  BY <1>2 DEF SendBudget
<1>6. OneAnswerOwed
  BY <1>2 DEF OneAnswerOwed, HttpIos
<1> QED BY <1>1, <1>3, <1>4, <1>5, <1>6 DEF IInv
-----------------------------------------------------------------------------
(* Posting an io, for the application or for the HTTP server.  What is not *)
(* said of the server thread is left to the callers.                       *)
LEMMA PostIInv ==
  ASSUME IInv, NEW i \in Io, NEW r \in Request, NEW via \in {"app", "http"},
         Post(i, r, via), UNCHANGED <<nodes, store, pending, timers, writing>>,
         thread' \in {"idle", "blocked"}, pipe' \in HttpRequest \cup {None},
         answer' \in Answer
  PROVE  /\ TypeOK' /\ OwnedOnce' /\ TimerPerPendingIo' /\ SendBudget'
         /\ HttpIos' = IF via = "http" THEN HttpIos \cup {i} ELSE HttpIos
         /\ i \notin HttpIos
<1> USE ConstantsOK DEF ConstantsOK
<1> DEFINE b == r.addr
<1>1. /\ io[i] = None
      /\ io' = [io EXCEPT ![i] = NewIo(r, via)]
      /\ posted' = [posted EXCEPT ![b] = Append(@, i)]
      /\ pending' = pending /\ timers' = timers
  BY DEF Post
<1>2. b \in Addr /\ NewIo(r, via) \in IoRec /\ NewIo(r, via) # None
      /\ NewIo(r, via).req = r /\ NewIo(r, via).via = via
      /\ NewIo(r, via).sent = 0 /\ NewIo(r, via).retry = RetryCount
  BY DEF Request, NewIo, IoRec
<1>3. TypeOK
  BY DEF IInv
<1>4. \A a \in Addr : i \notin ToSet(posted[a]) /\ i \notin ToSet(pending[a])
  BY <1>1 DEF IInv, OwnedOnce, Live
<1>5. /\ Append(posted[b], i) \in Seq(Io)
      /\ ToSet(Append(posted[b], i)) = ToSet(posted[b]) \cup {i}
      /\ IsInjective(Append(posted[b], i))
  BY <1>2, <1>3, <1>4, AppendElements DEF TypeOK, IInv, OwnedOnce
<1>6. TypeOK'
  BY <1>1, <1>2, <1>3, <1>5 DEF TypeOK
<1>7. /\ posted'[b] = Append(posted[b], i)
      /\ \A a \in Addr : a # b => posted'[a] = posted[a]
      /\ \A j \in Io : j # i => io'[j] = io[j]
      /\ io'[i] = NewIo(r, via)
      /\ Live' = Live \cup {i} /\ i \notin Live
  BY <1>1, <1>2, <1>3 DEF TypeOK, Live
<1> HIDE DEF b
<1>8. OwnedOnce'
  <2>1. ASSUME NEW a \in Addr
        PROVE  /\ IsInjective(posted'[a]) /\ IsInjective(pending'[a])
               /\ ToSet(posted'[a]) \cap ToSet(pending'[a]) = {}
               /\ \A j \in ToSet(posted'[a]) \cup ToSet(pending'[a]) :
                    j \in Live' /\ io'[j].req.addr = a
    <3>1. /\ IsInjective(posted[a]) /\ IsInjective(pending[a])
          /\ ToSet(posted[a]) \cap ToSet(pending[a]) = {}
          /\ \A j \in ToSet(posted[a]) \cup ToSet(pending[a]) :
               j \in Live /\ j \in Io /\ io[j].req.addr = a
          /\ pending'[a] = pending[a]
          /\ i \notin ToSet(pending[a])
      BY <1>1, <1>4 DEF IInv, OwnedOnce, Live
    <3>2. CASE a = b
      <4>1. /\ IsInjective(posted'[a])
            /\ ToSet(posted'[a]) = ToSet(posted[a]) \cup {i}
        BY <3>2, <1>5, <1>7
      <4>2. io'[i].req.addr = a
        BY <3>2, <1>2, <1>7 DEF b
      <4> QED BY <3>1, <4>1, <4>2, <1>7
    <3>3. CASE a # b
      BY <3>1, <3>3, <1>7
    <3> QED BY <3>2, <3>3
  <2>2. ASSUME NEW j \in Live'
        PROVE  j \in ToSet(posted'[io'[j].req.addr]) \cup ToSet(pending'[io'[j].req.addr])
    <3>1. CASE j = i
      BY <3>1, <1>2, <1>5, <1>7 DEF b
    <3>2. CASE j # i
      <4>1. j \in Live /\ io'[j] = io[j] /\ j \in Io
        BY <3>2, <1>7 DEF Live
      <4>2. io[j].req.addr \in Addr
        BY <4>1, <1>3 DEF TypeOK, IoRec, Request, Live
      <4> QED BY <4>1, <4>2, <1>1, <1>5, <1>7 DEF IInv, OwnedOnce
    <3> QED BY <3>1, <3>2
  <2> QED BY <2>1, <2>2 DEF OwnedOnce
<1>9. TimerPerPendingIo'
  <2>1. ASSUME NEW j \in Io
        PROVE  j \in ToSet(timers') <=>
                 j \in Live' /\ j \in ToSet(pending'[io'[j].req.addr])
    <3>1. CASE j = i
      BY <3>1, <1>1, <1>2, <1>4, <1>7 DEF IInv, TimerPerPendingIo, b
    <3>2. CASE j # i
      BY <3>2, <1>1, <1>7 DEF IInv, TimerPerPendingIo
    <3> QED BY <3>1, <3>2
  <2> QED BY <2>1, <1>1 DEF IInv, TimerPerPendingIo
<1>10. SendBudget'
  <2> SUFFICES ASSUME NEW j \in Live'
               PROVE  /\ j \in ToSet(posted'[io'[j].req.addr]) =>
                           io'[j].sent + io'[j].retry = RetryCount
                      /\ j \in ToSet(pending'[io'[j].req.addr]) =>
                           /\ NeedsReply(io'[j].req)
                           /\ io'[j].sent + io'[j].retry = RetryCount + 1
    BY DEF SendBudget, NeedsReply
  <2>1. CASE j = i
    BY <2>1, <1>1, <1>2, <1>4, <1>7 DEF b
  <2>2. CASE j # i
    <3>1. j \in Live /\ io'[j] = io[j] /\ j \in Io
      BY <2>2, <1>7 DEF Live
    <3>2. io[j].req.addr \in Addr
      BY <3>1, <1>3 DEF TypeOK, IoRec, Request, Live
    <3>3. j \in ToSet(posted'[io[j].req.addr]) => j \in ToSet(posted[io[j].req.addr])
      BY <2>2, <3>2, <1>5, <1>7
    <3> QED BY <3>1, <3>2, <3>3, <1>1 DEF IInv, SendBudget
  <2> QED BY <2>1, <2>2
<1>11. HttpIos' = IF via = "http" THEN HttpIos \cup {i} ELSE HttpIos
  BY <1>2, <1>7 DEF HttpIos, Live
<1>12. i \notin HttpIos
  BY <1>7 DEF HttpIos
<1> QED BY <1>6, <1>8, <1>9, <1>10, <1>11, <1>12
-----------------------------------------------------------------------------
(* What a transmission and an expiry do to an io.                          *)
LEMMA IoRecUpdates ==
  ASSUME NEW x \in IoRec
  PROVE  /\ x.sent \in Nat /\ x.retry \in Nat
         /\ Sent(x) \in IoRec /\ Sent(x).req = x.req /\ Sent(x).via = x.via
         /\ Sent(x).sent = x.sent + 1 /\ Sent(x).retry = x.retry
         /\ Retried(x).req = x.req /\ Retried(x).via = x.via
         /\ Retried(x).sent = x.sent /\ Retried(x).retry = x.retry - 1
         /\ x.retry > 0 => Retried(x) \in IoRec
<1>1. PICK req \in Request, via \in {"app", "http"}, retry \in Nat, sent \in Nat :
        x = [req |-> req, via |-> via, retry |-> retry, sent |-> sent]
  BY DEF IoRec
<1>2. Sent(x) = [req |-> req, via |-> via, retry |-> retry, sent |-> sent + 1]
  BY <1>1 DEF Sent
<1>3. Retried(x) = [req |-> req, via |-> via, retry |-> retry - 1, sent |-> sent]
  BY <1>1 DEF Retried
<1>4. x.retry > 0 => retry - 1 \in Nat
  BY <1>1
<1> QED BY <1>1, <1>2, <1>3, <1>4 DEF IoRec

(* What the invariant says of an io that sits in a list of node a.         *)
LEMMA Placement ==
  ASSUME IInv, NEW a \in Addr, NEW i \in ToSet(posted[a]) \cup ToSet(pending[a])
  PROVE  /\ i \in Io /\ i \in Live /\ io[i] \in IoRec /\ io[i].req.addr = a
         /\ i \in ToSet(posted[a]) => /\ i \notin ToSet(pending[a])
                                      /\ i \notin ToSet(timers)
                                      /\ io[i].sent + io[i].retry = RetryCount
         /\ i \in ToSet(pending[a]) => /\ i \notin ToSet(posted[a])
                                       /\ i \in ToSet(timers)
                                       /\ io[i].sent + io[i].retry = RetryCount + 1
         /\ \A b \in Addr : b # a => i \notin ToSet(posted[b]) /\ i \notin ToSet(pending[b])
<1>1. i \in Live /\ io[i].req.addr = a /\ i \in Io
  BY DEF IInv, OwnedOnce, Live
<1>2. io[i] \in IoRec
  BY <1>1 DEF IInv, TypeOK, Live
<1>3. \A b \in Addr : b # a => i \notin ToSet(posted[b]) /\ i \notin ToSet(pending[b])
  BY <1>1 DEF IInv, OwnedOnce
<1>4. ~ (i \in ToSet(posted[a]) /\ i \in ToSet(pending[a]))
  BY DEF IInv, OwnedOnce
<1>5. i \in ToSet(timers) <=> i \in ToSet(pending[a])
  BY <1>1 DEF IInv, TimerPerPendingIo
<1>6. /\ i \in ToSet(posted[a]) => io[i].sent + io[i].retry = RetryCount
      /\ i \in ToSet(pending[a]) => io[i].sent + io[i].retry = RetryCount + 1
  BY <1>1 DEF IInv, SendBudget
<1> QED BY <1>1, <1>2, <1>3, <1>4, <1>5, <1>6

(* An io that leaves every list as it is freed: find_pending_io and the    *)
(* timer's deletion, a last expiry, or the write of an io nobody awaits.   *)
LEMMA FreeLists ==
  ASSUME IInv, NEW i \in Live, NEW a \in Addr, io[i].req.addr = a,
         io' = [io EXCEPT ![i] = None],
         \A b \in Addr : b # a => posted'[b] = posted[b] /\ pending'[b] = pending[b],
         IsInjective(posted'[a]), ToSet(posted'[a]) = ToSet(posted[a]) \ {i},
         IsInjective(pending'[a]), ToSet(pending'[a]) = ToSet(pending[a]) \ {i},
         IsInjective(timers'), ToSet(timers') = ToSet(timers) \ {i}
  PROVE  /\ io' \in [Io -> IoRec \cup {None}]
         /\ OwnedOnce' /\ TimerPerPendingIo' /\ SendBudget'
         /\ HttpIos' = HttpIos \ {i}
<1> USE ConstantsOK DEF ConstantsOK
<1>1. /\ i \in Io /\ io \in [Io -> IoRec \cup {None}]
  BY DEF Live, IInv, TypeOK
<1>2. /\ io' \in [Io -> IoRec \cup {None}]
      /\ io'[i] = None /\ \A j \in Io : j # i => io'[j] = io[j]
      /\ Live' = Live \ {i}
  BY <1>1 DEF Live
<1>3. ASSUME NEW b \in Addr
      PROVE  /\ IsInjective(posted'[b]) /\ IsInjective(pending'[b])
             /\ ToSet(posted'[b]) = ToSet(posted[b]) \ {i}
             /\ ToSet(pending'[b]) = ToSet(pending[b]) \ {i}
  <2>1. CASE b = a
    BY <2>1
  <2>2. CASE b # a
    <3>1. i \notin ToSet(posted[b]) /\ i \notin ToSet(pending[b])
      BY <2>2 DEF IInv, OwnedOnce
    <3>2. IsInjective(posted[b]) /\ IsInjective(pending[b])
      BY DEF IInv, OwnedOnce
    <3> QED BY <2>2, <3>1, <3>2
  <2> QED BY <2>1, <2>2
<1>4. ASSUME NEW j \in Live'
      PROVE  /\ j \in Live /\ j \in Io /\ j # i /\ io'[j] = io[j]
             /\ io[j].req.addr \in Addr
  <2>1. j \in Live /\ j \in Io /\ j # i /\ io'[j] = io[j]
    BY <1>2 DEF Live
  <2>2. io[j] \in IoRec
    BY <2>1, <1>1 DEF Live
  <2> QED BY <2>1, <2>2 DEF IoRec, Request
<1>5. OwnedOnce'
  <2>1. ASSUME NEW b \in Addr
        PROVE  /\ IsInjective(posted'[b]) /\ IsInjective(pending'[b])
               /\ ToSet(posted'[b]) \cap ToSet(pending'[b]) = {}
               /\ \A j \in ToSet(posted'[b]) \cup ToSet(pending'[b]) :
                    j \in Live' /\ io'[j].req.addr = b
    <3>1. /\ ToSet(posted[b]) \cap ToSet(pending[b]) = {}
          /\ \A j \in ToSet(posted[b]) \cup ToSet(pending[b]) :
               j \in Live /\ j \in Io /\ io[j].req.addr = b
      BY DEF IInv, OwnedOnce, Live
    <3> QED BY <3>1, <1>2, <1>3
  <2>2. ASSUME NEW j \in Live'
        PROVE  j \in ToSet(posted'[io'[j].req.addr]) \cup ToSet(pending'[io'[j].req.addr])
    <3>1. j \in ToSet(posted[io[j].req.addr]) \cup ToSet(pending[io[j].req.addr])
      BY <1>4 DEF IInv, OwnedOnce
    <3> QED BY <3>1, <1>3, <1>4
  <2> QED BY <2>1, <2>2 DEF OwnedOnce
<1>6. TimerPerPendingIo'
  <2>1. ASSUME NEW j \in Io
        PROVE  j \in ToSet(timers') <=>
                 j \in Live' /\ j \in ToSet(pending'[io'[j].req.addr])
    <3>1. CASE j = i
      BY <3>1, <1>2
    <3>2. CASE j # i /\ j \in Live
      <4>1. j \in Live'
        BY <3>2, <1>2
      <4>2. j \in ToSet(timers) <=> j \in ToSet(pending[io[j].req.addr])
        BY <3>2 DEF IInv, TimerPerPendingIo
      <4> QED BY <4>1, <4>2, <1>3, <1>4, <3>2
    <3>3. CASE j # i /\ j \notin Live
      BY <3>3, <1>2 DEF IInv, TimerPerPendingIo
    <3> QED BY <3>1, <3>2, <3>3
  <2>2. HasLoopTimer <=> LoopTimer \in ToSet(timers')
    BY <1>1 DEF IInv, TimerPerPendingIo
  <2> QED BY <2>1, <2>2 DEF TimerPerPendingIo
<1>7. SendBudget'
  <2> SUFFICES ASSUME NEW j \in Live'
               PROVE  /\ j \in ToSet(posted'[io'[j].req.addr]) =>
                           io'[j].sent + io'[j].retry = RetryCount
                      /\ j \in ToSet(pending'[io'[j].req.addr]) =>
                           /\ NeedsReply(io'[j].req)
                           /\ io'[j].sent + io'[j].retry = RetryCount + 1
    BY DEF SendBudget, NeedsReply
  <2>1. /\ j \in ToSet(posted[io[j].req.addr]) => io[j].sent + io[j].retry = RetryCount
        /\ j \in ToSet(pending[io[j].req.addr]) =>
             NeedsReply(io[j].req) /\ io[j].sent + io[j].retry = RetryCount + 1
    BY <1>4 DEF IInv, SendBudget
  <2> QED BY <2>1, <1>3, <1>4
<1>8. HttpIos' = HttpIos \ {i}
  BY <1>2 DEF HttpIos, Live
<1> QED BY <1>2, <1>5, <1>6, <1>7, <1>8

(* An io that changes lists: it becomes pending when it is written, with a *)
(* timer armed, and posted again when that timer expires.                  *)
LEMMA MoveLists ==
  ASSUME IInv, NEW i \in Live, NEW a \in Addr, io[i].req.addr = a,
         NEW rec \in IoRec, rec.req = io[i].req, rec.via = io[i].via,
         io' = [io EXCEPT ![i] = rec],
         \A b \in Addr : b # a => posted'[b] = posted[b] /\ pending'[b] = pending[b],
         IsInjective(posted'[a]), IsInjective(pending'[a]), IsInjective(timers'),
         \/ /\ ToSet(posted'[a]) = ToSet(posted[a]) \ {i}
            /\ ToSet(pending'[a]) = ToSet(pending[a]) \cup {i}
            /\ ToSet(timers') = ToSet(timers) \cup {i}
            /\ NeedsReply(rec.req)
            /\ rec.sent + rec.retry = RetryCount + 1
         \/ /\ ToSet(posted'[a]) = ToSet(posted[a]) \cup {i}
            /\ ToSet(pending'[a]) = ToSet(pending[a]) \ {i}
            /\ ToSet(timers') = ToSet(timers) \ {i}
            /\ rec.sent + rec.retry = RetryCount
  PROVE  /\ io' \in [Io -> IoRec \cup {None}]
         /\ OwnedOnce' /\ TimerPerPendingIo' /\ SendBudget'
         /\ HttpIos' = HttpIos
<1> USE ConstantsOK DEF ConstantsOK
<1>1. /\ i \in Io /\ io \in [Io -> IoRec \cup {None}]
  BY DEF Live, IInv, TypeOK
<1>2. /\ io' \in [Io -> IoRec \cup {None}]
      /\ io'[i] = rec /\ rec # None /\ \A j \in Io : j # i => io'[j] = io[j]
      /\ Live' = Live
  BY <1>1 DEF Live
<1>3. ASSUME NEW b \in Addr, b # a
      PROVE  /\ posted'[b] = posted[b] /\ pending'[b] = pending[b]
             /\ i \notin ToSet(posted[b]) /\ i \notin ToSet(pending[b])
  BY <1>3 DEF IInv, OwnedOnce
<1>4. ASSUME NEW j \in Live
      PROVE  /\ j \in Io
             /\ io'[j].req = io[j].req /\ io'[j].via = io[j].via
             /\ io[j].req.addr \in Addr
             /\ j \in ToSet(posted[io[j].req.addr]) \cup ToSet(pending[io[j].req.addr])
             /\ j # i => io'[j] = io[j]
  <2>1. j \in Io /\ io[j] \in IoRec
    BY <1>1 DEF Live
  <2>2. io'[j].req = io[j].req /\ io'[j].via = io[j].via
    BY <2>1, <1>2
  <2>3. io[j].req.addr \in Addr
    BY <2>1 DEF IoRec, Request
  <2> QED BY <2>1, <2>2, <2>3, <1>2 DEF IInv, OwnedOnce
<1>5. OwnedOnce'
  <2>1. ASSUME NEW b \in Addr
        PROVE  /\ IsInjective(posted'[b]) /\ IsInjective(pending'[b])
               /\ ToSet(posted'[b]) \cap ToSet(pending'[b]) = {}
               /\ \A j \in ToSet(posted'[b]) \cup ToSet(pending'[b]) :
                    j \in Live' /\ io'[j].req.addr = b
    <3>1. /\ ToSet(posted[b]) \cap ToSet(pending[b]) = {}
          /\ IsInjective(posted[b]) /\ IsInjective(pending[b])
          /\ \A j \in ToSet(posted[b]) \cup ToSet(pending[b]) :
               j \in Live /\ io[j].req.addr = b
      BY DEF IInv, OwnedOnce
    <3>2. CASE b = a
      BY <3>1, <3>2, <1>2, <1>4
    <3>3. CASE b # a
      BY <3>1, <3>3, <1>2, <1>3, <1>4
    <3> QED BY <3>2, <3>3
  <2>2. ASSUME NEW j \in Live'
        PROVE  j \in ToSet(posted'[io'[j].req.addr]) \cup ToSet(pending'[io'[j].req.addr])
    <3>1. j \in Live
      BY <1>2
    <3>2. CASE io[j].req.addr = a
      BY <3>1, <3>2, <1>4
    <3>3. CASE io[j].req.addr # a
      BY <3>1, <3>3, <1>3, <1>4
    <3> QED BY <3>2, <3>3
  <2> QED BY <2>1, <2>2 DEF OwnedOnce
<1>6. TimerPerPendingIo'
  <2>1. ASSUME NEW j \in Io
        PROVE  j \in ToSet(timers') <=>
                 j \in Live' /\ j \in ToSet(pending'[io'[j].req.addr])
    <3>0. j \in ToSet(timers) <=> j \in Live /\ j \in ToSet(pending[io[j].req.addr])
      BY DEF IInv, TimerPerPendingIo
    <3>1. CASE j = i
      BY <3>1, <1>2, <1>4
    <3>2. CASE j # i /\ j \in Live
      <4>1. j \in ToSet(timers') <=> j \in ToSet(timers)
        BY <3>2
      <4>2. CASE io[j].req.addr = a
        BY <3>0, <3>2, <4>1, <4>2, <1>2, <1>4
      <4>3. CASE io[j].req.addr # a
        BY <3>0, <3>2, <4>1, <4>3, <1>2, <1>3, <1>4
      <4> QED BY <4>2, <4>3
    <3>3. CASE j # i /\ j \notin Live
      BY <3>0, <3>3, <1>2
    <3> QED BY <3>1, <3>2, <3>3
  <2>2. HasLoopTimer <=> LoopTimer \in ToSet(timers')
    BY <1>1 DEF IInv, TimerPerPendingIo
  <2> QED BY <2>1, <2>2 DEF TimerPerPendingIo
<1>7. SendBudget'
  <2> SUFFICES ASSUME NEW j \in Live'
               PROVE  /\ j \in ToSet(posted'[io'[j].req.addr]) =>
                           io'[j].sent + io'[j].retry = RetryCount
                      /\ j \in ToSet(pending'[io'[j].req.addr]) =>
                           /\ NeedsReply(io'[j].req)
                           /\ io'[j].sent + io'[j].retry = RetryCount + 1
    BY DEF SendBudget, NeedsReply
  <2>1. j \in Live
    BY <1>2
  <2>2. CASE j = i
    <3>1. ~ (i \in ToSet(posted[a]) /\ i \in ToSet(pending[a]))
      BY DEF IInv, OwnedOnce
    <3>2. io'[i] = rec /\ rec.req.addr = a
      BY <1>2
    <3> QED BY <2>2, <3>1, <3>2
  <2>3. CASE j # i
    <3>1. /\ j \in ToSet(posted[io[j].req.addr]) => io[j].sent + io[j].retry = RetryCount
          /\ j \in ToSet(pending[io[j].req.addr]) =>
               NeedsReply(io[j].req) /\ io[j].sent + io[j].retry = RetryCount + 1
      BY <2>1 DEF IInv, SendBudget
    <3>2. CASE io[j].req.addr = a
      BY <2>1, <2>3, <3>1, <3>2, <1>4
    <3>3. CASE io[j].req.addr # a
      BY <2>1, <2>3, <3>1, <3>3, <1>3, <1>4
    <3> QED BY <3>2, <3>3
  <2> QED BY <2>2, <2>3
<1>8. HttpIos' = HttpIos
  BY <1>2, <1>4 DEF HttpIos
<1> QED BY <1>2, <1>5, <1>6, <1>7, <1>8

(* Completing an io answers the browser iff it is the io the browser is    *)
(* owed, and then the browser is owed nothing more.                        *)
LEMMA CompleteAnswers ==
  ASSUME IInv, NEW i \in Live, NEW err \in ComplErr, NEW val \in Val,
         Complete(i, err, val), pipe' = pipe, HttpIos' = HttpIos \ {i}
  PROVE  /\ OneAnswerOwed'
         /\ thread' \in {"idle", "blocked"} /\ answer' \in Answer
<1>1. /\ \A x, y \in HttpIos : x = y
      /\ pipe # None => HttpIos = {}
      /\ thread = "blocked" <=> pipe # None \/ HttpIos # {}
      /\ thread \in {"idle", "blocked"} /\ answer \in Answer
  BY DEF IInv, OneAnswerOwed, TypeOK
<1>2. CASE io[i].via = "http"
  <2>1. i \in HttpIos /\ HttpIos = {i}
    BY <1>1, <1>2 DEF HttpIos
  <2>2. thread' = "idle" /\ answer' = [err |-> err, val |-> val]
    BY <1>2 DEF Complete, AnswerHttp
  <2> QED BY <1>1, <2>1, <2>2 DEF OneAnswerOwed, Answer
<1>3. CASE io[i].via # "http"
  <2>1. i \notin HttpIos
    BY <1>3 DEF HttpIos
  <2>2. thread' = thread /\ answer' = answer
    BY <1>3 DEF Complete
  <2> QED BY <1>1, <2>1, <2>2 DEF OneAnswerOwed
<1> QED BY <1>2, <1>3
-----------------------------------------------------------------------------
(* One lemma per action, or family of actions with the same effect.        *)

LEMMA AppPostIInv ==
  ASSUME IInv, NEW i \in Io, NEW r \in AppRequests, AppPost(i, r)
  PROVE  IInv'
<1>1. r \in Request
  BY ConstantsOK DEF ConstantsOK
<1>2. /\ Post(i, r, "app")
      /\ UNCHANGED <<nodes, store, pending, timers, writing, thread, pipe, answer>>
  BY DEF AppPost
<1>3. /\ thread' \in {"idle", "blocked"} /\ pipe' \in HttpRequest \cup {None}
      /\ answer' \in Answer
  BY <1>2 DEF IInv, TypeOK
<1>4. /\ TypeOK' /\ OwnedOnce' /\ TimerPerPendingIo' /\ SendBudget'
      /\ HttpIos' = HttpIos
  BY <1>1, <1>2, <1>3, PostIInv
<1>5. OneAnswerOwed'
  BY <1>2, <1>4 DEF IInv, OneAnswerOwed
<1> QED BY <1>4, <1>5 DEF IInv

LEMMA HttpPostIInv ==
  ASSUME IInv, NEW i \in Io, HttpPost(i)
  PROVE  IInv'
<1>1. /\ pipe # None /\ pipe.op \in {"get", "set"} /\ pipe' = None
      /\ Post(i, pipe, "http")
      /\ UNCHANGED <<nodes, store, pending, timers, writing, thread, answer>>
  BY DEF HttpPost
<1>2. /\ thread' \in {"idle", "blocked"} /\ pipe' \in HttpRequest \cup {None}
      /\ answer' \in Answer /\ pipe \in HttpRequest
  BY <1>1 DEF IInv, TypeOK
<1>3. pipe \in Request
  BY <1>1, <1>2, HttpRequestIsRequest
<1>4. /\ TypeOK' /\ OwnedOnce' /\ TimerPerPendingIo' /\ SendBudget'
      /\ HttpIos' = HttpIos \cup {i}
  BY <1>1, <1>2, <1>3, PostIInv
<1>5. HttpIos = {} /\ thread = "blocked"
  BY <1>1 DEF IInv, OneAnswerOwed
<1>6. OneAnswerOwed'
  BY <1>1, <1>4, <1>5 DEF OneAnswerOwed
<1> QED BY <1>4, <1>6 DEF IInv

(* Steps that leave the ios and the lists alone.                           *)
LEMMA NoIoIInv ==
  ASSUME IInv, UNCHANGED <<io, posted, pending>>,
         TypeOK', IsInjective(timers'), ToSet(timers') = ToSet(timers),
         OneAnswerOwed'
  PROVE  IInv'
<1>1. Live' = Live
  BY DEF Live
<1>2. OwnedOnce' /\ SendBudget'
  BY <1>1 DEF IInv, OwnedOnce, SendBudget, NeedsReply
<1>3. TimerPerPendingIo'
  BY <1>1 DEF IInv, TimerPerPendingIo
<1> QED BY <1>2, <1>3 DEF IInv

LEMMA HttpIInv ==
  ASSUME IInv,
         \/ \E q \in HttpRequests : HttpSubmit(q)
         \/ HttpRefuse \/ HttpReset \/ HttpOther
  PROVE  IInv'
<1> USE ConstantsOK DEF ConstantsOK
<1>1. TypeOK /\ OneAnswerOwed /\ IsInjective(timers)
  BY DEF IInv, TimerPerPendingIo
<1>2. UNCHANGED <<nodes, io, posted, pending, timers, writing>>
  BY DEF HttpSubmit, HttpRefuse, HttpReset, HttpOther, lists
<1>3. HttpIos' = HttpIos
  BY <1>2 DEF HttpIos, Live
<1>4. CASE \E q \in HttpRequests : HttpSubmit(q)
  <2>1. /\ thread = "idle" /\ thread' = "blocked" /\ pipe' \in HttpRequest
        /\ pipe' # None /\ store' = store /\ answer' = answer
    BY <1>4 DEF HttpSubmit
  <2>2. TypeOK'
    BY <1>1, <1>2, <2>1 DEF TypeOK
  <2>3. OneAnswerOwed'
    BY <1>1, <1>3, <2>1 DEF OneAnswerOwed
  <2> QED BY <1>1, <1>2, <2>2, <2>3, NoIoIInv
<1>5. CASE HttpRefuse \/ HttpReset \/ HttpOther
  <2>1. /\ pipe # None /\ pipe' = None /\ thread' = "idle"
        /\ answer' \in Answer
    BY <1>5 DEF HttpRefuse, HttpReset, HttpOther, AnswerHttp, Answer, ComplErr
  <2>2. store' \in [Addr -> [Key -> Val \cup {None}]]
    <3>1. CASE HttpReset
      <4>1. pipe.addr \in Addr /\ pipe.key \in Key
        BY <1>1, <2>1 DEF TypeOK, HttpRequest
      <4>2. store' = [store EXCEPT ![pipe.addr] = [store[pipe.addr] EXCEPT ![pipe.key] = 0]]
        BY <3>1 DEF HttpReset
      <4> QED BY <4>1, <4>2, <1>1 DEF TypeOK
    <3>2. CASE HttpRefuse \/ HttpOther
      BY <3>2, <1>1 DEF HttpRefuse, HttpOther, TypeOK
    <3> QED BY <1>5, <3>1, <3>2
  <2>3. TypeOK'
    BY <1>1, <1>2, <2>1, <2>2 DEF TypeOK
  <2>4. HttpIos = {}
    BY <1>1, <2>1 DEF OneAnswerOwed
  <2>5. OneAnswerOwed'
    BY <1>3, <2>1, <2>4 DEF OneAnswerOwed
  <2> QED BY <1>1, <1>2, <2>3, <2>5, NoIoIInv
<1> QED BY <1>4, <1>5

(* The part of a radio message that concerns the nodes and their values.   *)
LEMMA LearnType ==
  ASSUME TypeOK, NEW m \in Message, Learn(m)
  PROVE  nodes' \in SUBSET Addr /\ store' \in [Addr -> [Key -> Val \cup {None}]]
<1>1. m.addr \in Addr /\ m.key \in Key /\ m.val \in Val
  BY ConstantsOK DEF ConstantsOK, Message
<1> QED BY <1>1 DEF Learn, TypeOK

LEMMA HandleMsgIInv ==
  ASSUME IInv, NEW m \in Message, HandleMsg(m)
  PROVE  IInv'
<1>1. /\ UNCHANGED <<io, posted, pending, timers, writing, thread, pipe, answer>>
      /\ Learn(m)
  BY DEF HandleMsg, lists
<1>2. TypeOK'
  BY <1>1, LearnType DEF IInv, TypeOK
<1>3. OneAnswerOwed'
  BY <1>1 DEF IInv, OneAnswerOwed, HttpIos, Live
<1> QED BY <1>1, <1>2, <1>3, NoIoIInv DEF IInv, TimerPerPendingIo

LEMMA StartWriteIInv ==
  ASSUME IInv, StartWrite
  PROVE  IInv'
<1>1. UNCHANGED <<nodes, store, io, posted, pending, timers, thread, pipe, answer>>
  BY DEF StartWrite, lists
<1>2. TypeOK'
  BY <1>1 DEF IInv, TypeOK, StartWrite
<1>3. OneAnswerOwed'
  BY <1>1 DEF IInv, OneAnswerOwed, HttpIos, Live
<1> QED BY <1>1, <1>2, <1>3, NoIoIInv DEF IInv, TimerPerPendingIo

(* An io of a node of the base that a reply takes out of the pending list. *)
LEMMA HandleReplyIInv ==
  ASSUME IInv, NEW m \in Message, HandleReply(m)
  PROVE  IInv'
<1> USE ConstantsOK DEF ConstantsOK
<1> DEFINE a == m.addr
<1>1. a \in Addr /\ m.val \in Val
  BY DEF Message
<1>2. PICK j \in DOMAIN pending[a] :
        /\ \E err \in {"failure", "success"}, val \in Val :
             Complete(pending[a][j], err, val)
        /\ pending' = [pending EXCEPT ![a] = RemoveAt(@, j)]
        /\ \E t \in DOMAIN timers :
             timers[t] = pending[a][j] /\ timers' = RemoveAt(timers, t)
  <2>1. PICK j \in DOMAIN pending[a] :
          /\ IF m.err THEN Complete(pending[a][j], "failure", 0)
                      ELSE Complete(pending[a][j], "success", m.val)
          /\ pending' = [pending EXCEPT ![a] = RemoveAt(@, j)]
          /\ \E t \in DOMAIN timers :
               timers[t] = pending[a][j] /\ timers' = RemoveAt(timers, t)
    BY DEF HandleReply, DeleteTimer
  <2>2. \E err \in {"failure", "success"}, val \in Val :
          Complete(pending[a][j], err, val)
    BY <2>1, <1>1
  <2> QED BY <2>1, <2>2
<1> DEFINE i == pending[a][j]
<1>3. /\ Learn(m) /\ UNCHANGED <<posted, writing, pipe>>
  BY DEF HandleReply
<1>4. /\ TypeOK /\ pending[a] \in Seq(Io) /\ timers \in Seq(Io \cup {LoopTimer})
      /\ IsInjective(pending[a]) /\ IsInjective(timers) /\ IsInjective(posted[a])
  BY <1>1 DEF IInv, TypeOK, OwnedOnce, TimerPerPendingIo
<1>5. i \in ToSet(pending[a])
  BY DEF ToSet
<1> HIDE DEF i, a
<1>6. /\ i \in Io /\ i \in Live /\ io[i].req.addr = a /\ i \notin ToSet(posted[a])
  BY <1>1, <1>5, Placement
<1>7. /\ RemoveAt(pending[a], j) \in Seq(Io)
      /\ ToSet(RemoveAt(pending[a], j)) = ToSet(pending[a]) \ {i}
      /\ IsInjective(RemoveAt(pending[a], j))
  BY <1>4, RemoveAtInjective DEF i
<1>8. /\ pending' \in [Addr -> Seq(Io)]
      /\ pending'[a] = RemoveAt(pending[a], j)
      /\ \A b \in Addr : b # a => pending'[b] = pending[b]
  BY <1>1, <1>2, <1>4, <1>7 DEF TypeOK
<1>9. /\ timers' \in Seq(Io \cup {LoopTimer})
      /\ ToSet(timers') = ToSet(timers) \ {i}
      /\ IsInjective(timers')
  <2>1. PICK t \in DOMAIN timers : timers[t] = i /\ timers' = RemoveAt(timers, t)
    BY <1>2 DEF i
  <2> QED BY <2>1, <1>4, RemoveAtInjective
<1>10. PICK err \in {"failure", "success"}, val \in Val : Complete(i, err, val)
  BY <1>2 DEF i
<1>11. io' = [io EXCEPT ![i] = None]
  BY <1>10 DEF Complete
<1>12. /\ io' \in [Io -> IoRec \cup {None}]
       /\ OwnedOnce' /\ TimerPerPendingIo' /\ SendBudget'
       /\ HttpIos' = HttpIos \ {i}
  <2>1. posted' = posted /\ ToSet(posted[a]) = ToSet(posted[a]) \ {i}
    BY <1>3, <1>6
  <2> QED BY <2>1, <1>1, <1>4, <1>6, <1>7, <1>8, <1>9, <1>11, FreeLists
<1>13. /\ OneAnswerOwed' /\ thread' \in {"idle", "blocked"} /\ answer' \in Answer
  <2>1. err \in ComplErr /\ pipe' = pipe
    BY <1>3 DEF ComplErr
  <2> QED BY <2>1, <1>6, <1>10, <1>12, CompleteAnswers
<1>14. TypeOK'
  BY <1>3, <1>4, <1>8, <1>9, <1>12, <1>13, LearnType DEF TypeOK
<1> QED BY <1>12, <1>13, <1>14 DEF IInv
-----------------------------------------------------------------------------
(* The head of a posted list, and that list once post_io took it out.      *)
LEMMA PopPostedLists ==
  ASSUME IInv, NEW a \in nodes, PopPosted(a)
  PROVE  /\ a \in Addr
         /\ Head(posted[a]) \in ToSet(posted[a])
         /\ posted' \in [Addr -> Seq(Io)]
         /\ \A b \in Addr : b # a => posted'[b] = posted[b]
         /\ IsInjective(posted'[a])
         /\ ToSet(posted'[a]) = ToSet(posted[a]) \ {Head(posted[a])}
         /\ writing' \in BOOLEAN
<1>1. a \in Addr /\ posted \in [Addr -> Seq(Io)]
  BY DEF IInv, TypeOK
<1>2. IsInjective(posted[a])
  BY <1>1 DEF IInv, OwnedOnce
<1>3. posted[a] # <<>> /\ posted' = [posted EXCEPT ![a] = Tail(@)] /\ writing' \in BOOLEAN
  BY DEF PopPosted
<1>4. /\ Head(posted[a]) \in ToSet(posted[a])
      /\ Tail(posted[a]) \in Seq(Io)
      /\ ToSet(Tail(posted[a])) = ToSet(posted[a]) \ {Head(posted[a])}
      /\ IsInjective(Tail(posted[a]))
  BY <1>1, <1>2, <1>3, TailElements
<1> QED BY <1>1, <1>3, <1>4

LEMMA WriteAwaitedIInv ==
  ASSUME IInv, NEW a \in nodes, WriteAwaited(a)
  PROVE  IInv'
<1> USE ConstantsOK DEF ConstantsOK
<1> DEFINE i == Head(posted[a])
           rec == Sent(io[i])
<1>1. /\ PopPosted(a) /\ NeedsReply(io[i].req)
      /\ io' = [io EXCEPT ![i] = Sent(@)]
      /\ pending' = [pending EXCEPT ![a] = Append(@, i)]
      /\ timers' = Append(timers, i)
      /\ UNCHANGED <<nodes, store, thread, pipe, answer>>
  BY DEF WriteAwaited, ArmTimer
<1>2. /\ a \in Addr /\ i \in ToSet(posted[a])
      /\ posted' \in [Addr -> Seq(Io)]
      /\ \A b \in Addr : b # a => posted'[b] = posted[b]
      /\ IsInjective(posted'[a])
      /\ ToSet(posted'[a]) = ToSet(posted[a]) \ {i}
      /\ writing' \in BOOLEAN
  BY <1>1, PopPostedLists
<1>3. io' = [io EXCEPT ![i] = rec]
  BY <1>1
<1> HIDE DEF i
<1>4. /\ i \in Io /\ i \in Live /\ io[i] \in IoRec /\ io[i].req.addr = a
      /\ i \notin ToSet(pending[a]) /\ i \notin ToSet(timers)
      /\ io[i].sent + io[i].retry = RetryCount
  BY <1>2, Placement
<1>5. /\ rec \in IoRec /\ rec.req = io[i].req /\ rec.via = io[i].via
      /\ rec.sent + rec.retry = RetryCount + 1
  <2>1. /\ rec \in IoRec /\ rec.req = io[i].req /\ rec.via = io[i].via
        /\ rec.sent = io[i].sent + 1 /\ rec.retry = io[i].retry
        /\ io[i].sent \in Nat /\ io[i].retry \in Nat
    BY <1>4, IoRecUpdates
  <2> HIDE DEF rec
  <2> QED BY <1>4, <2>1
<1> HIDE DEF rec
<1>6. /\ TypeOK /\ pending[a] \in Seq(Io) /\ timers \in Seq(Io \cup {LoopTimer})
      /\ IsInjective(pending[a]) /\ IsInjective(timers)
  BY <1>2 DEF IInv, TypeOK, OwnedOnce, TimerPerPendingIo
<1>7. /\ Append(pending[a], i) \in Seq(Io)
      /\ ToSet(Append(pending[a], i)) = ToSet(pending[a]) \cup {i}
      /\ IsInjective(Append(pending[a], i))
  BY <1>4, <1>6, AppendElements
<1>8. /\ pending' \in [Addr -> Seq(Io)] /\ pending'[a] = Append(pending[a], i)
      /\ \A b \in Addr : b # a => pending'[b] = pending[b]
  BY <1>1, <1>2, <1>6, <1>7 DEF TypeOK, i
<1>9. /\ timers' \in Seq(Io \cup {LoopTimer})
      /\ ToSet(timers') = ToSet(timers) \cup {i}
      /\ IsInjective(timers')
  <2>1. timers' = Append(timers, i) /\ i \in Io \cup {LoopTimer}
    BY <1>1, <1>4 DEF i
  <2> QED BY <2>1, <1>4, <1>6, AppendElements
<1>10. NeedsReply(rec.req)
  BY <1>1, <1>5 DEF i
<1>11. /\ io' \in [Io -> IoRec \cup {None}]
       /\ OwnedOnce' /\ TimerPerPendingIo' /\ SendBudget'
       /\ HttpIos' = HttpIos
  <2>1. /\ a \in Addr
        /\ \A b \in Addr : b # a => posted'[b] = posted[b] /\ pending'[b] = pending[b]
        /\ IsInjective(pending'[a]) /\ ToSet(pending'[a]) = ToSet(pending[a]) \cup {i}
    BY <1>2, <1>7, <1>8
  <2> QED BY <2>1, <1>2, <1>3, <1>4, <1>5, <1>9, <1>10, MoveLists
<1>12. TypeOK'
  BY <1>1, <1>2, <1>6, <1>8, <1>9, <1>11 DEF TypeOK
<1>13. OneAnswerOwed'
  BY <1>1, <1>11 DEF IInv, OneAnswerOwed
<1> QED BY <1>11, <1>12, <1>13 DEF IInv

LEMMA WriteUnawaitedIInv ==
  ASSUME IInv, NEW a \in nodes, WriteUnawaited(a)
  PROVE  IInv'
<1> USE ConstantsOK DEF ConstantsOK
<1> DEFINE i == Head(posted[a])
<1>1. /\ PopPosted(a) /\ Complete(i, "success", 0)
      /\ UNCHANGED <<nodes, store, pending, timers, pipe>>
  BY DEF WriteUnawaited
<1>2. /\ a \in Addr /\ i \in ToSet(posted[a])
      /\ posted' \in [Addr -> Seq(Io)]
      /\ \A b \in Addr : b # a => posted'[b] = posted[b]
      /\ IsInjective(posted'[a])
      /\ ToSet(posted'[a]) = ToSet(posted[a]) \ {i}
      /\ writing' \in BOOLEAN
  BY <1>1, PopPostedLists
<1> HIDE DEF i
<1>3. /\ i \in Io /\ i \in Live /\ io[i].req.addr = a
      /\ i \notin ToSet(pending[a]) /\ i \notin ToSet(timers)
  BY <1>2, Placement
<1>4. TypeOK /\ IsInjective(pending[a]) /\ IsInjective(timers)
  BY <1>2 DEF IInv, OwnedOnce, TimerPerPendingIo
<1>5. io' = [io EXCEPT ![i] = None]
  BY <1>1 DEF Complete
<1>6. /\ io' \in [Io -> IoRec \cup {None}]
      /\ OwnedOnce' /\ TimerPerPendingIo' /\ SendBudget'
      /\ HttpIos' = HttpIos \ {i}
  <2>1. /\ ToSet(pending'[a]) = ToSet(pending[a]) \ {i}
        /\ ToSet(timers') = ToSet(timers) \ {i}
        /\ IsInjective(pending'[a]) /\ IsInjective(timers')
    BY <1>1, <1>3, <1>4
  <2>2. \A b \in Addr : b # a => posted'[b] = posted[b] /\ pending'[b] = pending[b]
    BY <1>1, <1>2
  <2> QED BY <2>1, <2>2, <1>2, <1>3, <1>5, FreeLists
<1>7. OneAnswerOwed' /\ thread' \in {"idle", "blocked"} /\ answer' \in Answer
  <2>1. "success" \in ComplErr /\ 0 \in Val /\ pipe' = pipe
    BY <1>1 DEF ComplErr
  <2>2. Complete(i, "success", 0)
    BY <1>1
  <2> QED BY <2>1, <2>2, <1>3, <1>6, CompleteAnswers
<1>8. TypeOK'
  BY <1>1, <1>2, <1>4, <1>6, <1>7 DEF TypeOK
<1> QED BY <1>6, <1>7, <1>8 DEF IInv
-----------------------------------------------------------------------------
(* The expired timer's io, and the lists once the expiry took it out.      *)
LEMMA PopTimerLists ==
  ASSUME IInv, NEW i \in Io, PopTimer(i)
  PROVE  /\ i \in Live /\ io[i] \in IoRec /\ io[i].req.addr \in Addr
         /\ i \in ToSet(pending[io[i].req.addr])
         /\ writing' = writing => writing' \in BOOLEAN
         /\ pending' \in [Addr -> Seq(Io)]
         /\ \A b \in Addr : b # io[i].req.addr => pending'[b] = pending[b]
         /\ IsInjective(pending'[io[i].req.addr])
         /\ ToSet(pending'[io[i].req.addr]) = ToSet(pending[io[i].req.addr]) \ {i}
         /\ timers' \in Seq(Io \cup {LoopTimer})
         /\ IsInjective(timers')
         /\ ToSet(timers') = ToSet(timers) \ {i}
<1> DEFINE a == io[i].req.addr
<1>1. /\ TypeOK /\ IsInjective(timers)
      /\ timers # <<>> /\ i = Head(timers) /\ timers' = Tail(timers)
  BY DEF IInv, TimerPerPendingIo, PopTimer
<1>2. PICK j \in DOMAIN pending[a] :
        pending[a][j] = i /\ pending' = [pending EXCEPT ![a] = RemoveAt(@, j)]
  BY DEF PopTimer
<1>3. /\ i \in ToSet(timers)
      /\ timers' \in Seq(Io \cup {LoopTimer})
      /\ IsInjective(timers')
      /\ ToSet(timers') = ToSet(timers) \ {i}
  BY <1>1, TailElements DEF TypeOK
<1>4. i \in Live /\ i \in ToSet(pending[a])
  BY <1>3 DEF IInv, TimerPerPendingIo
<1>5. io[i] \in IoRec /\ a \in Addr
  BY <1>1, <1>4 DEF TypeOK, Live, IoRec, Request
<1> HIDE DEF a
<1>6. pending[a] \in Seq(Io) /\ IsInjective(pending[a])
  BY <1>1, <1>5 DEF IInv, TypeOK, OwnedOnce
<1>7. /\ RemoveAt(pending[a], j) \in Seq(Io)
      /\ ToSet(RemoveAt(pending[a], j)) = ToSet(pending[a]) \ {i}
      /\ IsInjective(RemoveAt(pending[a], j))
  BY <1>2, <1>6, RemoveAtInjective
<1>8. /\ pending' \in [Addr -> Seq(Io)] /\ pending'[a] = RemoveAt(pending[a], j)
      /\ \A b \in Addr : b # a => pending'[b] = pending[b]
  BY <1>1, <1>2, <1>5, <1>7 DEF TypeOK
<1>9. writing' = writing => writing' \in BOOLEAN
  BY <1>1 DEF TypeOK
<1> QED BY <1>3, <1>4, <1>5, <1>7, <1>8, <1>9 DEF a

LEMMA ExpireRetryIInv ==
  ASSUME IInv, NEW i \in Io, ExpireRetry(i)
  PROVE  IInv'
<1> USE ConstantsOK DEF ConstantsOK
<1> DEFINE a == io[i].req.addr
           rec == Retried(io[i])
<1>1. /\ PopTimer(i) /\ io[i].retry > 0
      /\ io' = [io EXCEPT ![i] = rec]
      /\ posted' = [posted EXCEPT ![a] = Append(@, i)]
      /\ UNCHANGED <<nodes, store, writing, thread, pipe, answer>>
  BY DEF ExpireRetry
<1>2. /\ i \in Live /\ io[i] \in IoRec /\ a \in Addr /\ i \in ToSet(pending[a])
      /\ pending' \in [Addr -> Seq(Io)]
      /\ \A b \in Addr : b # a => pending'[b] = pending[b]
      /\ IsInjective(pending'[a]) /\ ToSet(pending'[a]) = ToSet(pending[a]) \ {i}
      /\ timers' \in Seq(Io \cup {LoopTimer})
      /\ IsInjective(timers') /\ ToSet(timers') = ToSet(timers) \ {i}
  BY <1>1, PopTimerLists
<1> HIDE DEF a
<1>3. /\ i \notin ToSet(posted[a]) /\ io[i].sent + io[i].retry = RetryCount + 1
  BY <1>2, Placement
<1>4. /\ rec \in IoRec /\ rec.req = io[i].req /\ rec.via = io[i].via
      /\ rec.sent + rec.retry = RetryCount
  <2>1. /\ rec \in IoRec /\ rec.req = io[i].req /\ rec.via = io[i].via
        /\ rec.sent = io[i].sent /\ rec.retry = io[i].retry - 1
        /\ io[i].sent \in Nat /\ io[i].retry \in Nat
    BY <1>1, <1>2, IoRecUpdates
  <2> HIDE DEF rec
  <2> QED BY <1>3, <2>1
<1> HIDE DEF rec
<1>5. TypeOK /\ posted[a] \in Seq(Io) /\ IsInjective(posted[a])
  BY <1>2 DEF IInv, TypeOK, OwnedOnce
<1>6. /\ Append(posted[a], i) \in Seq(Io)
      /\ ToSet(Append(posted[a], i)) = ToSet(posted[a]) \cup {i}
      /\ IsInjective(Append(posted[a], i))
  BY <1>3, <1>5, AppendElements
<1>7. /\ posted' \in [Addr -> Seq(Io)] /\ posted'[a] = Append(posted[a], i)
      /\ \A b \in Addr : b # a => posted'[b] = posted[b]
  BY <1>1, <1>2, <1>5, <1>6 DEF TypeOK
<1>8. /\ io' \in [Io -> IoRec \cup {None}]
      /\ OwnedOnce' /\ TimerPerPendingIo' /\ SendBudget'
      /\ HttpIos' = HttpIos
  <2>1. /\ io[i].req.addr = a
        /\ \A b \in Addr : b # a => posted'[b] = posted[b] /\ pending'[b] = pending[b]
        /\ IsInjective(posted'[a]) /\ ToSet(posted'[a]) = ToSet(posted[a]) \cup {i}
    BY <1>2, <1>6, <1>7 DEF a
  <2>2. io' = [io EXCEPT ![i] = rec]
    BY <1>1
  <2> QED BY <2>1, <2>2, <1>2, <1>4, MoveLists
<1>9. TypeOK'
  BY <1>1, <1>2, <1>5, <1>7, <1>8 DEF TypeOK
<1>10. OneAnswerOwed'
  BY <1>1, <1>8 DEF IInv, OneAnswerOwed
<1> QED BY <1>8, <1>9, <1>10 DEF IInv

LEMMA ExpireTimeoutIInv ==
  ASSUME IInv, NEW i \in Io, ExpireTimeout(i)
  PROVE  IInv'
<1> USE ConstantsOK DEF ConstantsOK
<1> DEFINE a == io[i].req.addr
<1>1. /\ PopTimer(i) /\ Complete(i, "timeout", 0)
      /\ UNCHANGED <<nodes, store, posted, writing, pipe>>
  BY DEF ExpireTimeout
<1>2. /\ i \in Live /\ io[i] \in IoRec /\ a \in Addr /\ i \in ToSet(pending[a])
      /\ pending' \in [Addr -> Seq(Io)]
      /\ \A b \in Addr : b # a => pending'[b] = pending[b]
      /\ IsInjective(pending'[a]) /\ ToSet(pending'[a]) = ToSet(pending[a]) \ {i}
      /\ timers' \in Seq(Io \cup {LoopTimer})
      /\ IsInjective(timers') /\ ToSet(timers') = ToSet(timers) \ {i}
  BY <1>1, PopTimerLists
<1> HIDE DEF a
<1>3. i \notin ToSet(posted[a])
  BY <1>2, Placement
<1>4. TypeOK /\ IsInjective(posted[a])
  BY <1>2 DEF IInv, OwnedOnce
<1>5. io' = [io EXCEPT ![i] = None]
  BY <1>1 DEF Complete
<1>6. /\ io' \in [Io -> IoRec \cup {None}]
      /\ OwnedOnce' /\ TimerPerPendingIo' /\ SendBudget'
      /\ HttpIos' = HttpIos \ {i}
  <2>1. posted' = posted /\ ToSet(posted[a]) = ToSet(posted[a]) \ {i}
    BY <1>1, <1>3
  <2>2. io[i].req.addr = a
    BY DEF a
  <2> QED BY <2>1, <2>2, <1>2, <1>4, <1>5, FreeLists
<1>7. OneAnswerOwed' /\ thread' \in {"idle", "blocked"} /\ answer' \in Answer
  <2>1. "timeout" \in ComplErr /\ 0 \in Val /\ pipe' = pipe
    BY <1>1 DEF ComplErr
  <2>2. Complete(i, "timeout", 0)
    BY <1>1
  <2> QED BY <2>1, <2>2, <1>2, <1>6, CompleteAnswers
<1>8. TypeOK'
  BY <1>1, <1>2, <1>4, <1>6, <1>7 DEF TypeOK
<1> QED BY <1>6, <1>7, <1>8 DEF IInv

LEMMA ExpireLoopIInv ==
  ASSUME IInv, ExpireLoop
  PROVE  IInv'
<1>1. /\ timers # <<>> /\ Head(timers) = LoopTimer
      /\ timers' \in InsertAnywhere(Tail(timers), LoopTimer)
      /\ UNCHANGED <<nodes, store, io, posted, pending, writing, thread, pipe, answer>>
  BY DEF ExpireLoop
<1>2. TypeOK /\ timers \in Seq(Io \cup {LoopTimer}) /\ IsInjective(timers)
  BY DEF IInv, TypeOK, TimerPerPendingIo
<1>3. /\ LoopTimer \in ToSet(timers)
      /\ Tail(timers) \in Seq(Io \cup {LoopTimer})
      /\ ToSet(Tail(timers)) = ToSet(timers) \ {LoopTimer}
      /\ IsInjective(Tail(timers))
  BY <1>1, <1>2, TailElements
<1>4. PICK p \in 1..(Len(Tail(timers)) + 1) : timers' = InsertAt(Tail(timers), p, LoopTimer)
  BY <1>1 DEF InsertAnywhere
<1>5. /\ timers' \in Seq(Io \cup {LoopTimer})
      /\ ToSet(timers') = ToSet(timers)
      /\ IsInjective(timers')
  <2> DEFINE s == Tail(timers)
  <2>1. s \in Seq(Io \cup {LoopTimer}) /\ IsInjective(s) /\ LoopTimer \notin ToSet(s)
    BY <1>3
  <2>2. p \in 1..(Len(s) + 1) /\ timers' = InsertAt(s, p, LoopTimer)
    BY <1>4
  <2>3. LoopTimer \in Io \cup {LoopTimer}
    OBVIOUS
  <2> HIDE DEF s
  <2>4. /\ timers' \in Seq(Io \cup {LoopTimer})
        /\ ToSet(timers') = ToSet(s) \cup {LoopTimer}
        /\ IsInjective(timers')
    BY <2>1, <2>2, <2>3, InsertAtElements
  <2> QED BY <2>4, <1>3 DEF s
<1>6. TypeOK'
  BY <1>1, <1>2, <1>5 DEF TypeOK
<1>7. OneAnswerOwed'
  BY <1>1 DEF IInv, OneAnswerOwed, HttpIos, Live
<1> QED BY <1>1, <1>5, <1>6, <1>7, NoIoIInv
-----------------------------------------------------------------------------
LEMMA NextIInv == IInv /\ [Next]_vars => IInv'
<1> SUFFICES ASSUME IInv, [Next]_vars PROVE IInv'
  OBVIOUS
<1>1. CASE \E i \in Io, r \in AppRequests : AppPost(i, r)
  BY <1>1, AppPostIInv
<1>2. CASE \E q \in HttpRequests : HttpSubmit(q)
  BY <1>2, HttpIInv
<1>3. CASE ReadPipe
  BY <1>3, HttpPostIInv, HttpIInv DEF ReadPipe
<1>4. CASE \E m \in Messages : HandleMsg(m) \/ HandleReply(m)
  BY <1>4, ConstantsOK, HandleMsgIInv, HandleReplyIInv DEF ConstantsOK
<1>5. CASE StartWrite
  BY <1>5, StartWriteIInv
<1>6. CASE Write
  BY <1>6, WriteAwaitedIInv, WriteUnawaitedIInv DEF Write
<1>7. CASE Expire
  BY <1>7, ExpireLoopIInv, ExpireRetryIInv, ExpireTimeoutIInv DEF Expire
<1>8. CASE UNCHANGED vars
  <2>1. UNCHANGED <<nodes, store, io, posted, pending, timers, writing, thread, pipe, answer>>
    BY <1>8 DEF vars
  <2>2. TypeOK'
    BY <2>1 DEF IInv, TypeOK
  <2>3. OneAnswerOwed'
    BY <2>1 DEF IInv, OneAnswerOwed, HttpIos, Live
  <2> QED BY <2>1, <2>2, <2>3, NoIoIInv DEF IInv, TimerPerPendingIo
<1> QED BY <1>1, <1>2, <1>3, <1>4, <1>5, <1>6, <1>7, <1>8 DEF Next

(* The inductive invariant holds of every behaviour of the base.           *)
THEOREM Invariance == Spec => []IInv
<1>1. Init => IInv
  BY InitIInv
<1>2. IInv /\ [Next]_vars => IInv'
  BY NextIInv
<1> QED BY <1>1, <1>2, PTL DEF Spec

(* The lists of the base hold ios, its timers are those of ios or the      *)
(* loop's, and an answer carries a value: for every configuration, whatever *)
(* arrives from the radio.                                                 *)
THEOREM TypeCorrect == Spec => []TypeOK
<1>1. IInv => TypeOK
  BY DEF IInv
<1> QED BY <1>1, Invariance, PTL

(* No io is leaked, listed twice or used after it was freed, by whatever   *)
(* order of writes (post_io), replies (handle_set_msg) and expiries        *)
(* (bano_start_loop), for any number of nodes and ios.                     *)
THEOREM OwnedOnceAlways == Spec => []OwnedOnce
<1>1. IInv => OwnedOnce
  BY DEF IInv
<1> QED BY <1>1, Invariance, PTL

(* bano_start_loop never dereferences the io of a stale timer, and no io   *)
(* waits for a reply without a timer that ends the wait.                   *)
THEOREM TimerPerPendingIoAlways == Spec => []TimerPerPendingIo
<1>1. IInv => TimerPerPendingIo
  BY DEF IInv
<1> QED BY <1>1, Invariance, PTL

(* An io is transmitted at most 1 + BANO_RETRY_COUNT times, for any value  *)
(* of BANO_RETRY_COUNT.                                                    *)
THEOREM SendBudgetAlways == Spec => []SendBudget
<1>1. IInv => SendBudget
  BY DEF IInv
<1> QED BY <1>1, Invariance, PTL

(* on_event never waits for an answer that nothing will give, and          *)
(* complete_httpd_msg never answers a request twice.                       *)
THEOREM OneAnswerOwedAlways == Spec => []OneAnswerOwed
<1>1. IInv => OneAnswerOwed
  BY DEF IInv
<1> QED BY <1>1, Invariance, PTL
-----------------------------------------------------------------------------
(* Which steps free an io of the HTTP server or answer it.                 *)
LEMMA HttpIoFreed ==
  ASSUME IInv, [Next]_vars, NEW i \in HttpIos, io'[i] = None
  PROVE  \/ \E m \in Messages : HandleReply(m)
         \/ \E a \in nodes : WriteUnawaited(a) /\ i = Head(posted[a])
         \/ ExpireTimeout(i)
<1> USE ConstantsOK DEF ConstantsOK
<1>1. i \in Io /\ i \in Live /\ io[i] # None /\ io \in [Io -> IoRec \cup {None}]
  BY DEF HttpIos, Live, IInv, TypeOK
<1>2. ASSUME NEW j \in Io, NEW r, NEW via, Post(j, r, via)
      PROVE  FALSE
  BY <1>1, <1>2 DEF Post
<1>3. ASSUME NEW j \in Io, NEW rec \in IoRec, io' = [io EXCEPT ![j] = rec]
      PROVE  FALSE
  BY <1>1, <1>3
<1>4. io' # io
  BY <1>1
<1>5. CASE \E j \in Io, r \in AppRequests : AppPost(j, r)
  BY <1>2, <1>5 DEF AppPost
<1>6. CASE \E q \in HttpRequests : HttpSubmit(q)
  BY <1>4, <1>6 DEF HttpSubmit
<1>7. CASE ReadPipe
  BY <1>2, <1>4, <1>7 DEF ReadPipe, HttpPost, HttpRefuse, HttpReset, HttpOther
<1>8. CASE \E m \in Messages : HandleMsg(m) \/ HandleReply(m)
  BY <1>4, <1>8 DEF HandleMsg
<1>9. CASE StartWrite
  BY <1>4, <1>9 DEF StartWrite
<1>10. CASE Write
  <2>1. PICK a \in nodes : WriteAwaited(a) \/ WriteUnawaited(a)
    BY <1>10 DEF Write
  <2>2. /\ a \in Addr /\ Head(posted[a]) \in ToSet(posted[a])
    BY <2>1, PopPostedLists DEF WriteAwaited, WriteUnawaited
  <2>3. Head(posted[a]) \in Io /\ io[Head(posted[a])] \in IoRec
    BY <2>2, Placement
  <2>4. CASE WriteAwaited(a)
    <3>1. Sent(io[Head(posted[a])]) \in IoRec
      BY <2>3, IoRecUpdates
    <3>2. io' = [io EXCEPT ![Head(posted[a])] = Sent(io[Head(posted[a])])]
      BY <2>4 DEF WriteAwaited
    <3> QED BY <1>3, <2>3, <3>1, <3>2
  <2>5. CASE WriteUnawaited(a)
    <3>1. io' = [io EXCEPT ![Head(posted[a])] = None]
      BY <2>5 DEF WriteUnawaited, Complete
    <3>2. i = Head(posted[a])
      BY <1>1, <3>1
    <3> QED BY <2>5, <3>2
  <2> QED BY <2>1, <2>4, <2>5
<1>11. CASE Expire
  <2>1. CASE ExpireLoop
    BY <1>4, <2>1 DEF ExpireLoop
  <2>2. ASSUME NEW j \in Io, ExpireRetry(j)
        PROVE  FALSE
    <3>1. io[j] \in IoRec /\ io[j].retry > 0
      BY <2>2, PopTimerLists DEF ExpireRetry
    <3>2. Retried(io[j]) \in IoRec
      BY <3>1, IoRecUpdates
    <3>3. io' = [io EXCEPT ![j] = Retried(io[j])]
      BY <2>2 DEF ExpireRetry
    <3> QED BY <1>3, <3>2, <3>3
  <2>3. ASSUME NEW j \in Io, ExpireTimeout(j)
        PROVE  ExpireTimeout(i)
    <3>1. io' = [io EXCEPT ![j] = None]
      BY <2>3 DEF ExpireTimeout, Complete
    <3>2. i = j
      BY <1>1, <3>1
    <3> QED BY <2>3, <3>2
  <2> QED BY <1>11, <2>1, <2>2, <2>3 DEF Expire
<1>12. CASE UNCHANGED vars
  BY <1>4, <1>12 DEF vars
<1> QED BY <1>5, <1>6, <1>7, <1>8, <1>9, <1>10, <1>11, <1>12 DEF Next

LEMMA GivesUpLastStep ==
  ASSUME IInv, [Next]_vars,
         thread = "blocked", thread' = "idle", answer'.err = "timeout"
  PROVE  \E i \in HttpIos : io'[i] = None /\ io[i].sent = RetryCount + 1
<1>1. CASE \E i \in Io, r \in AppRequests : AppPost(i, r)
  BY <1>1 DEF AppPost
<1>2. CASE \E q \in HttpRequests : HttpSubmit(q)
  BY <1>2 DEF HttpSubmit
<1>3. CASE ReadPipe
  BY <1>3 DEF ReadPipe, HttpPost, HttpRefuse, HttpReset, HttpOther, AnswerHttp
<1>4. CASE \E m \in Messages : HandleMsg(m) \/ HandleReply(m)
  BY <1>4 DEF HandleMsg, HandleReply, Complete, AnswerHttp
<1>5. CASE StartWrite
  BY <1>5 DEF StartWrite
<1>6. CASE Write
  BY <1>6 DEF Write, WriteAwaited, WriteUnawaited, Complete, AnswerHttp
<1>7. CASE Expire
  <2>1. PICK i \in Io : ExpireTimeout(i)
    BY <1>7 DEF Expire, ExpireLoop, ExpireRetry
  <2>2. PopTimer(i) /\ io[i].retry = 0 /\ Complete(i, "timeout", 0)
    BY <2>1 DEF ExpireTimeout
  <2>3. /\ i \in Live /\ io[i] \in IoRec /\ io[i].req.addr \in Addr
        /\ i \in ToSet(pending[io[i].req.addr])
    BY <2>2, PopTimerLists
  <2>4. io[i].sent + io[i].retry = RetryCount + 1 /\ io[i].sent \in Nat
    BY <2>3, Placement, IoRecUpdates
  <2>5. i \in HttpIos
    BY <2>2, <2>3 DEF HttpIos, Complete
  <2>6. io'[i] = None
    BY <2>2 DEF Complete, IInv, TypeOK
  <2> QED BY <2>2, <2>4, <2>5, <2>6
<1>8. CASE UNCHANGED vars
  BY <1>8 DEF vars
<1> QED BY <1>1, <1>2, <1>3, <1>4, <1>5, <1>6, <1>7, <1>8 DEF Next

(* A browser is told "timeout" only when its io was transmitted            *)
(* 1 + BANO_RETRY_COUNT times: bano_start_loop never gives up earlier.     *)
THEOREM GivesUpLastAlways == Spec => GivesUpLast
<1>1. IInv /\ [Next]_vars =>
        [thread = "blocked" /\ thread' = "idle" /\ answer'.err = "timeout" =>
           \E i \in HttpIos : io'[i] = None /\ io[i].sent = RetryCount + 1]_vars
  BY GivesUpLastStep
<1> QED BY <1>1, Invariance, PTL DEF Spec, GivesUpLast

LEMMA PageShowsAnswerStep ==
  ASSUME IInv, [Next]_vars, NEW i \in HttpIos,
         io'[i] = None, answer'.err = "success", NeedsReply(io[i].req)
  PROVE  LET r == io[i].req IN
         /\ KeyKnown(r.addr, r.key) => store'[r.addr][r.key] = answer'.val
         /\ r.op = "set" => answer'.val = r.val
<1> USE ConstantsOK DEF ConstantsOK
<1>1. i \in Live /\ i \in Io /\ io[i].via = "http"
  BY DEF HttpIos, Live
<1>2. ~ \E a \in nodes : WriteUnawaited(a) /\ i = Head(posted[a])
  BY DEF WriteUnawaited
<1>3. ~ ExpireTimeout(i)
  BY <1>1 DEF ExpireTimeout, Complete, AnswerHttp
<1>4. PICK m \in Messages : HandleReply(m)
  BY <1>2, <1>3, HttpIoFreed
<1> DEFINE a == m.addr
<1>5. a \in Addr /\ m.key \in Key /\ m.val \in Val
  BY DEF Message
<1>6. PICK j \in DOMAIN pending[a] :
        /\ Answers(m, pending[a][j])
        /\ IF m.err THEN Complete(pending[a][j], "failure", 0)
                    ELSE Complete(pending[a][j], "success", m.val)
  BY <1>4 DEF HandleReply, FirstAnswered
<1>7. pending[a][j] = i
  <2>1. io \in [Io -> IoRec \cup {None}] /\ io[i] # None
    BY <1>1 DEF IInv, TypeOK, Live
  <2>2. io' = [io EXCEPT ![pending[a][j]] = None]
    BY <1>6 DEF Complete
  <2> QED BY <2>1, <2>2, <1>1
<1>8. i \in ToSet(pending[a])
  BY <1>7 DEF ToSet
<1>9. io[i] \in IoRec /\ io[i].req.addr = a
  BY <1>5, <1>8, Placement
<1>10. ~ m.err /\ answer'.val = m.val
  <2>1. CASE m.err
    BY <2>1, <1>1, <1>6, <1>7 DEF Complete, AnswerHttp
  <2>2. CASE ~ m.err
    BY <2>2, <1>1, <1>6, <1>7 DEF Complete, AnswerHttp
  <2> QED BY <2>1, <2>2
<1>11. /\ m.op = "set" /\ m.key = io[i].req.key
       /\ io[i].req.op = "set" => m.val = io[i].req.val
  BY <1>4, <1>6, <1>7 DEF HandleReply, Answers
<1>12. KeyKnown(a, m.key) => store'[a][m.key] = m.val
  <2>1. store \in [Addr -> [Key -> Val \cup {None}]]
    BY DEF IInv, TypeOK
  <2>2. KeyKnown(a, m.key) =>
          store' = [store EXCEPT ![a] = [store[a] EXCEPT ![m.key] = m.val]]
    BY <1>4, <1>10, <1>11 DEF HandleReply, Learn
  <2> QED BY <2>1, <2>2, <1>5
<1> QED BY <1>9, <1>10, <1>11, <1>12

(* When an io the HTTP server waits for succeeds, handle_set_msg has       *)
(* stored the value before the page is generated, and a SET's value is the *)
(* one that was asked for, whatever replies are pending or late.           *)
THEOREM PageShowsAnswerAlways == Spec => PageShowsAnswer
<1>1. IInv /\ [Next]_vars =>
        [\A i \in HttpIos :
           LET r == io[i].req IN
           io'[i] = None /\ answer'.err = "success" /\ NeedsReply(r) =>
             /\ KeyKnown(r.addr, r.key) => store'[r.addr][r.key] = answer'.val
             /\ r.op = "set" => answer'.val = r.val]_vars
  BY PageShowsAnswerStep
<1> QED BY <1>1, Invariance, PTL DEF Spec, PageShowsAnswer
-----------------------------------------------------------------------------
(* The writes and expiries that an io may still go through before it is    *)
(* freed: two for each transmission left, one that sends it and one that   *)
(* finds no reply came.                                                    *)
StepsLeft(rec) == rec.retry + (RetryCount + 2 - rec.sent)

HandlesIo == Write \/ \E i \in Io : ExpireRetry(i) \/ ExpireTimeout(i)

IoBounded ==
  [][/\ \A i \in Live : StepsLeft(io[i]) > 0
     /\ \A i \in Io : \/ io'[i] = io[i]
                      \/ io[i] = None /\ StepsLeft(io'[i]) = 2 * (RetryCount + 1)
                      \/ io[i] # None /\ io'[i] = None
                      \/ io[i] # None /\ StepsLeft(io'[i]) = StepsLeft(io[i]) - 1
     /\ HandlesIo => \E i \in Live : io'[i] # io[i]]_vars

LEMMA StepsLeftPositive ==
  ASSUME IInv, NEW i \in Live
  PROVE  StepsLeft(io[i]) > 0
<1>1. io[i] \in IoRec
  BY DEF IInv, TypeOK, Live
<1>2. PICK sent \in Nat, retry \in Nat, n \in Nat :
        sent = io[i].sent /\ retry = io[i].retry /\ n = RetryCount
  BY <1>1, IoRecUpdates, ConstantsOK DEF ConstantsOK
<1>3. sent + retry = n \/ sent + retry = n + 1
  BY <1>2 DEF IInv, OwnedOnce, SendBudget
<1>4. retry + (n + 2 - sent) > 0
  BY ONLY <1>3, sent \in Nat, retry \in Nat, n \in Nat
<1> QED BY <1>2, <1>4 DEF StepsLeft

(* A step gives one memory to a new io, or updates or frees one live io,   *)
(* or leaves the ios as they are.                                          *)
LEMMA OneIoChanges ==
  ASSUME IInv, [Next]_vars
  PROVE  \/ io' = io /\ ~ HandlesIo
         \/ \E i \in Io \ Live, r \in Request, via \in {"app", "http"} :
              io' = [io EXCEPT ![i] = NewIo(r, via)] /\ ~ HandlesIo
         \/ \E i \in Live :
              \/ io' = [io EXCEPT ![i] = None]
              \/ io' = [io EXCEPT ![i] = Sent(io[i])]
              \/ io[i].retry > 0 /\ io' = [io EXCEPT ![i] = Retried(io[i])]
<1> USE ConstantsOK DEF ConstantsOK
<1>1. ASSUME Write
      PROVE  \E i \in Live : \/ io' = [io EXCEPT ![i] = None]
                             \/ io' = [io EXCEPT ![i] = Sent(io[i])]
  <2>1. PICK a \in nodes : WriteAwaited(a) \/ WriteUnawaited(a)
    BY <1>1 DEF Write
  <2>2. a \in Addr /\ Head(posted[a]) \in ToSet(posted[a])
    BY <2>1, PopPostedLists DEF WriteAwaited, WriteUnawaited
  <2>3. Head(posted[a]) \in Live
    BY <2>2, Placement
  <2> QED BY <2>1, <2>3 DEF WriteAwaited, WriteUnawaited, Complete
<1>2. ASSUME NEW i \in Io, ExpireRetry(i) \/ ExpireTimeout(i)
      PROVE  \E j \in Live : \/ io' = [io EXCEPT ![j] = None]
                             \/ io[j].retry > 0 /\ io' = [io EXCEPT ![j] = Retried(io[j])]
  <2>1. i \in Live
    BY <1>2, PopTimerLists DEF ExpireRetry, ExpireTimeout
  <2> QED BY <1>2, <2>1 DEF ExpireRetry, ExpireTimeout, Complete
<1>3. CASE HandlesIo
  BY <1>1, <1>2, <1>3 DEF HandlesIo
<1>4. CASE ~ HandlesIo
  <2>1. CASE \E i \in Io, r \in AppRequests : AppPost(i, r)
    BY <1>4, <2>1 DEF AppPost, Post, Live
  <2>2. CASE \E q \in HttpRequests : HttpSubmit(q)
    BY <1>4, <2>2 DEF HttpSubmit
  <2>3. CASE ReadPipe
    <3>1. CASE \E i \in Io : HttpPost(i)
      <4>1. PICK i \in Io : HttpPost(i)
        BY <3>1
      <4>2. pipe \in Request
        BY <4>1, HttpRequestIsRequest DEF HttpPost, IInv, TypeOK
      <4> QED BY <1>4, <4>1, <4>2 DEF HttpPost, Post, Live
    <3>2. CASE HttpRefuse \/ HttpReset \/ HttpOther
      BY <1>4, <3>2 DEF HttpRefuse, HttpReset, HttpOther
    <3> QED BY <2>3, <3>1, <3>2 DEF ReadPipe
  <2>4. CASE \E m \in Messages : HandleMsg(m) \/ HandleReply(m)
    <3>1. PICK m \in Messages : HandleMsg(m) \/ HandleReply(m)
      BY <2>4
    <3>2. CASE HandleMsg(m)
      BY <1>4, <3>2 DEF HandleMsg
    <3>3. CASE HandleReply(m)
      <4>1. PICK j \in DOMAIN pending[m.addr] : io' = [io EXCEPT ![pending[m.addr][j]] = None]
        BY <3>3 DEF HandleReply, Complete
      <4>2. m.addr \in Addr /\ pending[m.addr][j] \in ToSet(pending[m.addr])
        BY DEF Message, ToSet
      <4>3. pending[m.addr][j] \in Live
        BY <4>2, Placement
      <4> QED BY <4>1, <4>3
    <3> QED BY <3>1, <3>2, <3>3
  <2>5. CASE StartWrite
    BY <1>4, <2>5 DEF StartWrite
  <2>6. CASE ExpireLoop
    BY <1>4, <2>6 DEF ExpireLoop
  <2>7. CASE UNCHANGED vars
    BY <1>4, <2>7 DEF vars
  <2> QED BY <1>4, <2>1, <2>2, <2>3, <2>4, <2>5, <2>6, <2>7 DEF Next, Expire, HandlesIo
<1> QED BY <1>3, <1>4

LEMMA IoBoundedStep ==
  ASSUME IInv, [Next]_vars
  PROVE  /\ \A i \in Io : \/ io'[i] = io[i]
                          \/ io[i] = None /\ StepsLeft(io'[i]) = 2 * (RetryCount + 1)
                          \/ io[i] # None /\ io'[i] = None
                          \/ io[i] # None /\ StepsLeft(io'[i]) = StepsLeft(io[i]) - 1
         /\ HandlesIo => \E i \in Live : io'[i] # io[i]
<1>1. io \in [Io -> IoRec \cup {None}] /\ Live \subseteq Io /\ RetryCount \in Nat
  BY ConstantsOK DEF ConstantsOK, IInv, TypeOK, Live
<1>2. CASE io' = io /\ ~ HandlesIo
  BY <1>2
<1>3. ASSUME NEW i \in Io \ Live, NEW r \in Request, NEW via \in {"app", "http"},
             io' = [io EXCEPT ![i] = NewIo(r, via)], ~ HandlesIo
      PROVE  \A j \in Io : \/ io'[j] = io[j]
                           \/ io[j] = None /\ StepsLeft(io'[j]) = 2 * (RetryCount + 1)
  <2>1. io[i] = None /\ io'[i] = NewIo(r, via) /\ \A j \in Io : j # i => io'[j] = io[j]
    BY <1>1, <1>3 DEF Live
  <2>2. NewIo(r, via).retry = RetryCount /\ NewIo(r, via).sent = 0
    BY DEF NewIo
  <2>3. StepsLeft(NewIo(r, via)) = 2 * (RetryCount + 1)
    BY <1>1, <2>2 DEF StepsLeft
  <2> QED BY <2>1, <2>3
<1>4. ASSUME NEW i \in Live, NEW rec, io' = [io EXCEPT ![i] = rec], rec # io[i],
             rec = None \/ StepsLeft(rec) = StepsLeft(io[i]) - 1
      PROVE  /\ \A j \in Io : \/ io'[j] = io[j]
                              \/ io[j] # None /\ io'[j] = None
                              \/ io[j] # None /\ StepsLeft(io'[j]) = StepsLeft(io[j]) - 1
             /\ \E j \in Live : io'[j] # io[j]
  <2>1. io[i] # None /\ io'[i] = rec /\ \A j \in Io : j # i => io'[j] = io[j]
    BY <1>1, <1>4 DEF Live
  <2> QED BY <1>4, <2>1
<1>5. ASSUME NEW i \in Live
      PROVE  /\ None # io[i]
             /\ Sent(io[i]) # io[i] /\ StepsLeft(Sent(io[i])) = StepsLeft(io[i]) - 1
             /\ Retried(io[i]) # io[i] /\ StepsLeft(Retried(io[i])) = StepsLeft(io[i]) - 1
  <2>1. io[i] \in IoRec /\ None # io[i]
    BY <1>1 DEF Live
  <2>2. PICK sent \in Nat, retry \in Nat, n \in Nat :
          /\ sent = io[i].sent /\ retry = io[i].retry /\ n = RetryCount
          /\ Sent(io[i]).sent = sent + 1 /\ Sent(io[i]).retry = retry
          /\ Retried(io[i]).sent = sent /\ Retried(io[i]).retry = retry - 1
    BY <1>1, <2>1, IoRecUpdates
  <2>3. /\ retry + (n + 2 - (sent + 1)) = (retry + (n + 2 - sent)) - 1
        /\ (retry - 1) + (n + 2 - sent) = (retry + (n + 2 - sent)) - 1
        /\ sent + 1 # sent /\ retry - 1 # retry
    BY ONLY sent \in Nat, retry \in Nat, n \in Nat
  <2>4. Sent(io[i]) # io[i] /\ Retried(io[i]) # io[i]
    BY <2>2, <2>3, Zenon
  <2>5. /\ StepsLeft(Sent(io[i])) = StepsLeft(io[i]) - 1
        /\ StepsLeft(Retried(io[i])) = StepsLeft(io[i]) - 1
    BY <2>2, <2>3, Zenon DEF StepsLeft
  <2> QED BY <2>1, <2>4, <2>5
<1>6. ASSUME NEW i \in Live,
             \/ io' = [io EXCEPT ![i] = None]
             \/ io' = [io EXCEPT ![i] = Sent(io[i])]
             \/ io' = [io EXCEPT ![i] = Retried(io[i])]
      PROVE  /\ \A j \in Io : \/ io'[j] = io[j]
                              \/ io[j] # None /\ io'[j] = None
                              \/ io[j] # None /\ StepsLeft(io'[j]) = StepsLeft(io[j]) - 1
             /\ \E j \in Live : io'[j] # io[j]
  <2>1. PICK rec : /\ io' = [io EXCEPT ![i] = rec] /\ rec # io[i]
                   /\ rec = None \/ StepsLeft(rec) = StepsLeft(io[i]) - 1
    BY <1>5, <1>6, Zenon
  <2> QED BY <2>1, <1>4
<1> QED BY <1>2, <1>3, <1>6, OneIoChanges

(***************************************************************************)
(* The part of IoRetired that does not depend on fairness, and what stands *)
(* between a browser and a loop that works for ever: an io that write_msg  *)
(* and bano_start_loop move between the lists is moved fewer than twice    *)
(* the 1 + BANO_RETRY_COUNT times it may be sent, each write and each      *)
(* expiry uses up one of those of a live io, and nothing gives one back.   *)
(***************************************************************************)
THEOREM IoBoundedAlways == Spec => IoBounded
<1>1. IInv /\ [Next]_vars =>
        [/\ \A i \in Live : StepsLeft(io[i]) > 0
         /\ \A i \in Io : \/ io'[i] = io[i]
                          \/ io[i] = None /\ StepsLeft(io'[i]) = 2 * (RetryCount + 1)
                          \/ io[i] # None /\ io'[i] = None
                          \/ io[i] # None /\ StepsLeft(io'[i]) = StepsLeft(io[i]) - 1
         /\ HandlesIo => \E i \in Live : io'[i] # io[i]]_vars
  BY StepsLeftPositive, IoBoundedStep
<1> QED BY <1>1, Invariance, PTL DEF Spec, IoBounded
-----------------------------------------------------------------------------
(* Each step of the base is a step of the contract, or changes nothing in  *)
(* it.                                                                     *)
LEMMA ContractStep ==
  ASSUME IInv, IInv', [Next]_vars
  PROVE  [Contract!Next]_<<thread, IF pipe # None THEN "piped"
                                   ELSE IF HttpIos # {} THEN "held" ELSE "none">>
<1> USE ConstantsOK DEF ConstantsOK
<1> DEFINE request == IF pipe # None THEN "piped"
                      ELSE IF HttpIos # {} THEN "held" ELSE "none"
<1>1. /\ thread \in {"idle", "blocked"}
      /\ pipe # None => HttpIos = {}
      /\ thread = "blocked" <=> request # "none"
      /\ thread' \in {"idle", "blocked"}
      /\ pipe' # None => HttpIos' = {}
      /\ thread' = "blocked" <=> request' # "none"
  BY DEF IInv, TypeOK, OneAnswerOwed
<1>2. SUFFICES \/ UNCHANGED <<thread, request>>
               \/ thread = "idle" /\ thread' = "blocked" /\ request' = "piped"
               \/ request = "piped" /\ request' = "held" /\ thread' = thread
               \/ thread = "blocked" /\ thread' = "idle"
  BY <1>1 DEF Contract!Next, Contract!Submit, Contract!Read, Contract!Answer
<1>3. io' = io /\ pipe' = pipe => request' = request
  BY DEF HttpIos, Live
<1>4. pipe' = pipe /\ (HttpIos = {} <=> HttpIos' = {}) => request' = request
  OBVIOUS
<1>5. CASE \E i \in Io, r \in AppRequests : AppPost(i, r)
  BY <1>1, <1>5 DEF AppPost
<1>6. CASE \E q \in HttpRequests : HttpSubmit(q)
  BY <1>1, <1>6 DEF HttpSubmit
<1>7. CASE ReadPipe
  BY <1>1, <1>7 DEF ReadPipe, HttpPost, HttpRefuse, HttpReset, HttpOther, AnswerHttp
<1>8. CASE \E m \in Messages : HandleMsg(m) \/ HandleReply(m)
  BY <1>1, <1>8 DEF HandleMsg, HandleReply, Complete, AnswerHttp
<1>9. CASE StartWrite
  BY <1>1, <1>3, <1>9 DEF StartWrite
<1>10. CASE Write
  BY <1>1, <1>10 DEF Write, WriteAwaited, WriteUnawaited, Complete, AnswerHttp
<1>11. CASE Expire
  BY <1>1, <1>11 DEF Expire, ExpireLoop, ExpireRetry, ExpireTimeout, Complete, AnswerHttp
<1>12. CASE UNCHANGED vars
  BY <1>1, <1>3, <1>12 DEF vars
<1> QED BY <1>5, <1>6, <1>7, <1>8, <1>9, <1>10, <1>11, <1>12 DEF Next

(* The event loop implements its side of the contract with the HTTP server *)
(* thread: it answers each request it reads from the pipe exactly once.    *)
THEOREM ImplementsRequestReplyAlways == Spec => ImplementsRequestReply
<1>1. Init => Contract!Init
  <2> SUFFICES ASSUME Init PROVE Contract!Init
    OBVIOUS
  <2>1. thread = "idle" /\ pipe = None /\ HttpIos = {}
    BY DEF Init, HttpIos, Live
  <2> QED BY <2>1 DEF Contract!Init
<1>2. IInv /\ IInv' /\ [Next]_vars =>
        [Contract!Next]_<<thread, IF pipe # None THEN "piped"
                                  ELSE IF HttpIos # {} THEN "held" ELSE "none">>
  BY ContractStep
<1> QED BY <1>1, <1>2, Invariance, PTL DEF Spec, ImplementsRequestReply, Contract!Spec
-----------------------------------------------------------------------------
(* ExpiresInOrder, without the positions: no two ios are the one way round *)
(* in a pending list and the other among the timers.                       *)
InOrder ==
  \A a \in Addr : \A x, y \in Io :
    ~ (Precedes(pending[a], x, y) /\ Precedes(timers, y, x))

(* A step that adds no io to these lists, and swaps none.                  *)
LEMMA OrderKept ==
  ASSUME InOrder,
         \A a \in Addr : \A x, y \in Io :
           Precedes(pending'[a], x, y) => Precedes(pending[a], x, y),
         \A x, y \in Io : Precedes(timers', x, y) => Precedes(timers, x, y)
  PROVE  InOrder'
BY DEF InOrder

LEMMA RemovedInOrder ==
  ASSUME TypeOK, NEW a \in Addr, NEW j \in DOMAIN pending[a],
         pending' = [pending EXCEPT ![a] = RemoveAt(@, j)]
  PROVE  \A b \in Addr : \A x, y \in Io :
           Precedes(pending'[b], x, y) => Precedes(pending[b], x, y)
<1>1. SUFFICES ASSUME NEW b \in Addr, NEW x \in Io, NEW y \in Io,
                      Precedes(pending'[b], x, y)
               PROVE  Precedes(pending[b], x, y)
  OBVIOUS
<1>2. pending[a] \in Seq(Io) /\ pending \in [Addr -> Seq(Io)]
  BY DEF TypeOK
<1>3. CASE b = a
  <2>1. Precedes(RemoveAt(pending[a], j), x, y)
    BY <1>1, <1>2, <1>3
  <2> QED BY <2>1, <1>2, <1>3, RemoveAtPrecedes
<1>4. CASE b # a
  BY <1>1, <1>2, <1>4
<1> QED BY <1>3, <1>4

LEMMA HandleReplyInOrder ==
  ASSUME IInv, InOrder, NEW m \in Messages, HandleReply(m)
  PROVE  InOrder'
<1>1. m.addr \in Addr
  BY ConstantsOK DEF ConstantsOK, Message
<1>2. TypeOK /\ timers \in Seq(Io \cup {LoopTimer})
  BY DEF IInv, TypeOK
<1>3. PICK j \in DOMAIN pending[m.addr] :
        /\ pending' = [pending EXCEPT ![m.addr] = RemoveAt(@, j)]
        /\ \E t \in DOMAIN timers : timers' = RemoveAt(timers, t)
  BY DEF HandleReply, DeleteTimer
<1>4. PICK t \in DOMAIN timers : timers' = RemoveAt(timers, t)
  BY <1>3
<1>5. \A x, y \in Io : Precedes(timers', x, y) => Precedes(timers, x, y)
  BY <1>2, <1>4, RemoveAtPrecedes
<1> QED BY <1>1, <1>2, <1>3, <1>5, RemovedInOrder, OrderKept

LEMMA PopTimerInOrder ==
  ASSUME IInv, InOrder, NEW i \in Io, PopTimer(i)
  PROVE  InOrder'
<1>1. io[i].req.addr \in Addr
  BY PopTimerLists
<1>2. TypeOK /\ timers \in Seq(Io \cup {LoopTimer})
  BY DEF IInv, TypeOK
<1>3. PICK j \in DOMAIN pending[io[i].req.addr] :
        pending' = [pending EXCEPT ![io[i].req.addr] = RemoveAt(@, j)]
  BY DEF PopTimer
<1>4. timers # <<>> /\ timers' = Tail(timers)
  BY DEF PopTimer
<1>5. \A x, y \in Io : Precedes(timers', x, y) => Precedes(timers, x, y)
  BY <1>2, <1>4, TailPrecedes
<1> QED BY <1>1, <1>2, <1>3, <1>5, RemovedInOrder, OrderKept

LEMMA ExpireLoopInOrder ==
  ASSUME IInv, InOrder, ExpireLoop
  PROVE  InOrder'
<1>1. timers \in Seq(Io \cup {LoopTimer}) /\ timers # <<>> /\ pending' = pending
  BY DEF IInv, TypeOK, ExpireLoop
<1> DEFINE s == Tail(timers)
<1>2. s \in Seq(Io \cup {LoopTimer})
  BY <1>1, HeadTailProperties
<1>3. PICK p \in 1..(Len(s) + 1) : timers' = InsertAt(s, p, LoopTimer)
  BY DEF ExpireLoop, InsertAnywhere
<1> HIDE DEF s
<1>4. ASSUME NEW x \in Io, NEW y \in Io, Precedes(timers', x, y)
      PROVE  Precedes(timers, x, y)
  <2>1. x # LoopTimer /\ y # LoopTimer
    BY ConstantsOK DEF ConstantsOK
  <2>2. Precedes(s, x, y)
    <3>1. PICK T : T = Io \cup {LoopTimer}
      OBVIOUS
    <3>2. s \in Seq(T) /\ LoopTimer \in T /\ p \in 1..(Len(s) + 1)
      BY <3>1, <1>2
    <3>3. Precedes(InsertAt(s, p, LoopTimer), x, y)
      BY <1>3, <1>4
    <3> QED BY <3>2, <3>3, <2>1, InsertAtPrecedes
  <2> QED BY <2>2, <1>1, TailPrecedes DEF s
<1> QED BY <1>1, <1>4, OrderKept

(* The new pending io comes last in both lists, and is in neither before.  *)
LEMMA WriteAwaitedInOrder ==
  ASSUME IInv, InOrder, NEW a \in nodes, WriteAwaited(a)
  PROVE  InOrder'
<1> DEFINE i == Head(posted[a])
<1>1. /\ PopPosted(a)
      /\ pending' = [pending EXCEPT ![a] = Append(@, i)]
      /\ timers' = Append(timers, i)
  BY DEF WriteAwaited, ArmTimer
<1>2. a \in Addr /\ i \in ToSet(posted[a])
  BY <1>1, PopPostedLists
<1> HIDE DEF i
<1>3. /\ i \in Io /\ io[i].req.addr = a
      /\ i \notin ToSet(pending[a]) /\ i \notin ToSet(timers)
  BY <1>2, Placement
<1>4. /\ pending \in [Addr -> Seq(Io)] /\ pending[a] \in Seq(Io)
      /\ timers \in Seq(Io \cup {LoopTimer})
  BY <1>2 DEF IInv, TypeOK
<1>5. SUFFICES ASSUME NEW b \in Addr, NEW x \in Io, NEW y \in Io,
                      Precedes(pending'[b], x, y), Precedes(timers', y, x)
               PROVE  FALSE
  BY DEF InOrder
<1>6. Precedes(timers, y, x) \/ (x = i /\ y \in ToSet(timers))
  BY <1>1, <1>3, <1>4, <1>5, AppendPrecedes
<1>7. CASE Precedes(pending[b], x, y)
  <2>1. x \in ToSet(pending[b])
    BY <1>7, PrecedesElements
  <2>2. x # i
    <3>1. io[x].req.addr = b
      BY <2>1, Placement
    <3> QED BY <2>1, <3>1, <1>3
  <2> QED BY <2>2, <1>6, <1>7 DEF InOrder
<1>8. CASE ~ Precedes(pending[b], x, y)
  <2>1. b = a
    BY <1>1, <1>4, <1>5, <1>8
  <2>2. Precedes(Append(pending[a], i), x, y)
    BY <1>1, <1>2, <1>4, <1>5, <2>1
  <2>3. y = i /\ x \in ToSet(pending[a])
    BY <2>1, <2>2, <1>3, <1>4, <1>8, AppendPrecedes
  <2>4. x # i /\ Precedes(timers, y, x)
    BY <2>3, <1>3, <1>6
  <2> QED BY <2>3, <2>4, <1>3, PrecedesElements
<1> QED BY <1>7, <1>8

LEMMA InOrderStep == IInv /\ InOrder /\ [Next]_vars => InOrder'
<1> SUFFICES ASSUME IInv, InOrder, [Next]_vars PROVE InOrder'
  OBVIOUS
<1>1. CASE UNCHANGED <<pending, timers>>
  BY <1>1 DEF InOrder
<1>2. CASE \E i \in Io, r \in AppRequests : AppPost(i, r)
  BY <1>1, <1>2 DEF AppPost
<1>3. CASE \E q \in HttpRequests : HttpSubmit(q)
  BY <1>1, <1>3 DEF HttpSubmit, lists
<1>4. CASE ReadPipe
  BY <1>1, <1>4 DEF ReadPipe, HttpPost, HttpRefuse, HttpReset, HttpOther, lists
<1>5. CASE \E m \in Messages : HandleMsg(m)
  BY <1>1, <1>5 DEF HandleMsg, lists
<1>6. CASE \E m \in Messages : HandleReply(m)
  BY <1>6, HandleReplyInOrder
<1>7. CASE StartWrite
  BY <1>1, <1>7 DEF StartWrite, lists
<1>8. CASE \E a \in nodes : WriteAwaited(a)
  BY <1>8, WriteAwaitedInOrder
<1>9. CASE \E a \in nodes : WriteUnawaited(a)
  BY <1>1, <1>9 DEF WriteUnawaited
<1>10. CASE ExpireLoop
  BY <1>10, ExpireLoopInOrder
<1>11. CASE \E i \in Io : ExpireRetry(i) \/ ExpireTimeout(i)
  BY <1>11, PopTimerInOrder DEF ExpireRetry, ExpireTimeout
<1>12. CASE UNCHANGED vars
  BY <1>1, <1>12 DEF vars
<1> QED
  BY <1>2, <1>3, <1>4, <1>5, <1>6, <1>7, <1>8, <1>9, <1>10, <1>11, <1>12
  DEF Next, Write, Expire

LEMMA InOrderPositions == IInv /\ InOrder => ExpiresInOrder
<1> SUFFICES ASSUME IInv, InOrder,
                    NEW x \in DOMAIN timers, NEW y \in DOMAIN timers, x < y,
                    timers[x] \in Io, timers[y] \in Io, NEW a \in Addr,
                    NEW p \in DOMAIN pending[a], NEW q \in DOMAIN pending[a],
                    pending[a][p] = timers[x], pending[a][q] = timers[y]
             PROVE  p < q
  BY DEF ExpiresInOrder
<1>1. /\ x \in Int /\ y \in Int /\ p \in Int /\ q \in Int
      /\ IsInjective(timers)
  BY LenProperties DEF IInv, TypeOK, TimerPerPendingIo
<1>2. CASE p = q
  BY <1>1, <1>2 DEF IsInjective
<1>3. CASE q < p
  <2>1. Precedes(pending[a], timers[y], timers[x]) /\ Precedes(timers, timers[x], timers[y])
    BY <1>3 DEF Precedes
  <2> QED BY <2>1 DEF InOrder
<1> QED BY <1>1, <1>2, <1>3

(* The timer at the head of base->timers is that of the io at the head of  *)
(* its node's pending_ios, whatever was deleted from the middle of either  *)
(* by replies (handle_set_msg), and wherever the loop timer was inserted.  *)
THEOREM ExpiresInOrderAlways == Spec => []ExpiresInOrder
<1>1. Init => InOrder
  <2> SUFFICES ASSUME Init PROVE InOrder
    OBVIOUS
  <2>1. \A a \in Addr : pending[a] = <<>>
    BY DEF Init
  <2>2. \A x, y \in Io : ~ Precedes(<<>>, x, y)
    BY DEF Precedes
  <2> QED BY <2>1, <2>2 DEF InOrder
<1>2. IInv /\ InOrder /\ [Next]_vars => InOrder'
  BY InOrderStep
<1>3. IInv /\ InOrder => ExpiresInOrder
  BY InOrderPositions
<1> QED BY <1>1, <1>2, <1>3, Invariance, PTL DEF Spec
-----------------------------------------------------------------------------
(***************************************************************************)
(* The base closed by its nodes (BanoSystem).  What cmp_pending_io needs   *)
(* to tell replies apart, having only the key and for a SET the value: one *)
(* io that waits at a time, and no io that is freed while the answer to it *)
(* may still come (a SET without acknowledgement).  That one waits at a    *)
(* time is also what makes `Late = FALSE' a matter of the radio alone: no  *)
(* timer is deleted in front of the timer of another io, which would then  *)
(* expire before its time (NeverEarly of BanoTimer).                       *)
(***************************************************************************)
OneAwaited == \A i, j \in ToSet(timers) \cap Io : i = j

AllAwaited ==
  \A r \in AppRequests \cup HttpRequests : r.op \in {"get", "set"} => NeedsReply(r)

(* The packets that come from an io: its request, or the reply to it.      *)
Owned(p) == p.to = "node" \/ p.msg.reply

OfPending(p) ==
  LET r == io[p.io].req IN
  /\ p.io \in Live /\ p.io \in ToSet(pending[p.msg.addr])
  /\ p.n = io[p.io].sent
  /\ r.addr = p.msg.addr /\ r.key = p.msg.key
  /\ r.op = "set" => p.msg.val = r.val
  /\ p.to = "node" => p.msg.op = r.op
  /\ p.to = "base" /\ ~ p.msg.err => p.msg.val \in seen[p.io]

Packet == [to : {"node", "base"}, io : Io \cup {None}, n : Nat, msg : Message]

(* RepliesOwned speaks of the replies that came; that they will be owned   *)
(* takes that the requests they answer are, and that an io has one packet  *)
(* in the air at a time.                                                   *)
SysTypeOK ==
  /\ held \in [Addr -> [Key -> Val]]
  /\ air \subseteq Packet
AirOwned == \A p \in air : Owned(p) => OfPending(p)
OnePacketPerIo == \A p, q \in air : Owned(p) /\ Owned(q) /\ p.io = q.io => p = q
Awaited ==
  /\ \A i \in Live : NeedsReply(io[i].req)
  /\ pipe # None /\ pipe.op \in {"get", "set"} => NeedsReply(pipe)

AirInv == AirOwned /\ OnePacketPerIo

LEMMA SysTypeInit == SysInit => SysTypeOK /\ AirInv /\ Awaited
<1> SUFFICES ASSUME SysInit PROVE SysTypeOK /\ AirInv /\ Awaited
  OBVIOUS
<1>1. held \in [Addr -> [Key -> Val]] /\ air = {} /\ Live = {} /\ pipe = None
  BY ConstantsOK DEF ConstantsOK, SysInit, Init, Live
<1> QED BY <1>1 DEF SysTypeOK, AirInv, AirOwned, OnePacketPerIo, Awaited

(* What the base sends, and what a node answers, are packets.              *)
LEMMA ReplyFields ==
  ASSUME NEW p \in Packet, NEW val \in Val, NEW err \in BOOLEAN
  PROVE  /\ Reply(p, val, err) \in Packet
         /\ Reply(p, val, err).to = "base" /\ Reply(p, val, err).io = p.io
         /\ Reply(p, val, err).n = p.n
         /\ Reply(p, val, err).msg.addr = p.msg.addr
         /\ Reply(p, val, err).msg.key = p.msg.key
         /\ Reply(p, val, err).msg.val = val
         /\ Reply(p, val, err).msg.err = err
         /\ Reply(p, val, err).msg.reply = TRUE
BY DEF Packet, Message, Reply

LEMMA PacketOfFields ==
  ASSUME IInv, NEW i \in Live
  PROVE  /\ PacketOf(i) \in Packet
         /\ PacketOf(i).to = "node" /\ PacketOf(i).io = i
         /\ PacketOf(i).n = io[i].sent + 1
         /\ PacketOf(i).msg.addr = io[i].req.addr
         /\ PacketOf(i).msg.key = io[i].req.key
         /\ PacketOf(i).msg.val = io[i].req.val
         /\ PacketOf(i).msg.op = io[i].req.op
<1>1. i \in Io /\ io[i] \in IoRec
  BY DEF Live, IInv, TypeOK
<1> QED BY <1>1 DEF Packet, Message, PacketOf, IoRec, Request

(* NodeSet and NodeGet put at most an answer in the place of the message,  *)
(* and one that is no failure has the value the node then holds.           *)
LEMMA NodeAnswers ==
  ASSUME SysTypeOK, NEW p \in air, NodeSet(p) \/ NodeGet(p)
  PROVE  /\ p.to = "node" /\ UNCHANGED vars /\ Watch
         /\ held' \in [Addr -> [Key -> Val]]
         /\ \E err \in BOOLEAN, val \in Val :
              /\ air' \subseteq (air \ {p}) \cup {Reply(p, val, err)}
              /\ ~ err => held'[p.msg.addr][p.msg.key] = val
              /\ p.msg.op = "set" => val = p.msg.val
<1>1. /\ p.msg.val \in Val /\ p.msg.addr \in Addr /\ p.msg.key \in Key
      /\ held \in [Addr -> [Key -> Val]]
  BY DEF SysTypeOK, Packet, Message
<1>2. CASE NodeSet(p)
  <2>1. PICK reply \in BOOLEAN, err \in BOOLEAN :
          /\ held' = IF err THEN held ELSE [held EXCEPT ![p.msg.addr][p.msg.key] = p.msg.val]
          /\ air' = (air \ {p}) \cup (IF reply THEN {Reply(p, p.msg.val, err)} ELSE {})
    BY <1>2 DEF NodeSet
  <2>2. held' \in [Addr -> [Key -> Val]] /\ (~ err => held'[p.msg.addr][p.msg.key] = p.msg.val)
    BY <1>1, <2>1
  <2>3. air' \subseteq (air \ {p}) \cup {Reply(p, p.msg.val, err)}
    BY <2>1
  <2> QED BY <1>1, <1>2, <2>2, <2>3 DEF NodeSet
<1>3. CASE NodeGet(p)
  <2>1. PICK err \in BOOLEAN :
          \E val \in IF err THEN Val ELSE {held[p.msg.addr][p.msg.key]} :
            air' = (air \ {p}) \cup {Reply(p, val, err)}
    BY <1>3 DEF NodeGet
  <2>2. PICK val \in IF err THEN Val ELSE {held[p.msg.addr][p.msg.key]} :
          air' = (air \ {p}) \cup {Reply(p, val, err)}
    BY <2>1
  <2>3. val \in Val /\ (~ err => held[p.msg.addr][p.msg.key] = val)
    BY <1>1, <2>2
  <2> QED BY <1>1, <1>3, <2>2, <2>3 DEF NodeGet
<1> QED BY <1>2, <1>3

(* Each step of the system is one of the base, with a message of its own,  *)
(* or changes nothing in it.                                               *)
LEMMA SysBaseStep ==
  ASSUME SysTypeOK, [SysNext]_sysVars
  PROVE  [Next]_vars \/ \E m \in Message : HandleMsg(m) \/ HandleReply(m)
<1>1. CASE Quiet
  BY <1>1 DEF Quiet, Next, Expire
<1>2. CASE \E a \in nodes : Transmit(a)
  BY <1>2 DEF Transmit, Next, Write
<1>3. CASE \E i \in Io : ExpireIo(i)
  BY <1>3 DEF ExpireIo, Next, Expire
<1>4. CASE \E p \in air : Deliver(p)
  BY <1>4 DEF Deliver, SysTypeOK, Packet
<1>5. CASE UNCHANGED vars
  BY <1>5
<1> QED
  BY <1>1, <1>2, <1>3, <1>4, <1>5
  DEF SysNext, sysVars, Lose, NodeSet, NodeGet, NodeChange

LEMMA SysTypeStep ==
  ASSUME IInv, SysTypeOK, [SysNext]_sysVars
  PROVE  SysTypeOK'
<1> USE DEF SysTypeOK
<1>1. CASE Quiet
  BY <1>1 DEF Quiet
<1>2. CASE \E a \in nodes : Transmit(a)
  <2>1. PICK a \in nodes : Transmit(a)
    BY <1>2
  <2>2. Head(posted[a]) \in Live
    <3>1. PopPosted(a)
      BY <2>1 DEF Transmit, WriteAwaited, WriteUnawaited
    <3>2. a \in Addr /\ Head(posted[a]) \in ToSet(posted[a])
      BY <3>1, PopPostedLists
    <3> QED BY <3>2, Placement
  <2>3. PacketOf(Head(posted[a])) \in Packet
    BY <2>2, PacketOfFields
  <2> QED BY <2>1, <2>3 DEF Transmit
<1>3. CASE \E i \in Io : ExpireIo(i)
  BY <1>3 DEF ExpireIo
<1>4. CASE \E p \in air : Deliver(p) \/ Lose(p)
  BY <1>4 DEF Deliver, Lose
<1>5. ASSUME NEW p \in air, NodeSet(p) \/ NodeGet(p)
      PROVE  SysTypeOK'
  <2>1. PICK err \in BOOLEAN, val \in Val :
          air' \subseteq (air \ {p}) \cup {Reply(p, val, err)}
    BY <1>5, NodeAnswers
  <2>2. Reply(p, val, err) \in Packet
    BY ReplyFields
  <2>3. held' \in [Addr -> [Key -> Val]]
    BY <1>5, NodeAnswers
  <2> QED BY <2>1, <2>2, <2>3
<1>6. ASSUME NEW a \in Addr, NEW k \in Key, NEW v \in Val, NodeChange(a, k, v)
      PROVE  SysTypeOK'
  <2>1. held' \in [Addr -> [Key -> Val]]
    BY <1>6 DEF NodeChange
  <2> DEFINE p == [to |-> "base", io |-> None, n |-> 0,
                   msg |-> [op |-> "set", addr |-> a, key |-> k, val |-> v,
                            reply |-> FALSE, err |-> FALSE]]
  <2>2. p \in Packet
    BY DEF Packet, Message
  <2>3. air' = air \cup {p}
    BY <1>6 DEF NodeChange
  <2> QED BY <2>1, <2>2, <2>3
<1>7. CASE UNCHANGED sysVars
  BY <1>7 DEF sysVars
<1> QED BY <1>1, <1>2, <1>3, <1>4, <1>5, <1>6, <1>7 DEF SysNext

(* The history only grows while an io lives.                               *)
LEMMA SeenGrows ==
  ASSUME Watch, NEW i \in Live, io'[i] = io[i]
  PROVE  /\ seen[i] \subseteq seen'[i]
         /\ held'[io[i].req.addr][io[i].req.key] \in seen'[i]
BY DEF Watch, Live

(* A packet stays owned as long as its io stays pending, unchanged.        *)
LEMMA OfPendingKept ==
  ASSUME Watch, NEW p, OfPending(p), io'[p.io] = io[p.io],
         p.io \in ToSet(pending'[p.msg.addr])
  PROVE  OfPending(p)'
<1>1. p.io \in Live /\ p.io \in Live'
  BY DEF OfPending, Live
<1>2. seen[p.io] \subseteq seen'[p.io]
  BY <1>1, SeenGrows
<1> QED BY <1>1, <1>2 DEF OfPending

LEMMA QuietAirInv ==
  ASSUME IInv, AirInv, Quiet
  PROVE  AirInv'
<1>1. air' = air /\ Watch
  BY DEF Quiet
<1>2. pending' = pending /\ \A j \in Live : io'[j] = io[j]
  <2>1. io \in [Io -> IoRec \cup {None}]
    BY DEF IInv, TypeOK
  <2>2. ASSUME NEW i, NEW r, NEW via, Post(i, r, via)
        PROVE  \A j \in Live : io'[j] = io[j]
    BY <2>1, <2>2 DEF Post, Live
  <2>3. CASE \E i \in Io, r \in AppRequests : AppPost(i, r)
    BY <2>2, <2>3 DEF AppPost
  <2>4. CASE \E q \in HttpRequests : HttpSubmit(q)
    BY <2>4 DEF HttpSubmit, lists
  <2>5. CASE ReadPipe
    BY <2>2, <2>5 DEF ReadPipe, HttpPost, HttpRefuse, HttpReset, HttpOther, lists
  <2>6. CASE StartWrite \/ ExpireLoop
    BY <2>6 DEF StartWrite, ExpireLoop, lists
  <2> QED BY <2>3, <2>4, <2>5, <2>6 DEF Quiet
<1>3. ASSUME NEW p \in air, Owned(p)
      PROVE  OfPending(p)'
  <2>1. OfPending(p)
    BY <1>3 DEF AirInv, AirOwned
  <2>2. p.io \in Live /\ p.io \in ToSet(pending[p.msg.addr])
    BY <2>1 DEF OfPending
  <2> QED BY <1>1, <1>2, <2>1, <2>2, OfPendingKept
<1> QED BY <1>1, <1>3 DEF AirInv, AirOwned, OnePacketPerIo, Owned

(* The io that is transmitted was posted, and so has no packet yet.        *)
LEMMA TransmitAirInv ==
  ASSUME IInv, SysTypeOK, AirInv, Awaited, NEW a \in nodes, Transmit(a)
  PROVE  AirInv'
<1> DEFINE i == Head(posted[a])
<1>1. air' = air \cup {PacketOf(i)} /\ Watch /\ PopPosted(a)
  BY DEF Transmit, WriteAwaited, WriteUnawaited
<1>2. a \in Addr /\ i \in ToSet(posted[a])
  BY <1>1, PopPostedLists
<1> HIDE DEF i
<1>3. /\ i \in Io /\ i \in Live /\ io[i] \in IoRec /\ io[i].req.addr = a
      /\ \A b \in Addr : i \notin ToSet(pending[b])
  BY <1>2, Placement
<1>4. /\ io' = [io EXCEPT ![i] = Sent(@)]
      /\ pending' = [pending EXCEPT ![a] = Append(@, i)]
  <2>1. NeedsReply(io[i].req)
    BY <1>3 DEF Awaited
  <2> QED BY <2>1 DEF Transmit, WriteAwaited, WriteUnawaited, i
<1>5. /\ io \in [Io -> IoRec \cup {None}] /\ pending \in [Addr -> Seq(Io)]
  BY DEF IInv, TypeOK
<1>6. /\ io'[i] = Sent(io[i]) /\ Sent(io[i]) \in IoRec
      /\ Sent(io[i]).req = io[i].req /\ Sent(io[i]).sent = io[i].sent + 1
      /\ \A j \in Io : j # i => io'[j] = io[j]
  BY <1>3, <1>4, <1>5, IoRecUpdates DEF Sent, IoRec
<1>7. /\ ToSet(pending'[a]) = ToSet(pending[a]) \cup {i}
      /\ \A b \in Addr : b # a => pending'[b] = pending[b]
  BY <1>2, <1>3, <1>4, <1>5, AppendElements
<1>8. ASSUME NEW p \in air, Owned(p)
      PROVE  p.io # i /\ OfPending(p)'
  <2>1. OfPending(p) /\ p.msg.addr \in Addr
    BY <1>8 DEF AirInv, AirOwned, SysTypeOK, Packet, Message
  <2>2. p.io \in Live /\ p.io \in Io /\ p.io \in ToSet(pending[p.msg.addr])
    BY <2>1 DEF OfPending, Live
  <2>3. p.io # i
    BY <2>1, <2>2, <1>3
  <2>4. p.io \in ToSet(pending'[p.msg.addr])
    BY <2>1, <2>2, <1>7
  <2> QED BY <1>1, <1>6, <2>1, <2>2, <2>3, <2>4, OfPendingKept
<1>9. PICK new : new = PacketOf(i)
  OBVIOUS
<1>10. /\ new.io = i /\ new.to = "node" /\ new.n = io[i].sent + 1
      /\ new.msg.addr = a /\ new.msg.key = io[i].req.key
      /\ new.msg.val = io[i].req.val /\ new.msg.op = io[i].req.op
  BY <1>3, <1>9, PacketOfFields
<1>11. OfPending(new)'
  <2>1. i \in Live'
    BY <1>3, <1>6, ConstantsOK DEF ConstantsOK, Live
  <2>2. i \in ToSet(pending'[a])
    BY <1>7
  <2> QED BY <1>3, <1>6, <1>10, <2>1, <2>2 DEF OfPending
<1>12. AirOwned'
  BY <1>1, <1>8, <1>9, <1>11 DEF AirOwned, Owned
<1>13. OnePacketPerIo'
  BY <1>1, <1>8, <1>9, <1>10 DEF OnePacketPerIo, Owned, AirInv
<1> QED BY <1>12, <1>13 DEF AirInv

(* A timer does not expire while a packet of its io is in the air.         *)
LEMMA ExpireIoAirInv ==
  ASSUME Late = FALSE, IInv, SysTypeOK, AirInv, NEW i \in Io, ExpireIo(i)
  PROVE  AirInv'
<1> DEFINE a == io[i].req.addr
<1>1. /\ air' = air /\ Watch /\ PopTimer(i)
      /\ \A p \in air : p.io # i
  BY DEF ExpireIo, ExpireRetry, ExpireTimeout
<1>2. /\ a \in Addr /\ ToSet(pending'[a]) = ToSet(pending[a]) \ {i}
      /\ \A b \in Addr : b # a => pending'[b] = pending[b]
  BY <1>1, PopTimerLists
<1>3. \A j \in Io : j # i => io'[j] = io[j]
  BY DEF ExpireIo, ExpireRetry, ExpireTimeout, Complete, IInv, TypeOK
<1> HIDE DEF a
<1>4. ASSUME NEW p \in air, Owned(p)
      PROVE  OfPending(p)'
  <2>1. OfPending(p) /\ p.msg.addr \in Addr /\ p.io # i
    BY <1>1, <1>4 DEF AirInv, AirOwned, SysTypeOK, Packet, Message
  <2>2. p.io \in Live /\ p.io \in Io /\ p.io \in ToSet(pending[p.msg.addr])
    BY <2>1 DEF OfPending, Live
  <2>3. p.io \in ToSet(pending'[p.msg.addr])
    BY <2>1, <2>2, <1>2
  <2> QED BY <1>1, <1>3, <2>1, <2>2, <2>3, OfPendingKept
<1> QED BY <1>1, <1>4 DEF AirInv, AirOwned, OnePacketPerIo, Owned

(* A reply completes the io it is for, and no other packet is for that io: *)
(* the io that find_pending_io finds is the only one that waits.           *)
LEMMA DeliverAirInv ==
  ASSUME IInv, SysTypeOK, OneAwaited, AirInv, NEW p \in air, Deliver(p)
  PROVE  AirInv'
<1>1. /\ air' = air \ {p} /\ Watch /\ p.to = "base"
      /\ p.msg \in Message /\ p.msg.addr \in Addr
  BY DEF Deliver, SysTypeOK, Packet, Message
<1>2. SUFFICES ASSUME NEW q \in air, q # p, Owned(q)
               PROVE  OfPending(q)'
  BY <1>1 DEF AirInv, AirOwned, OnePacketPerIo, Owned
<1>3. /\ OfPending(q) /\ q.msg.addr \in Addr
      /\ q.io \in Live /\ q.io \in Io /\ q.io \in ToSet(pending[q.msg.addr])
  BY <1>2 DEF AirInv, AirOwned, OfPending, Live, SysTypeOK, Packet, Message
<1>4. CASE HandleMsg(p.msg)
  <2>1. io' = io /\ pending' = pending
    BY <1>4 DEF HandleMsg, lists
  <2> QED BY <1>1, <1>3, <2>1, OfPendingKept
<1>5. CASE HandleReply(p.msg)
  <2>1. PICK j \in DOMAIN pending[p.msg.addr] :
          /\ Answers(p.msg, pending[p.msg.addr][j])
          /\ io' = [io EXCEPT ![pending[p.msg.addr][j]] = None]
          /\ pending' = [pending EXCEPT ![p.msg.addr] = RemoveAt(@, j)]
    BY <1>5 DEF HandleReply, FirstAnswered, Complete
  <2> DEFINE i == pending[p.msg.addr][j]
  <2>2. i \in ToSet(pending[p.msg.addr])
    BY DEF ToSet
  <2>3. i \in Live /\ i \in Io /\ io[i].req.addr = p.msg.addr
    BY <1>1, <2>2, Placement
  <2>4. i = p.io
    <3>1. p.io \in ToSet(pending[p.msg.addr])
      BY <1>5 DEF HandleReply, AirInv, AirOwned, Owned, OfPending
    <3>2. p.io \in ToSet(timers) \cap Io /\ i \in ToSet(timers) \cap Io
      BY <1>1, <2>2, <3>1, Placement
    <3> QED BY <3>2 DEF OneAwaited
  <2>5. q.io # i
    BY <1>2, <1>5, <2>4 DEF HandleReply, AirInv, OnePacketPerIo, Owned
  <2>6. /\ io \in [Io -> IoRec \cup {None}] /\ pending \in [Addr -> Seq(Io)]
        /\ IsInjective(pending[p.msg.addr])
    BY <1>1 DEF IInv, TypeOK, OwnedOnce
  <2>7. io'[q.io] = io[q.io]
    BY <1>3, <2>1, <2>5, <2>6
  <2>8. ToSet(RemoveAt(pending[p.msg.addr], j)) = ToSet(pending[p.msg.addr]) \ {i}
    BY <1>1, <2>6, RemoveAtInjective
  <2>9. q.io \in ToSet(pending'[q.msg.addr])
    BY <1>1, <1>3, <2>1, <2>5, <2>6, <2>8
  <2> QED BY <1>1, <1>3, <2>7, <2>9, OfPendingKept
<1> QED BY <1>4, <1>5 DEF Deliver

(* The answer of a node takes the place of the request, and an answer that *)
(* is no failure has a value the key had since.                            *)
LEMMA NodeAirInv ==
  ASSUME IInv, SysTypeOK, AirInv, NEW p \in air, NodeSet(p) \/ NodeGet(p)
  PROVE  AirInv'
<1>1. /\ p.to = "node" /\ Watch /\ io' = io /\ pending' = pending
  BY NodeAnswers DEF vars, lists
<1>2. PICK err \in BOOLEAN, val \in Val :
        /\ air' \subseteq (air \ {p}) \cup {Reply(p, val, err)}
        /\ ~ err => held'[p.msg.addr][p.msg.key] = val
        /\ p.msg.op = "set" => val = p.msg.val
  BY NodeAnswers
<1>3. PICK new : new = Reply(p, val, err)
  OBVIOUS
<1>4. /\ new.to = "base" /\ new.io = p.io /\ new.n = p.n
      /\ new.msg.addr = p.msg.addr /\ new.msg.key = p.msg.key
      /\ new.msg.val = val /\ new.msg.err = err /\ new.msg.reply = TRUE
  <2>1. p \in Packet
    BY DEF SysTypeOK
  <2> QED BY <1>3, <2>1 DEF Packet, Message, Reply
<1>5. ASSUME NEW q \in air, Owned(q)
      PROVE  OfPending(q) /\ OfPending(q)'
  <2>1. OfPending(q) /\ q.io \in ToSet(pending[q.msg.addr])
    BY <1>5 DEF AirInv, AirOwned, OfPending
  <2> QED BY <1>1, <2>1, OfPendingKept
<1>6. OfPending(new)'
  <2>1. OfPending(p) /\ OfPending(p)'
    BY <1>1, <1>5 DEF Owned
  <2>2. p.io \in Live
    BY <2>1 DEF OfPending
  <2>3. held'[p.msg.addr][p.msg.key] \in seen'[p.io]
    BY <1>1, <2>1, <2>2, SeenGrows DEF OfPending
  <2>4. io'[p.io].req.op = "set" => val = io'[p.io].req.val
    BY <1>1, <1>2, <2>1 DEF OfPending
  <2> QED BY <1>2, <1>4, <2>1, <2>3, <2>4 DEF OfPending
<1>7. AirOwned'
  BY <1>2, <1>3, <1>5, <1>6 DEF AirOwned, Owned
<1>8. OnePacketPerIo'
  <2>1. Owned(p)
    BY <1>1 DEF Owned
  <2>2. \A q \in air \ {p} : Owned(q) => q.io # p.io
    BY <2>1 DEF AirInv, OnePacketPerIo
  <2> QED BY <1>2, <1>3, <1>4, <2>2 DEF OnePacketPerIo, Owned, AirInv
<1> QED BY <1>7, <1>8 DEF AirInv

LEMMA AirInvStep ==
  ASSUME Late = FALSE, IInv, SysTypeOK, OneAwaited, Awaited, AirInv,
         [SysNext]_sysVars
  PROVE  AirInv'
<1>1. CASE Quiet
  BY <1>1, QuietAirInv
<1>2. CASE \E a \in nodes : Transmit(a)
  BY <1>2, TransmitAirInv
<1>3. CASE \E i \in Io : ExpireIo(i)
  BY <1>3, ExpireIoAirInv
<1>4. CASE \E p \in air : Deliver(p)
  BY <1>4, DeliverAirInv
<1>5. CASE \E p \in air : NodeSet(p) \/ NodeGet(p)
  BY <1>5, NodeAirInv
<1>6. ASSUME UNCHANGED vars, Watch, \A p \in air' : Owned(p) => p \in air
      PROVE  AirInv'
  <2>1. io' = io /\ pending' = pending
    BY <1>6 DEF vars, lists
  <2>2. ASSUME NEW p \in air', Owned(p)
        PROVE  OfPending(p)'
    <3>1. OfPending(p) /\ p.io \in ToSet(pending[p.msg.addr])
      BY <1>6, <2>2 DEF AirInv, AirOwned, OfPending
    <3> QED BY <1>6, <2>1, <3>1, OfPendingKept
  <2> QED BY <1>6, <2>2 DEF AirInv, AirOwned, OnePacketPerIo, Owned
<1>7. CASE \E p \in air : Lose(p)
  BY <1>6, <1>7 DEF Lose
<1>8. CASE \E a \in Addr, k \in Key, v \in Val : NodeChange(a, k, v)
  BY <1>6, <1>8 DEF NodeChange, Owned
<1>9. CASE UNCHANGED sysVars
  BY <1>9 DEF sysVars, vars, lists, AirInv, AirOwned, OnePacketPerIo, OfPending, Owned, Live
<1> QED
  BY <1>1, <1>2, <1>3, <1>4, <1>5, <1>7, <1>8, <1>9 DEF SysNext

(* Where the request of an io comes from.                                  *)
LEMMA IoOrigin ==
  ASSUME IInv, SysTypeOK, [SysNext]_sysVars, NEW j \in Live'
  PROVE  \/ j \in Live /\ io'[j].req = io[j].req /\ io'[j].via = io[j].via
         \/ io'[j].req \in AppRequests
         \/ /\ pipe # None /\ pipe.op \in {"get", "set"}
            /\ io'[j].req = pipe /\ io'[j].via = "http"
<1> DEFINE Kept == j \in Live /\ io'[j].req = io[j].req /\ io'[j].via = io[j].via
<1>1. io \in [Io -> IoRec \cup {None}] /\ j \in Io
  BY DEF IInv, TypeOK, Live
<1>2. ASSUME NEW i \in Io, NEW r, NEW via, Post(i, r, via)
      PROVE  Kept \/ (io'[j].req = r /\ io'[j].via = via)
  BY <1>1, <1>2 DEF Post, Live, NewIo
<1>3. ASSUME NEW i \in Live, NEW rec \in IoRec, io' = [io EXCEPT ![i] = rec],
             rec.req = io[i].req, rec.via = io[i].via
      PROVE  Kept
  BY <1>1, <1>3 DEF Live
<1>4. ASSUME NEW i, io' = [io EXCEPT ![i] = None]
      PROVE  Kept
  BY <1>1, <1>4 DEF Live
<1>5. io' = io => Kept
  BY DEF Live
<1>6. CASE Quiet
  BY <1>2, <1>5, <1>6
  DEF Quiet, AppPost, HttpSubmit, ReadPipe, HttpPost, HttpRefuse, HttpReset, HttpOther,
      StartWrite, ExpireLoop
<1>7. ASSUME NEW a \in nodes, Transmit(a)
      PROVE  Kept
  <2>1. CASE WriteAwaited(a)
    <3>1. a \in Addr /\ Head(posted[a]) \in ToSet(posted[a])
      BY <2>1, PopPostedLists DEF WriteAwaited
    <3>2. Head(posted[a]) \in Live /\ io[Head(posted[a])] \in IoRec
      BY <3>1, Placement
    <3>3. io' = [io EXCEPT ![Head(posted[a])] = Sent(io[Head(posted[a])])]
      BY <2>1 DEF WriteAwaited
    <3> QED BY <3>2, <3>3, <1>3, IoRecUpdates
  <2>2. CASE WriteUnawaited(a)
    BY <2>2, <1>4 DEF WriteUnawaited, Complete
  <2> QED BY <1>7, <2>1, <2>2 DEF Transmit
<1>8. ASSUME NEW i \in Io, ExpireIo(i)
      PROVE  Kept
  <2>1. CASE ExpireRetry(i)
    <3>1. i \in Live /\ io[i] \in IoRec
      BY <2>1, PopTimerLists DEF ExpireRetry
    <3>2. io[i].retry > 0 /\ io' = [io EXCEPT ![i] = Retried(io[i])]
      BY <2>1 DEF ExpireRetry
    <3> QED BY <3>1, <3>2, <1>3, IoRecUpdates
  <2>2. CASE ExpireTimeout(i)
    BY <2>2, <1>4 DEF ExpireTimeout, Complete
  <2> QED BY <1>8, <2>1, <2>2 DEF ExpireIo
<1>9. ASSUME NEW p \in air, Deliver(p)
      PROVE  Kept
  BY <1>4, <1>5, <1>9 DEF Deliver, HandleMsg, HandleReply, Complete
<1>10. UNCHANGED vars => Kept
  BY <1>5 DEF vars
<1> HIDE DEF Kept
<1> SUFFICES Kept \/ Quiet
  BY <1>6 DEF Kept
<1> QED
  BY <1>7, <1>8, <1>9, <1>10
  DEF SysNext, sysVars, Lose, NodeSet, NodeGet, NodeChange

(* The pipe holds requests of browsers only.                               *)
LEMMA PipeOrigin ==
  ASSUME [SysNext]_sysVars
  PROVE  pipe' = pipe \/ pipe' = None \/ pipe' \in HttpRequests
BY DEF SysNext, sysVars, vars, Quiet, AppPost, HttpSubmit, ReadPipe, HttpPost, HttpRefuse,
       HttpReset, HttpOther, StartWrite, ExpireLoop, Transmit, WriteAwaited,
       WriteUnawaited, ExpireIo, ExpireRetry, ExpireTimeout, Deliver, HandleMsg,
       HandleReply, Lose, NodeSet, NodeGet, NodeChange

LEMMA AwaitedStep ==
  ASSUME AllAwaited, IInv, SysTypeOK, Awaited, [SysNext]_sysVars
  PROVE  Awaited'
<1>1. \A r \in AppRequests : r.op \in {"get", "set"}
  BY ConstantsOK DEF ConstantsOK, Request
<1>2. \A j \in Live' : NeedsReply(io'[j].req)
  BY <1>1, IoOrigin DEF Awaited, AllAwaited
<1>3. pipe' # None /\ pipe'.op \in {"get", "set"} => NeedsReply(pipe')
  BY PipeOrigin DEF Awaited, AllAwaited
<1> QED BY <1>2, <1>3 DEF Awaited

(* The base keeps its invariant in the system too.                         *)
LEMMA SysInvariance == SysSpec => [](IInv /\ SysTypeOK)
<1>1. SysInit => IInv /\ SysTypeOK
  BY InitIInv, SysTypeInit DEF SysInit
<1>2. IInv /\ SysTypeOK /\ [SysNext]_sysVars => (IInv /\ SysTypeOK)'
  BY SysBaseStep, SysTypeStep, NextIInv, HandleMsgIInv, HandleReplyIInv
<1> QED BY <1>1, <1>2, PTL DEF SysSpec

(* Leaving the radio of BanoBase arbitrary left nothing out: whatever the  *)
(* nodes and the radio do, the base does what it may do when any message   *)
(* may arrive, and all that is proved of it holds.                         *)
THEOREM SysImplementsBase ==
  ASSUME Messages = Message
  PROVE  SysSpec => Spec
<1>1. SysInit => Init
  BY DEF SysInit
<1>2. SysTypeOK /\ [SysNext]_sysVars => [Next]_vars
  BY SysBaseStep DEF Next
<1> QED BY <1>1, <1>2, SysInvariance, PTL DEF SysSpec, Spec

LEMMA AirInvAlways ==
  ASSUME Late = FALSE, AllAwaited
  PROVE  SysSpec /\ []OneAwaited => [](AirInv /\ Awaited)
<1>1. SysInit => AirInv /\ Awaited
  BY SysTypeInit
<1>2. IInv /\ SysTypeOK /\ OneAwaited /\ AirInv /\ Awaited /\ [SysNext]_sysVars
        => (AirInv /\ Awaited)'
  BY AirInvStep, AwaitedStep
<1> QED BY <1>1, <1>2, SysInvariance, PTL DEF SysSpec

(* While one io waits at a time, and no reply comes after the time that    *)
(* its timer gives it, whatever is lost, refused or notified, every reply  *)
(* finds the io that waits for it: it never meets a later request that it  *)
(* only looks like an answer to.                                           *)
THEOREM RepliesOwnedAlways ==
  ASSUME Late = FALSE, AllAwaited
  PROVE  SysSpec /\ []OneAwaited => []RepliesOwned
<1>1. AirInv => RepliesOwned
  BY DEF AirInv, AirOwned, Owned, OfPending, RepliesOwned, Answers
<1> QED BY <1>1, AirInvAlways, PTL

LEMMA AnswerCurrentStep ==
  ASSUME IInv, SysTypeOK, OneAwaited, AirInv, [SysNext]_sysVars, NEW i \in HttpIos,
         io'[i] = None, answer'.err = "success", NeedsReply(io[i].req)
  PROVE  answer'.val \in seen[i]
<1>1. /\ i \in Io /\ i \in Live /\ io[i] # None /\ io[i].via = "http"
      /\ io \in [Io -> IoRec \cup {None}]
  BY DEF HttpIos, Live, IInv, TypeOK
<1>2. io' # io
  BY <1>1
<1>3. ASSUME NEW j, NEW r, NEW via, Post(j, r, via)
      PROVE  FALSE
  BY <1>1, <1>3 DEF Post
<1>4. ASSUME NEW j, NEW rec \in IoRec, io' = [io EXCEPT ![j] = rec]
      PROVE  FALSE
  BY <1>1, <1>4, ConstantsOK DEF ConstantsOK
<1>5. ~ Quiet
  BY <1>2, <1>3
  DEF Quiet, AppPost, HttpSubmit, ReadPipe, HttpPost, HttpRefuse, HttpReset, HttpOther,
      StartWrite, ExpireLoop
<1>6. ASSUME NEW a \in nodes, Transmit(a)
      PROVE  FALSE
  <2>1. PopPosted(a)
    BY <1>6 DEF Transmit, WriteAwaited, WriteUnawaited
  <2>2. Head(posted[a]) \in Live /\ io[Head(posted[a])] \in IoRec
    <3>1. a \in Addr /\ Head(posted[a]) \in ToSet(posted[a])
      BY <2>1, PopPostedLists
    <3> QED BY <3>1, Placement
  <2>3. CASE WriteAwaited(a)
    BY <1>4, <2>2, <2>3, IoRecUpdates DEF WriteAwaited
  <2>4. CASE WriteUnawaited(a)
    <3>1. io' = [io EXCEPT ![Head(posted[a])] = None]
      BY <2>4 DEF WriteUnawaited, Complete
    <3>2. i = Head(posted[a])
      BY <1>1, <3>1
    <3> QED BY <2>4, <3>2 DEF WriteUnawaited
  <2> QED BY <1>6, <2>3, <2>4 DEF Transmit
<1>7. ASSUME NEW j \in Io, ExpireIo(j)
      PROVE  FALSE
  <2>1. CASE ExpireRetry(j)
    <3>1. io[j] \in IoRec
      BY <2>1, PopTimerLists DEF ExpireRetry
    <3>2. io[j].retry > 0 /\ io' = [io EXCEPT ![j] = Retried(io[j])]
      BY <2>1 DEF ExpireRetry
    <3> QED BY <1>4, <3>1, <3>2, IoRecUpdates
  <2>2. CASE ExpireTimeout(j)
    <3>1. io' = [io EXCEPT ![j] = None]
      BY <2>2 DEF ExpireTimeout, Complete
    <3>2. i = j
      BY <1>1, <3>1
    <3> QED BY <1>1, <2>2, <3>2 DEF ExpireTimeout, Complete, AnswerHttp
  <2> QED BY <1>7, <2>1, <2>2 DEF ExpireIo
<1>8. PICK p \in air : Deliver(p)
  BY <1>2, <1>5, <1>6, <1>7
  DEF SysNext, sysVars, vars, Lose, NodeSet, NodeGet, NodeChange
<1>9. HandleReply(p.msg) /\ p.to = "base" /\ p.msg.addr \in Addr
  BY <1>2, <1>8 DEF Deliver, HandleMsg, SysTypeOK, Packet, Message
<1>10. PICK j \in DOMAIN pending[p.msg.addr] :
         /\ Answers(p.msg, pending[p.msg.addr][j])
         /\ IF p.msg.err THEN Complete(pending[p.msg.addr][j], "failure", 0)
                         ELSE Complete(pending[p.msg.addr][j], "success", p.msg.val)
  BY <1>9 DEF HandleReply, FirstAnswered
<1>11. pending[p.msg.addr][j] = i
  <2>1. io' = [io EXCEPT ![pending[p.msg.addr][j]] = None]
    BY <1>10 DEF Complete
  <2> QED BY <1>1, <2>1
<1>12. ~ p.msg.err /\ answer'.val = p.msg.val
  <2>1. CASE p.msg.err
    BY <1>1, <1>10, <1>11, <2>1 DEF Complete, AnswerHttp
  <2>2. CASE ~ p.msg.err
    BY <1>1, <1>10, <1>11, <2>2 DEF Complete, AnswerHttp
  <2> QED BY <2>1, <2>2
<1>13. OfPending(p)
  BY <1>9 DEF HandleReply, AirInv, AirOwned, Owned
<1>14. p.io = i
  <2>1. i \in ToSet(pending[p.msg.addr])
    BY <1>11 DEF ToSet
  <2>2. p.io \in ToSet(pending[p.msg.addr])
    BY <1>13 DEF OfPending
  <2>3. i \in ToSet(timers) \cap Io /\ p.io \in ToSet(timers) \cap Io
    BY <1>9, <2>1, <2>2, Placement
  <2> QED BY <2>3 DEF OneAwaited
<1> QED BY <1>9, <1>12, <1>13, <1>14 DEF OfPending

(* Then a browser that is told a value, or that its value was set, is told *)
(* one that the node had since the browser asked.                          *)
THEOREM AnswerCurrentAlways ==
  ASSUME Late = FALSE, AllAwaited
  PROVE  SysSpec /\ []OneAwaited => AnswerCurrent
<1>1. IInv /\ SysTypeOK /\ OneAwaited /\ AirInv /\ [SysNext]_sysVars =>
        [\A i \in HttpIos :
           io'[i] = None /\ answer'.err = "success" /\ NeedsReply(io[i].req) =>
             answer'.val \in seen[i]]_sysVars
  BY AnswerCurrentStep
<1> QED BY <1>1, SysInvariance, AirInvAlways, PTL DEF SysSpec, AnswerCurrent

(* OneAwaited holds of a base that has one io, or whose application posts  *)
(* none: the server thread has one request at a time.                      *)
OneUser == AppRequests = {} \/ \A i, j \in Io : i = j

LEMMA OneUserOneAwaited ==
  ASSUME OneUser
  PROVE  SysSpec => []OneAwaited
<1>1. CASE \A i, j \in Io : i = j
  <2>1. OneAwaited
    BY <1>1 DEF OneAwaited
  <2> QED BY <2>1, PTL
<1>2. CASE AppRequests = {}
  <2> DEFINE Http == \A i \in Live : io[i].via = "http"
  <2>1. SysInit => Http
    BY DEF SysInit, Init, Live
  <2>2. IInv /\ SysTypeOK /\ Http /\ [SysNext]_sysVars => Http'
    <3> SUFFICES ASSUME IInv, SysTypeOK, Http, [SysNext]_sysVars, NEW j \in Live'
                 PROVE  io'[j].via = "http"
      OBVIOUS
    <3> QED BY <1>2, IoOrigin
  <2>3. IInv /\ Http => OneAwaited
    BY DEF IInv, TimerPerPendingIo, OneAnswerOwed, HttpIos, OneAwaited
  <2> HIDE DEF Http
  <2> QED BY <2>1, <2>2, <2>3, SysInvariance, PTL DEF SysSpec
<1> QED BY <1>1, <1>2 DEF OneUser

(* With no more than the browser, or one io, to tell apart, the two hold   *)
(* of the system as it is.                                                 *)
THEOREM OneUserAnswerCurrent ==
  ASSUME Late = FALSE, AllAwaited, OneUser
  PROVE  SysSpec => []RepliesOwned /\ AnswerCurrent
BY RepliesOwnedAlways, AnswerCurrentAlways, OneUserOneAwaited, PTL
=============================================================================
