--------------------------- MODULE BanoSms_proofs ---------------------------
(***************************************************************************)
(* A call of bano_sms_send releases its session once, asks for its SMS     *)
(* once and once more at most for each HelloRequest, never waits for a     *)
(* server that waits for it, and takes a number of steps that the records  *)
(* of the server bound: however much the server sends out of turn, and     *)
(* wherever the socket cuts it.                                            *)
(***************************************************************************)
EXTENDS BanoSms, SeqLemmas

Kind == {"hello", "flight", "resumed", "finished", "finish", "request", "norenegotiation",
         "alert", "close", "warning", "fatal", "data", "garbage", "hellorequest", "bad"}
Session == [hs : {"none", "hello", "finish", "done"}, complete : BOOLEAN, closing : BOOLEAN,
            credit : {0, 1}, in : Seq(Kind), out : Seq(Kind)]

TypeOK ==
  /\ pc \in {"idle", "write", "read", "process"}
  /\ ssl \in Session
  /\ up \in Seq(Kind) /\ down \in Seq(Kind) /\ extra \in Seq(Kind)
  /\ server \in {"hello", "flight", "finish", "request", "close", "gone"}
  /\ hellos \in Nat /\ asked \in Nat

(* A session that is in use, and what its buffers hold at each label.      *)
InUse ==
  /\ pc # "idle" => ssl.hs # "none"
  /\ pc \in {"write", "read"} => ssl.in = <<>>
  /\ pc \in {"read", "process"} => ssl.out = <<>>
  /\ pc = "process" => ssl.in # <<>>
  /\ pc # "idle" /\ ssl.complete => ssl.hs = "done"
  /\ pc # "idle" /\ ssl.closing => pc = "write" /\ ssl.out # <<>>

(* The request was written when, and because, the handshake was told to be *)
(* complete: it is told again only after a HelloRequest.                   *)
AskedWhenComplete ==
  /\ asked <= 1 + hellos
  /\ pc # "idle" /\ ~ ssl.complete => asked <= hellos

(* Whose turn it is.  All that the client has to say in a turn is two      *)
(* halves, on their way or still in outbuf.                                *)
Saying(n) == Len(up) + Len(ssl.out) = n
Arrived(kind) == kind \in ToSet(ssl.in) \cup ToSet(down)

Turns ==
  \/ /\ ssl.hs = "hello" /\ server = "hello" /\ Saying(2)
     /\ ~ Arrived("flight") /\ ~ Arrived("finished")
  \/ ssl.hs = "hello" /\ server = "flight" /\ Saying(0) /\ Arrived("flight") /\ ~ Arrived("finished")
  \/ ssl.hs = "finish" /\ server = "flight" /\ Saying(2) /\ ~ Arrived("finished")
  \/ ssl.hs = "finish" /\ server = "request" /\ Saying(0) /\ Arrived("finished")
  \/ ssl.hs = "done" /\ ~ ssl.complete /\ (pc = "process" \/ (pc = "read" /\ down # <<>>))
  \/ ssl.hs = "done" /\ ssl.complete /\ server = "request" /\ Saying(2)
  \/ ssl.hs = "done" /\ ssl.complete /\ server = "close"

(* While the server is there and has sent no warning and no HelloRequest,  *)
(* the turns are kept, unless the client is to close.                      *)
Quiet == "warning" \notin ToSet(extra) /\ ~ HelloRequested
Unasked == {"warning", "hellorequest", "resumed"}

TurnsKept ==
  pc # "idle" /\ server # "gone" /\ Quiet =>
    /\ \A kind \in Unasked : ~ Arrived(kind)
    /\ ~ ssl.closing => Turns

IInv == TypeOK /\ SessionReleased /\ InUse /\ AskedWhenComplete /\ TurnsKept
-----------------------------------------------------------------------------
(* Sequences                                                               *)

LEMMA HeadElement ==
  ASSUME NEW s \in Seq(Kind), s # <<>>
  PROVE  /\ Head(s) \in Kind /\ Head(s) \in ToSet(s)
         /\ Tail(s) \in Seq(Kind)
<1>1. 1 \in DOMAIN s /\ Head(s) = s[1]
  BY EmptySeq, LenProperties
<1> QED BY <1>1 DEF ToSet

LEMMA EmptyElements == <<>> \in Seq(Kind) /\ ToSet(<<>>) = {} /\ Len(<<>>) = 0
BY DEF ToSet

LEMMA HalvesElements ==
  ASSUME NEW kind \in Kind
  PROVE  Halves(kind) \in Seq(Kind) /\ Len(Halves(kind)) = 2
BY DEF Halves

(* A session whose fields change stays a session.                          *)
LEMMA SessionFields ==
  ASSUME NEW s \in Session
  PROVE  /\ s.hs \in {"none", "hello", "finish", "done"}
         /\ s.complete \in BOOLEAN /\ s.closing \in BOOLEAN /\ s.credit \in {0, 1}
         /\ s.in \in Seq(Kind) /\ s.out \in Seq(Kind)
         /\ s = [hs |-> s.hs, complete |-> s.complete, closing |-> s.closing,
                 credit |-> s.credit, in |-> s.in, out |-> s.out]
BY DEF Session
-----------------------------------------------------------------------------
(* The steps                                                               *)

LEMMA InitIInv == Init => IInv
<1> SUFFICES ASSUME Init PROVE IInv
  OBVIOUS
<1>1. TypeOK
  BY EmptyElements DEF Init, TypeOK, NoSession, Session
<1>2. SessionReleased
  BY DEF Init, SessionReleased, NothingFreed
<1> QED BY <1>1, <1>2 DEF Init, IInv, InUse, AskedWhenComplete, TurnsKept

(* A way out, once there is a session.                                     *)
LEMMA Ended ==
  ASSUME IInv, pc # "idle", NEW r, Release(r),
         ssl' \in Session, ssl'.hs # "none",
         up' \in Seq(Kind), down' = down, extra' = extra, server' = server, asked' = asked,
         hellos' = hellos
  PROVE  IInv'
<1>1. TypeOK'
  BY DEF IInv, TypeOK, Release
<1>2. SessionReleased'
  <2>1. freed = [session |-> 0, fd |-> 0]
    BY DEF IInv, SessionReleased
  <2>2. freed' = [session |-> 1, fd |-> 1] /\ pc' = "idle"
    BY <2>1 DEF Release
  <2>3. ssl' # NoSession
    BY DEF NoSession
  <2> QED BY <2>2, <2>3 DEF SessionReleased
<1> QED BY <1>1, <1>2 DEF IInv, InUse, AskedWhenComplete, TurnsKept, Release

LEMMA CloseErrStep ==
  ASSUME IInv, pc # "idle", CloseErr, UNCHANGED <<ssl, up, down, server, extra, hellos, asked>>
  PROVE  IInv'
<1>1. ssl' \in Session /\ ssl'.hs # "none" /\ up' \in Seq(Kind)
  BY DEF IInv, TypeOK, InUse
<1> QED BY <1>1, Ended DEF CloseErr

LEMMA CallStep == IInv /\ Call => IInv'
<1> SUFFICES ASSUME IInv, Call PROVE IInv'
  OBVIOUS
<1>1. /\ ssl' = NewClientSession /\ pc' = "write"
      /\ up' = <<>> /\ down' = <<>> /\ extra' = <<>> /\ server' = "hello"
      /\ hellos' = 0 /\ asked' = 0
      /\ freed' = [session |-> 0, fd |-> 0]
  BY DEF Call, NewConnection
<1>2. Halves("hello") \in Seq(Kind) /\ Len(Halves("hello")) = 2
  BY HalvesElements DEF Kind
<1>3. ssl' = [hs |-> "hello", complete |-> FALSE, closing |-> FALSE, credit |-> 1,
             in |-> <<>>, out |-> Halves("hello")]
  BY <1>1 DEF NewClientSession, NoSession
<1>4. TypeOK'
  BY <1>1, <1>2, <1>3, EmptyElements DEF TypeOK, Session
<1>5. SessionReleased'
  BY <1>1 DEF SessionReleased
<1>6. InUse' /\ AskedWhenComplete'
  BY <1>1, <1>3 DEF InUse, AskedWhenComplete
<1>7. \A kind : ~ Arrived(kind)'
  BY <1>1, <1>3, EmptyElements DEF Arrived
<1>8. Saying(2)'
  BY <1>1, <1>2, <1>3, EmptyElements DEF Saying
<1>9. TurnsKept'
  BY <1>1, <1>3, <1>7, <1>8 DEF TurnsKept, Turns
<1> QED BY <1>4, <1>5, <1>6, <1>9 DEF IInv

LEMMA CallFailsStep == IInv /\ CallFails => IInv'
<1> SUFFICES ASSUME IInv, CallFails PROVE IInv'
  OBVIOUS
<1>1. /\ ssl' = NoSession /\ pc' = "idle"
      /\ up' = <<>> /\ down' = <<>> /\ extra' = <<>> /\ server' = "hello"
      /\ hellos' = 0 /\ asked' = 0
      /\ freed' = [session |-> 0, fd |-> 0]
  BY DEF CallFails, NewConnection
<1>2. TypeOK'
  BY <1>1, EmptyElements DEF TypeOK, Session, NoSession
<1>3. SessionReleased'
  BY <1>1 DEF SessionReleased
<1> QED BY <1>1, <1>2, <1>3 DEF IInv, InUse, AskedWhenComplete, TurnsKept

LEMMA Joined ==
  ASSUME NEW s \in Seq(Kind), NEW t \in Seq(Kind)
  PROVE  \E u \in Seq(Kind) : u = s \o t /\ Len(u) = Len(s) + Len(t)
BY ConcatProperties

(* What the client writes of outbuf is on its way.                         *)
LEMMA Sent ==
  ASSUME NEW u \in Seq(Kind), NEW o \in Seq(Kind), NEW n \in 0 .. Len(o)
  PROVE  \E v \in Seq(Kind), r \in Seq(Kind) :
           /\ v = u \o SubSeq(o, 1, n) /\ r = SubSeq(o, n + 1, Len(o))
           /\ Len(v) + Len(r) = Len(u) + Len(o)
           /\ n < Len(o) => r # <<>>
<1> DEFINE l == SubSeq(o, 1, n)
           r == SubSeq(o, n + 1, Len(o))
           v == u \o l
<1>1. l \in Seq(Kind) /\ Len(l) = n /\ r \in Seq(Kind) /\ Len(r) = Len(o) - n
  BY SplitElements
<1> HIDE DEF l, r
<1>2. v \in Seq(Kind) /\ Len(v) = Len(u) + Len(l)
  BY <1>1, ConcatProperties
<1> HIDE DEF v
<1>3. Len(u) \in Nat /\ Len(o) \in Nat /\ n \in Nat
  BY LenProperties
<1>4. Len(v) + Len(r) = Len(u) + Len(o)
  BY <1>1, <1>2, <1>3
<1>5. n < Len(o) => r # <<>>
  BY <1>1, <1>3
<1>6. v = u \o SubSeq(o, 1, n) /\ r = SubSeq(o, n + 1, Len(o))
  BY DEF l, r, v
<1> QED BY <1>1, <1>2, <1>4, <1>5, <1>6

(* The request is written by a session that has not written it.            *)
LEMMA WriteRequestStep ==
  ASSUME IInv, pc # "idle", NEW s \in Session, WriteRequest(s),
         s.hs = "done", s.complete, s.in = <<>>, asked <= hellos,
         up' \in Seq(Kind), down' = down, extra' = extra, server' = server, hellos' = hellos,
         ~ s.closing /\ server # "gone" /\ Quiet =>
           /\ \A kind \in Unasked : ~ Arrived(kind)
           /\ server = "request" /\ Len(up') + Len(s.out) = 0
  PROVE  IInv'
<1>1. CASE s.closing
  <2>1. ssl' = s /\ Release("error") /\ asked' = asked
    BY <1>1 DEF WriteRequest, CloseErr
  <2> QED BY <2>1, Ended
<1>2. CASE ~ s.closing
  <2>1. /\ ssl' = [s EXCEPT !.out = @ \o Halves("request")]
        /\ asked' = asked + 1 /\ pc' = "write" /\ freed' = freed
    BY <1>2 DEF WriteRequest
  <2>2. Halves("request") \in Seq(Kind) /\ Len(Halves("request")) = 2
    BY HalvesElements DEF Kind
  <2>3. s.out \in Seq(Kind)
    BY SessionFields
  <2>4. PICK o \in Seq(Kind) :
          o = s.out \o Halves("request") /\ Len(o) = Len(s.out) + Len(Halves("request"))
    BY <2>2, <2>3, Joined
  <2>5. /\ ssl' \in Session /\ ssl'.hs = "done" /\ ssl'.complete /\ ~ ssl'.closing
        /\ ssl'.in = <<>> /\ ssl'.out = o
    BY <1>2, <2>1, <2>4 DEF Session
  <2>6. TypeOK'
    BY <2>1, <2>5 DEF IInv, TypeOK
  <2>7. SessionReleased'
    BY <2>1 DEF IInv, SessionReleased
  <2>8. InUse' /\ AskedWhenComplete'
    BY <2>1, <2>5 DEF InUse, AskedWhenComplete, IInv, TypeOK
  <2>9. TurnsKept'
    <3> SUFFICES ASSUME server # "gone", Quiet
                 PROVE  (\A kind \in Unasked : ~ Arrived(kind)') /\ Turns'
      BY DEF TurnsKept, Quiet, HelloRequested
    <3>1. \A kind \in Unasked : ~ Arrived(kind)'
      BY <1>2, <2>5, EmptyElements DEF Arrived
    <3>2. Saying(2)'
      <4>1. Len(up') + Len(s.out) = 0 /\ Len(o) = Len(s.out) + 2
        BY <1>2, <2>2, <2>4
      <4>2. Len(up') \in Nat /\ Len(s.out) \in Nat
        BY <2>3, LenProperties
      <4>3. Len(up') + Len(o) = 2
        BY <4>1, <4>2
      <4> QED BY <2>5, <4>3 DEF Saying
    <3> QED BY <1>2, <2>5, <3>1, <3>2 DEF Turns
  <2> QED BY <2>6, <2>7, <2>8, <2>9 DEF IInv
<1> QED BY <1>1, <1>2

LEMMA WriteStep == IInv /\ Write => IInv'
<1> SUFFICES ASSUME IInv, Write PROVE IInv'
  OBVIOUS
<1>1. PICK n \in 1 .. Len(ssl.out) :
        /\ up' = up \o SubSeq(ssl.out, 1, n)
        /\ \/ /\ SentRc(ssl, n) = "REQUEST_CLOSE"
              /\ ssl' = SentData(ssl, n)
              /\ Release("success")
              /\ UNCHANGED asked
           \/ /\ SentRc(ssl, n) = "HANDSHAKE_COMPLETE"
              /\ WriteRequest(SentData(ssl, n))
           \/ /\ SentRc(ssl, n) = "SUCCESS"
              /\ ssl' = SentData(ssl, n)
              /\ WriteMore
              /\ UNCHANGED <<freed, asked, result>>
  BY DEF Write
<1>2. /\ pc = "write" /\ down' = down /\ server' = server /\ extra' = extra
      /\ hellos' = hellos
  BY DEF Write
<1>3. /\ ssl \in Session /\ ssl.out \in Seq(Kind) /\ ssl.hs # "none" /\ ssl.in = <<>>
      /\ up \in Seq(Kind) /\ n \in 0 .. Len(ssl.out)
  BY <1>2, SessionFields DEF IInv, TypeOK, InUse
<1>4. PICK o \in Seq(Kind) :
        /\ o = SubSeq(ssl.out, n + 1, Len(ssl.out))
        /\ up' \in Seq(Kind) /\ Len(up') + Len(o) = Len(up) + Len(ssl.out)
        /\ n < Len(ssl.out) => o # <<>>
  <2>1. \E v \in Seq(Kind), r \in Seq(Kind) :
          /\ v = up \o SubSeq(ssl.out, 1, n) /\ r = SubSeq(ssl.out, n + 1, Len(ssl.out))
          /\ Len(v) + Len(r) = Len(up) + Len(ssl.out)
          /\ n < Len(ssl.out) => r # <<>>
    BY <1>3, Sent
  <2> QED BY <1>1, <2>1
<1>5. /\ SentData(ssl, n) \in Session
      /\ SentData(ssl, n).hs = ssl.hs /\ SentData(ssl, n).closing = ssl.closing
      /\ SentData(ssl, n).in = <<>> /\ SentData(ssl, n).out = o
      /\ SentData(ssl, n).complete <=> ssl.complete \/ Untold(ssl)
  BY <1>3, <1>4 DEF SentData, Session
<1>6. CASE SentRc(ssl, n) = "REQUEST_CLOSE" /\ Release("success")
  BY <1>1, <1>2, <1>3, <1>4, <1>5, <1>6, Ended DEF SentRc
<1>7. CASE SentRc(ssl, n) = "HANDSHAKE_COMPLETE" /\ WriteRequest(SentData(ssl, n))
  <2>1. Untold(ssl)
    BY <1>7 DEF SentRc
  <2>2. ssl.hs = "done" /\ ~ ssl.complete
    BY <2>1 DEF Untold
  <2>3. asked <= hellos
    BY <1>2, <2>2 DEF IInv, TypeOK, AskedWhenComplete
  <2>4. ~ (~ ssl.closing /\ server # "gone" /\ Quiet)
    BY <1>2, <2>2 DEF IInv, TurnsKept, Turns, Quiet, HelloRequested
  <2>5. SentData(ssl, n).hs = "done" /\ SentData(ssl, n).complete
    BY <1>5, <2>1, <2>2
  <2>6. ~ (~ SentData(ssl, n).closing /\ server # "gone" /\ Quiet)
    BY <1>5, <2>4
  <2> QED BY <1>2, <1>4, <1>5, <1>7, <2>3, <2>5, <2>6, WriteRequestStep
<1>8. CASE /\ SentRc(ssl, n) = "SUCCESS" /\ ssl' = SentData(ssl, n) /\ WriteMore
           /\ UNCHANGED <<freed, asked>>
  <2>1. ~ Untold(ssl) /\ (ssl.closing => n < Len(ssl.out))
    BY <1>3, <1>8 DEF SentRc
  <2>2. /\ ssl' \in Session /\ ssl'.hs = ssl.hs /\ ssl'.in = <<>> /\ ssl'.out = o
        /\ ssl'.closing = ssl.closing /\ (ssl'.complete <=> ssl.complete)
    BY <1>5, <1>8, <2>1
  <2>3. pc' = "write" /\ freed' = freed /\ asked' = asked
    BY <1>8 DEF WriteMore
  <2>4. TypeOK'
    BY <1>2, <1>4, <2>2, <2>3 DEF IInv, TypeOK
  <2>5. SessionReleased'
    BY <1>2, <2>3 DEF IInv, SessionReleased
  <2>6. InUse' /\ AskedWhenComplete'
    BY <1>2, <1>3, <1>4, <2>1, <2>2, <2>3 DEF IInv, InUse, AskedWhenComplete
  <2>7. \A k : Arrived(k)' <=> Arrived(k)
    BY <1>2, <1>3, <2>2 DEF Arrived
  <2>8. \A k : Saying(k)' <=> Saying(k)
    BY <1>4, <2>2 DEF Saying
  <2>9. TurnsKept'
    BY <1>2, <2>2, <2>3, <2>7, <2>8 DEF IInv, TurnsKept, Turns, Quiet, HelloRequested
  <2> QED BY <2>4, <2>5, <2>6, <2>9 DEF IInv
<1> QED BY <1>1, <1>6, <1>7, <1>8

LEMMA WrittenStep == IInv /\ Written => IInv'
<1> SUFFICES ASSUME IInv, Written PROVE IInv'
  OBVIOUS
<1>1. /\ pc = "write" /\ ssl.out = <<>> /\ pc' = "read"
      /\ UNCHANGED <<ssl, up, down, server, extra, freed, hellos, asked, result>>
  BY DEF Written
<1>2. TypeOK'
  BY <1>1 DEF IInv, TypeOK
<1>3. SessionReleased'
  BY <1>1 DEF IInv, SessionReleased
<1>4. InUse' /\ AskedWhenComplete'
  BY <1>1 DEF IInv, InUse, AskedWhenComplete
<1>5. TurnsKept'
  BY <1>1 DEF IInv, TurnsKept, Turns, Arrived, Saying, Quiet, HelloRequested
<1> QED BY <1>2, <1>3, <1>4, <1>5 DEF IInv

LEMMA ReadStep == IInv /\ Read => IInv'
<1> SUFFICES ASSUME IInv, Read PROVE IInv'
  OBVIOUS
<1>1. PICK n \in 1 .. Len(down) :
        /\ ssl' = [ssl EXCEPT !.in = @ \o SubSeq(down, 1, n)]
        /\ down' = SubSeq(down, n + 1, Len(down))
  BY DEF Read
<1>2. /\ pc = "read" /\ pc' = "process"
      /\ UNCHANGED <<up, server, extra, freed, hellos, asked, result>>
  BY DEF Read
<1>3. /\ ssl \in Session /\ ssl.in = <<>> /\ ssl.out = <<>> /\ ssl.hs # "none"
      /\ ~ ssl.closing /\ down \in Seq(Kind) /\ n \in 0 .. Len(down) /\ n # 0
  BY <1>2, LenProperties DEF IInv, TypeOK, InUse
<1> DEFINE l == SubSeq(down, 1, n)
           r == SubSeq(down, n + 1, Len(down))
<1>4. /\ l \in Seq(Kind) /\ Len(l) = n /\ r \in Seq(Kind)
      /\ ToSet(l) \cup ToSet(r) = ToSet(down)
  BY <1>3, SplitElements
<1>5. down' = r /\ ssl' = [ssl EXCEPT !.in = @ \o l]
  BY <1>1
<1> HIDE DEF l, r
<1>6. <<>> \o l = l /\ l # <<>>
  BY <1>3, <1>4
<1>7. /\ ssl' \in Session /\ ssl'.in = l /\ ssl'.out = <<>> /\ ssl'.hs = ssl.hs
      /\ ~ ssl'.closing /\ (ssl'.complete <=> ssl.complete)
  BY <1>3, <1>4, <1>5, <1>6 DEF Session
<1>8. TypeOK'
  BY <1>2, <1>4, <1>5, <1>7 DEF IInv, TypeOK
<1>9. SessionReleased'
  BY <1>2 DEF IInv, SessionReleased
<1>10. InUse' /\ AskedWhenComplete'
  BY <1>2, <1>6, <1>7 DEF IInv, InUse, AskedWhenComplete
<1>11. \A k : Arrived(k)' <=> Arrived(k)
  BY <1>3, <1>4, <1>5, <1>7, EmptyElements DEF Arrived
<1>12. \A k : Saying(k)' <=> Saying(k)
  BY <1>2, <1>3, <1>7 DEF Saying
<1>13. TurnsKept'
  BY <1>2, <1>3, <1>7, <1>11, <1>12 DEF IInv, TurnsKept, Turns, Quiet, HelloRequested
<1> QED BY <1>8, <1>9, <1>10, <1>13 DEF IInv

(* The rest of what has arrived.                                           *)
LEMMA RestElements ==
  ASSUME NEW s \in Seq(Kind), s # <<>>
  PROVE  ToSet(Tail(s)) \subseteq ToSet(s)
<1> DEFINE t == Tail(s)
<1>1. Len(s) \in Nat \ {0} /\ DOMAIN s = 1 .. Len(s)
  BY LenProperties, EmptySeq
<1>2. t \in Seq(Kind) /\ Len(t) = Len(s) - 1 /\ \A i \in 1 .. Len(t) : t[i] = s[i + 1]
  BY HeadTailProperties
<1> HIDE DEF t
<1>3. DOMAIN t = 1 .. Len(t)
  BY <1>2, LenProperties
<1>4. \A i \in DOMAIN t : i + 1 \in DOMAIN s /\ t[i] = s[i + 1]
  BY <1>1, <1>2, <1>3
<1>5. ToSet(t) \subseteq ToSet(s)
  BY <1>4 DEF ToSet
<1> QED BY <1>5 DEF t

LEMMA ProcessFlightStep == IInv /\ ProcessFlight /\ UNCHANGED hellos => IInv'
<1> SUFFICES ASSUME IInv, ProcessFlight, UNCHANGED hellos PROVE IInv'
  OBVIOUS
<1>1. /\ pc = "process" /\ Head(ssl.in) = "flight" /\ ssl.hs = "hello"
      /\ ssl' = [[ssl EXCEPT !.hs = "finish"] EXCEPT !.in = <<>>, !.out = @ \o Halves("flight")]
      /\ pc' = "write" /\ UNCHANGED <<up, down, server, extra, freed, asked, result>>
  BY DEF ProcessFlight, Processing, Respond
<1>2. /\ ssl \in Session /\ ssl.in \in Seq(Kind) /\ ssl.in # <<>> /\ ssl.out = <<>>
      /\ ~ ssl.closing /\ ~ ssl.complete
  BY <1>1, SessionFields DEF IInv, TypeOK, InUse
<1>3. Halves("flight") \in Seq(Kind) /\ Len(Halves("flight")) = 2
  BY HalvesElements DEF Kind
<1>4. ssl.out \o Halves("flight") = Halves("flight")
  BY <1>2, <1>3
<1>5. /\ ssl' \in Session /\ ssl'.hs = "finish" /\ ssl'.in = <<>> /\ ssl'.out = Halves("flight")
      /\ ~ ssl'.closing /\ ~ ssl'.complete
  BY <1>1, <1>2, <1>3, <1>4, EmptyElements DEF Session
<1>6. asked <= hellos
  BY <1>1, <1>2 DEF IInv, TypeOK, AskedWhenComplete
<1>7. TypeOK'
  BY <1>1, <1>5 DEF IInv, TypeOK
<1>8. SessionReleased'
  BY <1>1 DEF IInv, SessionReleased
<1>9. InUse' /\ AskedWhenComplete'
  BY <1>1, <1>3, <1>5, <1>6 DEF InUse, AskedWhenComplete, IInv, TypeOK
<1>10. TurnsKept'
  <2> SUFFICES ASSUME server # "gone", Quiet
               PROVE  (\A kind \in Unasked : ~ Arrived(kind)') /\ Turns'
    BY <1>1 DEF TurnsKept, Quiet, HelloRequested
  <2>1. (\A kind \in Unasked : ~ Arrived(kind)) /\ Turns
    BY <1>1, <1>2 DEF IInv, TurnsKept
  <2>2. Arrived("flight")
    BY <1>1, <1>2, HeadElement DEF Arrived
  <2>3. server = "flight" /\ Saying(0) /\ ~ Arrived("finished")
    BY <1>1, <2>1, <2>2 DEF Turns
  <2>4. \A k : Arrived(k)' => Arrived(k)
    BY <1>1, <1>5, EmptyElements DEF Arrived
  <2>5. Saying(2)'
    <3>1. Len(up) + Len(ssl.out) = 0 /\ Len(ssl.out) = 0 /\ Len(ssl'.out) = 2 /\ up' = up
      BY <1>1, <1>2, <1>3, <1>5, <2>3, EmptyElements DEF Saying
    <3>2. PICK u \in Nat : u = Len(up)
      BY LenProperties DEF IInv, TypeOK
    <3>3. u + 2 = 2
      BY <3>1, <3>2
    <3> QED BY <3>1, <3>2, <3>3 DEF Saying
  <2> QED BY <1>1, <1>5, <2>1, <2>3, <2>4, <2>5 DEF Turns
<1> QED BY <1>7, <1>8, <1>9, <1>10 DEF IInv

LEMMA ProcessFinishedStep == IInv /\ ProcessFinished /\ UNCHANGED hellos => IInv'
<1> SUFFICES ASSUME IInv, ProcessFinished, UNCHANGED hellos PROVE IInv'
  OBVIOUS
<1>1. /\ pc = "process" /\ Head(ssl.in) = "finished" /\ ssl.hs = "finish"
      /\ UNCHANGED <<up, down, server, extra>>
  BY DEF ProcessFinished, Processing
<1> DEFINE s == [ssl EXCEPT !.hs = "done", !.in = Tail(@)]
<1>2. \/ s.in = <<>> /\ HandshakeComplete(s)
      \/ /\ ssl' = s /\ UNCHANGED <<freed, asked, result>>
         /\ \/ s.in # <<>> /\ pc' = pc
            \/ s.in = <<>> /\ down # <<>> /\ pc' = "read"
  BY DEF ProcessFinished
<1>3. /\ ssl \in Session /\ ssl.in \in Seq(Kind) /\ ssl.in # <<>> /\ ssl.out = <<>>
      /\ ~ ssl.closing /\ ~ ssl.complete
  BY <1>1, SessionFields DEF IInv, TypeOK, InUse
<1>4. /\ s \in Session /\ s.hs = "done" /\ s.in = Tail(ssl.in) /\ s.out = <<>>
      /\ ~ s.closing /\ ~ s.complete
  BY <1>3, HeadElement DEF Session
<1>5. asked <= hellos
  BY <1>1, <1>3 DEF IInv, TypeOK, AskedWhenComplete
<1>6. ASSUME server # "gone", Quiet
      PROVE  (\A kind \in Unasked : ~ Arrived(kind)) /\ server = "request" /\ Saying(0)
  <2>1. (\A kind \in Unasked : ~ Arrived(kind)) /\ Turns
    BY <1>1, <1>3, <1>6 DEF IInv, TurnsKept
  <2>2. Arrived("finished")
    BY <1>1, <1>3, HeadElement DEF Arrived
  <2> QED BY <1>1, <2>1, <2>2 DEF Turns
<1> HIDE DEF s
<1>7. CASE s.in = <<>> /\ HandshakeComplete(s)
  <2> DEFINE c == [s EXCEPT !.complete = TRUE]
  <2>1. WriteRequest(c)
    BY <1>7 DEF HandshakeComplete
  <2>2. c \in Session /\ c.hs = "done" /\ c.complete /\ c.in = <<>> /\ c.out = <<>>
    BY <1>4, <1>7 DEF Session
  <2> HIDE DEF c
  <2>3. up' \in Seq(Kind) /\ Len(up') = Len(up)
    BY <1>1 DEF IInv, TypeOK
  <2>4. Saying(0) => Len(up') + Len(c.out) = 0
    BY <1>3, <2>2, <2>3 DEF Saying
  <2>5. ~ c.closing /\ server # "gone" /\ Quiet =>
           /\ \A kind \in Unasked : ~ Arrived(kind)
           /\ server = "request" /\ Len(up') + Len(c.out) = 0
    BY <1>6, <2>4
  <2> QED BY <1>1, <1>5, <2>1, <2>2, <2>3, <2>5, WriteRequestStep
<1>8. CASE /\ ssl' = s /\ UNCHANGED <<freed, asked, result>>
           /\ \/ s.in # <<>> /\ pc' = pc
              \/ s.in = <<>> /\ down # <<>> /\ pc' = "read"
  <2>1. TypeOK'
    BY <1>1, <1>4, <1>8 DEF IInv, TypeOK
  <2>2. SessionReleased'
    BY <1>1, <1>8 DEF IInv, SessionReleased
  <2>3. InUse' /\ AskedWhenComplete'
    <3>1. /\ pc' \in {"process", "read"} /\ (pc' = "read" <=> s.in = <<>>)
          /\ asked' = asked /\ asked <= hellos /\ hellos' = hellos
      BY <1>1, <1>5, <1>8
    <3>2. /\ ssl'.hs = "done" /\ ssl'.in = s.in /\ ssl'.out = <<>>
          /\ ~ ssl'.closing /\ ~ ssl'.complete
      BY <1>4, <1>8
    <3> QED BY <3>1, <3>2 DEF InUse, AskedWhenComplete, IInv, TypeOK
  <2>4. \A k : Arrived(k)' => Arrived(k)
    BY <1>1, <1>3, <1>4, <1>8, RestElements DEF Arrived
  <2>5. Quiet' => Quiet
    BY <1>1 DEF Quiet, HelloRequested
  <2>6. ssl'.hs = "done" /\ ~ ssl'.complete /\ (pc' = "process" \/ (pc' = "read" /\ down' # <<>>))
    BY <1>1, <1>4, <1>8
  <2>7. TurnsKept'
    BY <1>1, <1>6, <2>4, <2>5, <2>6 DEF TurnsKept, Turns
  <2> QED BY <2>1, <2>2, <2>3, <2>7 DEF IInv
<1> QED BY <1>2, <1>7, <1>8

(* closeConn is one of the ways out.                                       *)
LEMMA CloseConnStep ==
  ASSUME IInv, pc # "idle", NEW s \in Session, s.hs # "none", NEW r, CloseConn(s, r),
         UNCHANGED <<down, server, extra, hellos>>
  PROVE  IInv'
<1> DEFINE out == IF s.closing THEN s.out ELSE s.out \o Halves("close")
<1>1. PICK n \in 0 .. Len(out) : up' = up \o SubSeq(out, 1, n)
  BY DEF CloseConn
<1>2. s.out \in Seq(Kind) /\ up \in Seq(Kind) /\ Halves("close") \in Seq(Kind)
  BY SessionFields, HalvesElements DEF IInv, TypeOK, Kind
<1>3. out \in Seq(Kind)
  BY <1>2, Joined
<1> HIDE DEF out
<1>4. up' \in Seq(Kind)
  BY <1>1, <1>2, <1>3, Sent
<1>5. ssl' = s /\ Release(r) /\ asked' = asked
  BY DEF CloseConn
<1> QED BY <1>4, <1>5, Ended

LEMMA ProcessDataStep == IInv /\ ProcessData /\ UNCHANGED hellos => IInv'
<1> SUFFICES ASSUME IInv, ProcessData, UNCHANGED hellos PROVE IInv'
  OBVIOUS
<1> DEFINE s == [ssl EXCEPT !.complete = @ \/ ssl.hs = "done", !.in = Tail(@)]
<1>1. PICK r : CloseConn(s, r)
  BY DEF ProcessData
<1>2. /\ pc = "process" /\ ssl.hs \in {"hello", "done"}
      /\ UNCHANGED <<down, server, extra, hellos>>
  BY DEF ProcessData, Processing, DataExpected
<1>3. ssl \in Session /\ ssl.in \in Seq(Kind) /\ ssl.in # <<>>
  BY <1>2, SessionFields DEF IInv, TypeOK, InUse
<1>4. s \in Session /\ s.hs # "none"
  BY <1>2, <1>3, HeadElement DEF Session
<1> HIDE DEF s
<1> QED BY <1>1, <1>2, <1>4, CloseConnStep

LEMMA ProcessCloseStep == IInv /\ ProcessClose /\ UNCHANGED hellos => IInv'
<1> SUFFICES ASSUME IInv, ProcessClose, UNCHANGED hellos PROVE IInv'
  OBVIOUS
<1>1. pc = "process" /\ CloseConn(ssl, "success") /\ UNCHANGED <<down, server, extra>>
  BY DEF ProcessClose, Processing
<1>2. ssl \in Session /\ ssl.hs # "none"
  BY <1>1 DEF IInv, TypeOK, InUse
<1> QED BY <1>1, <1>2, CloseConnStep

LEMMA ProcessFatalStep == IInv /\ ProcessFatal /\ UNCHANGED hellos => IInv'
BY CloseErrStep DEF ProcessFatal, Processing

(* A warning is among the records the server sent out of turn, so that     *)
(* nothing is promised any more.                                           *)
LEMMA ProcessWarningStep == IInv /\ ProcessWarning /\ UNCHANGED hellos => IInv'
<1> SUFFICES ASSUME IInv, ProcessWarning, UNCHANGED hellos PROVE IInv'
  OBVIOUS
<1>1. /\ pc = "process" /\ Head(ssl.in) = "warning"
      /\ ssl' = [ssl EXCEPT !.in = Tail(@)]
      /\ pc' = IF ssl'.in = <<>> THEN "read" ELSE "process"
      /\ UNCHANGED <<up, down, server, extra, freed, asked, result>>
  BY DEF ProcessWarning, Processing, WarningProcessed
<1>2. /\ ssl \in Session /\ ssl.in \in Seq(Kind) /\ ssl.in # <<>> /\ ssl.out = <<>>
      /\ ssl.hs # "none" /\ ~ ssl.closing
  BY <1>1, SessionFields DEF IInv, TypeOK, InUse
<1>3. /\ ssl' \in Session /\ ssl'.hs = ssl.hs /\ ssl'.out = <<>>
      /\ ~ ssl'.closing /\ (ssl'.complete <=> ssl.complete)
  BY <1>1, <1>2, HeadElement DEF Session
<1>4. TypeOK'
  BY <1>1, <1>3 DEF IInv, TypeOK
<1>5. SessionReleased'
  BY <1>1 DEF IInv, SessionReleased
<1>6. InUse' /\ AskedWhenComplete'
  BY <1>1, <1>2, <1>3 DEF IInv, InUse, AskedWhenComplete
<1>7. Arrived("warning")
  BY <1>1, <1>2, HeadElement DEF Arrived
<1>8. TurnsKept'
  BY <1>1, <1>7 DEF IInv, TurnsKept, Quiet, HelloRequested, Unasked
<1> QED BY <1>4, <1>5, <1>6, <1>8 DEF IInv

LEMMA ProcessUnexpectedStep == IInv /\ ProcessUnexpected /\ UNCHANGED hellos => IInv'
<1> SUFFICES ASSUME IInv, ProcessUnexpected, UNCHANGED hellos PROVE IInv'
  OBVIOUS
<1>1. /\ pc = "process" /\ UNCHANGED <<down, server, extra>>
      /\ \/ Respond([ssl EXCEPT !.closing = TRUE], "alert")
         \/ CloseErr /\ UNCHANGED <<ssl, up, asked>>
  BY DEF ProcessUnexpected
<1>2. CASE CloseErr /\ UNCHANGED <<ssl, up, asked>>
  BY <1>1, <1>2, CloseErrStep
<1>3. CASE Respond([ssl EXCEPT !.closing = TRUE], "alert")
  <2>1. /\ ssl' = [[ssl EXCEPT !.closing = TRUE] EXCEPT !.in = <<>>, !.out = @ \o Halves("alert")]
        /\ pc' = "write" /\ UNCHANGED <<up, freed, asked, result>>
    BY <1>3 DEF Respond
  <2>2. ssl \in Session /\ ssl.out = <<>> /\ ssl.hs # "none"
    BY <1>1 DEF IInv, TypeOK, InUse
  <2>3. Halves("alert") \in Seq(Kind) /\ Len(Halves("alert")) = 2
    BY HalvesElements DEF Kind
  <2>4. ssl.out \o Halves("alert") = Halves("alert")
    BY <2>2, <2>3
  <2>5. /\ ssl' \in Session /\ ssl'.hs = ssl.hs /\ ssl'.in = <<>> /\ ssl'.out = Halves("alert")
        /\ ssl'.closing /\ (ssl'.complete <=> ssl.complete)
    BY <2>1, <2>2, <2>3, <2>4, EmptyElements DEF Session
  <2>6. TypeOK'
    BY <1>1, <2>1, <2>5 DEF IInv, TypeOK
  <2>7. SessionReleased'
    BY <1>1, <2>1 DEF IInv, SessionReleased
  <2>8. Halves("alert") # <<>>
    BY <2>3
  <2>9. InUse' /\ AskedWhenComplete'
    BY <1>1, <2>1, <2>2, <2>5, <2>8 DEF IInv, InUse, AskedWhenComplete
  <2>10. \A k : Arrived(k)' => Arrived(k)
    BY <1>1, <2>5, EmptyElements DEF Arrived
  <2>11. TurnsKept'
    BY <1>1, <2>5, <2>10 DEF IInv, TurnsKept, Quiet, HelloRequested
  <2> QED BY <2>6, <2>7, <2>9, <2>11 DEF IInv
<1> QED BY <1>1, <1>2, <1>3

(* What answers a record that only a server sends that has sent a          *)
(* HelloRequest: nothing is promised of the turns any more.                *)
LEMMA RespondStep ==
  ASSUME IInv, pc = "process", NEW s \in Session, NEW kind \in Kind, Respond(s, kind),
         s.hs # "none", s.out = <<>>, ~ s.complete, asked <= hellos', hellos' \in Nat,
         UNCHANGED <<down, server, extra>>,
         \E k \in Unasked : Arrived(k)
  PROVE  IInv'
<1>1. /\ ssl' = [s EXCEPT !.in = <<>>, !.out = @ \o Halves(kind)]
      /\ pc' = "write" /\ UNCHANGED <<up, freed, asked, result>>
  BY DEF Respond
<1>2. Halves(kind) \in Seq(Kind) /\ Len(Halves(kind)) = 2
  BY HalvesElements
<1>3. s.out \o Halves(kind) = Halves(kind) /\ Halves(kind) # <<>>
  <2>1. PICK h \in Seq(Kind) : h = Halves(kind) /\ Len(h) = 2
    BY <1>2
  <2>2. <<>> \o h = h /\ h # <<>>
    BY <2>1
  <2> QED BY <2>1, <2>2
<1>4. /\ ssl' \in Session /\ ssl'.hs = s.hs /\ ssl'.in = <<>> /\ ssl'.out = Halves(kind)
      /\ ~ ssl'.complete
  BY <1>1, <1>2, <1>3, EmptyElements DEF Session
<1>5. TypeOK'
  BY <1>1, <1>4 DEF IInv, TypeOK
<1>6. SessionReleased'
  BY <1>1 DEF IInv, SessionReleased
<1>7. InUse' /\ AskedWhenComplete'
  BY <1>1, <1>3, <1>4 DEF InUse, AskedWhenComplete, IInv, TypeOK
<1>8. TurnsKept'
  BY DEF IInv, TurnsKept, Quiet, HelloRequested
<1> QED BY <1>5, <1>6, <1>7, <1>8 DEF IInv

LEMMA ProcessResumedStep == IInv /\ ProcessResumed /\ UNCHANGED hellos => IInv'
<1> SUFFICES ASSUME IInv, ProcessResumed, UNCHANGED hellos PROVE IInv'
  OBVIOUS
<1>1. /\ pc = "process" /\ Head(ssl.in) = "resumed" /\ ssl.hs = "hello"
      /\ Respond([ssl EXCEPT !.hs = "done"], "finish")
      /\ UNCHANGED <<down, server, extra>>
  BY DEF ProcessResumed, Processing
<1>2. /\ ssl \in Session /\ ssl.in \in Seq(Kind) /\ ssl.in # <<>> /\ ssl.out = <<>>
      /\ ~ ssl.complete
  BY <1>1, SessionFields DEF IInv, TypeOK, InUse
<1>3. PICK s \in Session :
        s.hs = "done" /\ s.out = <<>> /\ ~ s.complete /\ Respond(s, "finish")
  BY <1>1, <1>2 DEF Session
<1>4. asked <= hellos' /\ hellos' \in Nat
  BY <1>1, <1>2 DEF IInv, TypeOK, AskedWhenComplete
<1>5. Arrived("resumed")
  BY <1>1, <1>2, HeadElement DEF Arrived
<1> QED BY <1>1, <1>3, <1>4, <1>5, RespondStep DEF Kind, Unasked

LEMMA ProcessHelloRequestStep == IInv /\ ProcessHelloRequest => IInv'
<1> SUFFICES ASSUME IInv, ProcessHelloRequest PROVE IInv'
  OBVIOUS
<1>1. /\ pc = "process" /\ Head(ssl.in) = "hellorequest" /\ ssl.hs = "done"
      /\ hellos' = hellos + 1 /\ UNCHANGED <<down, server, extra>>
  BY DEF ProcessHelloRequest, Processing
<1>2. /\ ssl \in Session /\ ssl.in \in Seq(Kind) /\ ssl.in # <<>> /\ ssl.out = <<>>
      /\ ~ ssl.closing
  BY <1>1, SessionFields DEF IInv, TypeOK, InUse
<1>3. asked <= hellos' /\ hellos' \in Nat /\ asked \in Nat /\ hellos \in Nat
  BY <1>1 DEF IInv, TypeOK, AskedWhenComplete
<1>4. Arrived("hellorequest")
  BY <1>1, <1>2, HeadElement DEF Arrived
<1>5. CASE Respond([ssl EXCEPT !.complete = FALSE], "norenegotiation")
  <2>1. PICK s \in Session :
          s.hs = "done" /\ s.out = <<>> /\ ~ s.complete /\ Respond(s, "norenegotiation")
    BY <1>1, <1>2, <1>5 DEF Session
  <2> QED BY <1>1, <1>3, <1>4, <2>1, RespondStep DEF Kind, Unasked
<1>6. CASE Respond([ssl EXCEPT !.hs = "hello", !.complete = FALSE, !.credit = 0], "hello")
  <2>1. PICK s \in Session :
          s.hs = "hello" /\ s.out = <<>> /\ ~ s.complete /\ Respond(s, "hello")
    BY <1>1, <1>2, <1>6 DEF Session
  <2> QED BY <1>1, <1>3, <1>4, <2>1, RespondStep DEF Kind, Unasked
<1>7. CASE /\ ssl' = [ssl EXCEPT !.credit = 0, !.in = Tail(@)]
           /\ pc' = IF ssl'.in = <<>> THEN "read" ELSE "process"
           /\ UNCHANGED <<up, freed, asked, result>>
  <2>1. /\ ssl' \in Session /\ ssl'.hs = "done" /\ ssl'.out = <<>> /\ ~ ssl'.closing
    BY <1>1, <1>2, <1>7, HeadElement DEF Session
  <2>2. TypeOK'
    BY <1>1, <1>3, <1>7, <2>1 DEF IInv, TypeOK
  <2>3. SessionReleased'
    BY <1>1, <1>7 DEF IInv, SessionReleased
  <2>4. InUse' /\ AskedWhenComplete'
    BY <1>1, <1>3, <1>7, <2>1 DEF InUse, AskedWhenComplete
  <2>5. TurnsKept'
    BY <1>1, <1>4 DEF IInv, TurnsKept, Quiet, HelloRequested, Unasked
  <2> QED BY <2>2, <2>3, <2>4, <2>5 DEF IInv
<1> QED BY <1>5, <1>6, <1>7 DEF ProcessHelloRequest

(* The server takes what the client said, two halves, and answers.         *)
LEMMA Taken ==
  ASSUME NEW u \in Seq(Kind), Len(u) >= 2
  PROVE  \E v \in Seq(Kind) : v = SubSeq(u, 3, Len(u)) /\ Len(v) = Len(u) - 2
<1>1. Len(u) \in Nat /\ 2 \in 0 .. Len(u) /\ 2 + 1 = 3
  BY LenProperties
<1>2. SubSeq(u, 2 + 1, Len(u)) \in Seq(Kind) /\ Len(SubSeq(u, 2 + 1, Len(u))) = Len(u) - 2
  BY <1>1, SplitElements
<1> QED BY <1>1, <1>2

LEMMA TurnStep ==
  ASSUME IInv, NEW kind, NEW reply \in Kind, NEW waits, Turn(kind, reply, waits),
         \/ /\ server = kind
            /\ <<kind, reply, waits>> \in {<<"hello", "flight", "flight">>,
                 <<"flight", "finished", "request">>, <<"request", "data", "close">>}
         \/ server = "close" /\ reply = "data" /\ waits = "close"
         \/ HelloRequested /\ waits \in {"flight", "finish"}
  PROVE  IInv'
<1>1. /\ Len(up) >= 2 /\ up' = SubSeq(up, 3, Len(up))
      /\ down' = Append(down, reply) /\ server' = waits
      /\ UNCHANGED <<pc, ssl, freed, hellos, asked, result, extra>>
  BY DEF Turn, Heard, clientVars
<1>2. up \in Seq(Kind) /\ down \in Seq(Kind) /\ ssl \in Session /\ ssl.out \in Seq(Kind)
  BY SessionFields DEF IInv, TypeOK
<1>3. up' \in Seq(Kind) /\ Len(up') = Len(up) - 2
  BY <1>1, <1>2, Taken
<1>4. down' \in Seq(Kind) /\ ToSet(down') = ToSet(down) \cup {reply}
  BY <1>1, <1>2, AppendElements
<1>5. TypeOK'
  BY <1>1, <1>3, <1>4 DEF IInv, TypeOK
<1>6. SessionReleased'
  BY <1>1 DEF IInv, SessionReleased
<1>7. InUse' /\ AskedWhenComplete'
  BY <1>1 DEF IInv, InUse, AskedWhenComplete
<1>81. down' # <<>>
  BY <1>1, <1>2
<1>8. \A k : Arrived(k)' <=> Arrived(k) \/ k = reply
  BY <1>1, <1>4 DEF Arrived
<1>9. /\ ~ Saying(0)
      /\ Saying(2) => Saying(0)'
  <2>1. Len(up) \in Nat /\ Len(ssl.out) \in Nat
    BY <1>2, LenProperties
  <2>2. Len(up) >= 2 /\ ssl' = ssl
    BY <1>1
  <2> QED BY <1>3, <2>1, <2>2 DEF Saying
<1>10. TurnsKept'
  <2> SUFFICES ASSUME pc # "idle", Quiet
               PROVE  (\A k \in Unasked : ~ Arrived(k)') /\ (~ ssl.closing => Turns')
    BY <1>1 DEF TurnsKept, Quiet, HelloRequested
  <2>1. \/ server = kind /\ kind = "hello" /\ reply = "flight" /\ waits = "flight"
        \/ server = kind /\ kind = "flight" /\ reply = "finished" /\ waits = "request"
        \/ server = kind /\ kind = "request" /\ reply = "data" /\ waits = "close"
        \/ server = "close" /\ reply = "data" /\ waits = "close"
    BY DEF Quiet
  <2>2. (\A k \in Unasked : ~ Arrived(k)) /\ (~ ssl.closing => Turns)
    BY <2>1 DEF IInv, TurnsKept
  <2>3. \A k \in Unasked : ~ Arrived(k)'
    BY <1>8, <2>1, <2>2 DEF Unasked
  <2>4. ASSUME Turns PROVE Turns'
    BY <1>1, <1>81, <1>8, <1>9, <2>1, <2>4 DEF Turns
  <2> QED BY <2>2, <2>3, <2>4
<1> QED BY <1>5, <1>6, <1>7, <1>10 DEF IInv

(* What is heard without an answer, by a server that has sent a            *)
(* HelloRequest.                                                           *)
LEMMA HeardStep ==
  ASSUME IInv, NEW kind, NEW waits \in {"request", "close"}, Heard(kind, waits),
         HelloRequested, UNCHANGED down
  PROVE  IInv'
<1>1. /\ Len(up) >= 2 /\ up' = SubSeq(up, 3, Len(up)) /\ server' = waits
      /\ UNCHANGED <<pc, ssl, freed, hellos, asked, result, extra, down>>
  BY DEF Heard, clientVars
<1>2. up' \in Seq(Kind)
  BY <1>1, Taken DEF IInv, TypeOK
<1>3. TypeOK'
  BY <1>1, <1>2 DEF IInv, TypeOK
<1>4. SessionReleased'
  BY <1>1 DEF IInv, SessionReleased
<1>5. InUse' /\ AskedWhenComplete'
  BY <1>1 DEF IInv, InUse, AskedWhenComplete
<1>6. TurnsKept'
  BY <1>1 DEF TurnsKept, Quiet, HelloRequested
<1> QED BY <1>3, <1>4, <1>5, <1>6 DEF IInv

LEMMA ServerExtraStep == IInv /\ ServerExtra => IInv'
<1> SUFFICES ASSUME IInv, ServerExtra PROVE IInv'
  OBVIOUS
<1>1. PICK kind \in Alerts \cup Data \cup {"hellorequest", "bad"} :
        down' = Append(down, kind) /\ extra' = Append(extra, kind)
  BY DEF ServerExtra
<1>2. UNCHANGED <<pc, ssl, freed, hellos, asked, result, up, server>>
  BY DEF ServerExtra, clientVars
<1>3. kind \in Kind /\ kind \notin {"flight", "finished", "resumed"}
  BY DEF Alerts, Data, Kind
<1>4. down \in Seq(Kind) /\ extra \in Seq(Kind)
  BY DEF IInv, TypeOK
<1>5. /\ down' \in Seq(Kind) /\ ToSet(down') = ToSet(down) \cup {kind}
      /\ extra' \in Seq(Kind) /\ ToSet(extra') = ToSet(extra) \cup {kind}
  BY <1>1, <1>3, <1>4, AppendElements
<1>6. TypeOK'
  BY <1>2, <1>5 DEF IInv, TypeOK
<1>7. SessionReleased'
  BY <1>2 DEF IInv, SessionReleased
<1>8. InUse' /\ AskedWhenComplete'
  BY <1>2 DEF IInv, InUse, AskedWhenComplete
<1>9. \A k : Arrived(k)' <=> Arrived(k) \/ k = kind
  BY <1>2, <1>5 DEF Arrived
<1>10. \A k : Saying(k)' <=> Saying(k)
  BY <1>2 DEF Saying
<1>12. down' # <<>>
  BY <1>1, <1>4
<1>11. TurnsKept'
  <2> SUFFICES ASSUME pc # "idle", server # "gone", Quiet, kind \notin Unasked
               PROVE  (\A k \in Unasked : ~ Arrived(k)') /\ (~ ssl.closing => Turns')
    BY <1>2, <1>3, <1>5 DEF TurnsKept, Quiet, HelloRequested, Unasked
  <2>1. (\A k \in Unasked : ~ Arrived(k)) /\ (~ ssl.closing => Turns)
    BY DEF IInv, TurnsKept
  <2>2. ASSUME Turns PROVE Turns'
    BY <1>2, <1>3, <1>9, <1>10, <1>12, <2>2 DEF Turns
  <2> QED BY <1>9, <2>1, <2>2
<1> QED BY <1>6, <1>7, <1>8, <1>11 DEF IInv

LEMMA ServerGoneStep == IInv /\ ServerGone => IInv'
<1> SUFFICES ASSUME IInv, ServerGone PROVE IInv'
  OBVIOUS
<1>1. server' = "gone" /\ UNCHANGED <<pc, ssl, freed, hellos, asked, result, up, down, extra>>
  BY DEF ServerGone, clientVars
<1> QED BY <1>1 DEF IInv, TypeOK, SessionReleased, InUse, AskedWhenComplete, TurnsKept
-----------------------------------------------------------------------------
(* The theorems                                                            *)

LEMMA Step == IInv /\ [Next]_vars => IInv'
<1> SUFFICES ASSUME IInv, [Next]_vars PROVE IInv'
  OBVIOUS
<1>1. CASE Call \/ CallFails
  BY <1>1, CallStep, CallFailsStep
<1>2. CASE Write \/ Written \/ Read
  BY <1>2, WriteStep, WrittenStep, ReadStep
<1>3. CASE ReadEnd \/ SocketFails
  BY <1>3, CloseErrStep DEF ReadEnd, SocketFails
<1>4. CASE Process
  BY <1>4, ProcessFlightStep, ProcessResumedStep, ProcessFinishedStep, ProcessDataStep,
     ProcessCloseStep, ProcessFatalStep, ProcessWarningStep, ProcessUnexpectedStep,
     ProcessHelloRequestStep DEF Process
<1>5. CASE ServerTurn
  <2>1. "flight" \in Kind /\ "finished" \in Kind /\ "data" \in Kind
    BY DEF Kind
  <2> QED BY <1>5, <2>1, TurnStep DEF ServerTurn
<1>6. CASE ServerHelloTurn
  <2>1. "flight" \in Kind /\ "resumed" \in Kind
    BY DEF Kind
  <2>2. CASE Turn("hello", "flight", "flight") \/ Turn("hello", "resumed", "finish")
    BY <1>6, <2>1, <2>2, TurnStep DEF ServerHelloTurn
  <2>3. CASE \/ server \in {"request", "close"} /\ Heard("norenegotiation", server)
             \/ Heard("finish", "request")
    <3>1. HelloRequested /\ (UNCHANGED down \/ ~ UNCHANGED down)
      BY <1>6 DEF ServerHelloTurn
    <3>2. CASE UNCHANGED down
      BY <2>3, <3>1, <3>2, HeardStep
    <3>3. CASE ~ UNCHANGED down
      BY <1>6, <2>2, <3>3 DEF ServerHelloTurn
    <3> QED BY <3>2, <3>3
  <2> QED BY <1>6, <2>2, <2>3 DEF ServerHelloTurn
<1>7. CASE ServerExtra \/ ServerGone
  BY <1>7, ServerExtraStep, ServerGoneStep
<1>8. CASE UNCHANGED vars
  BY <1>8 DEF vars, IInv, TypeOK, SessionReleased, InUse, AskedWhenComplete,
     TurnsKept, Turns, Arrived, Saying, Quiet, HelloRequested
<1> QED BY <1>1, <1>2, <1>3, <1>4, <1>5, <1>6, <1>7, <1>8 DEF Next, Client

(* The strengthened invariant of bano_sms_send and of the peer it talks to. *)
THEOREM Invariance == Spec => []IInv
BY InitIInv, Step, PTL DEF Spec

(* Every way out of httpsClientConnection releases the session and the      *)
(* socket, once, and no step goes on with a released session, however many  *)
(* records the server sends out of turn.                                    *)
THEOREM SessionReleasedAlways == Spec => []SessionReleased
<1>1. IInv => SessionReleased
  BY DEF IInv
<1> QED BY <1>1, Invariance, PTL

(* A call asks for one SMS, and for one more at most for each HelloRequest: *)
(* the two places that learn that the handshake is complete, in the read   *)
(* and in the write loop, exclude each other.                              *)
THEOREM RequestOnceAlways == Spec => []RequestOnce
<1>1. IInv => RequestOnce
  BY DEF IInv, AskedWhenComplete, RequestOnce
<1> QED BY <1>1, Invariance, PTL

(* recv is never waited in while a server that keeps to its turns, and     *)
(* asks for no other handshake, waits for the client, but for a warning.   *)
THEOREM NeverBothWaitAlways == Spec => [](~ HelloRequested => NeverBothWait)
<1>1. IInv => (~ HelloRequested => NeverBothWait)
  <2> SUFFICES ASSUME IInv, Blocked, Quiet, server # "close"
               PROVE  Len(up) >= 2
    BY DEF NeverBothWait, Quiet
  <2>1. pc = "read" /\ down = <<>> /\ server # "gone" /\ ssl.in = <<>> /\ ssl.out = <<>>
    BY DEF IInv, InUse, Blocked
  <2>2. Turns
    BY <2>1 DEF IInv, InUse, TurnsKept
  <2>3. \A k : ~ Arrived(k)
    BY <2>1, EmptyElements DEF Arrived
  <2>4. Saying(2)
    BY <2>1, <2>2, <2>3 DEF Turns
  <2>5. Len(ssl.out) = 0 /\ Len(up) + Len(ssl.out) = 2
    BY <2>1, <2>4, EmptyElements DEF Saying
  <2>6. Len(up) \in Nat
    BY LenProperties DEF IInv, TypeOK
  <2> QED BY <2>5, <2>6
<1> QED BY <1>1, Invariance, PTL
-----------------------------------------------------------------------------
(***************************************************************************)
(* How much a call may still have to do.  What the client says in a turn   *)
(* is written, half by half, and answered by a record at most, which is    *)
(* read and processed: 4 for each record that has arrived, 2 for each half *)
(* on its way to the server, 3 for each that is still to be written, 6 for *)
(* each stage of the handshake to come, and the steps from one label to    *)
(* the next.                                                               *)
(***************************************************************************)
Stages(s) ==
  (CASE s.hs = "hello"                    -> 3
     [] s.hs = "finish"                   -> 2
     [] s.hs = "done" /\ s.complete = FALSE -> 1
     [] OTHER                             -> 0)
  + (IF s.closing THEN 0 ELSE 1)

LabelsLeft ==
  CASE pc = "write"   -> 3
    [] pc = "read"    -> 2
    [] pc = "process" -> 1
    [] OTHER          -> 0

Effort ==
  IF pc = "idle" THEN 0
  ELSE 4 * (Len(ssl.in) + Len(down)) + 6 * Stages(ssl)
         + 3 * Len(ssl.out) + 2 * Len(up) + LabelsLeft

CallBounded ==
  [][/\ Call                     => Effort' = 33
     /\ Client \/ SocketFails    => Effort' < IF hellos' = hellos THEN Effort ELSE Effort + 23
     /\ ServerTurn \/ ServerHelloTurn \/ ServerGone => Effort' <= Effort
     /\ ServerExtra              => Effort' = Effort + 4]_vars

LEMMA StagesFacts ==
  ASSUME NEW s \in Session
  PROVE  Stages(s) \in Nat
BY DEF Session, Stages

(* The parts of the effort.                                                *)
LEMMA EffortFacts ==
  ASSUME IInv
  PROVE  \E i \in Nat, d \in Nat, g \in Nat, o \in Nat, u \in Nat, l \in Nat :
           /\ i = Len(ssl.in) /\ d = Len(down) /\ g = Stages(ssl)
           /\ o = Len(ssl.out) /\ u = Len(up) /\ l = LabelsLeft
<1>1. /\ ssl \in Session /\ ssl.in \in Seq(Kind) /\ ssl.out \in Seq(Kind)
      /\ down \in Seq(Kind) /\ up \in Seq(Kind)
  BY SessionFields DEF IInv, TypeOK
<1>2. /\ Len(ssl.in) \in Nat /\ Len(ssl.out) \in Nat /\ Len(down) \in Nat /\ Len(up) \in Nat
      /\ Stages(ssl) \in Nat
  BY <1>1, LenProperties, StagesFacts
<1>3. LabelsLeft \in Nat
  BY DEF LabelsLeft
<1> QED BY <1>2, <1>3

LEMMA SumFacts ==
  ASSUME NEW i \in Nat, NEW d \in Nat, NEW g \in Nat, NEW o \in Nat, NEW u \in Nat, NEW l \in Nat
  PROVE  /\ 4 * (i + d) + 6 * g + 3 * o + 2 * u + l \in Nat
         /\ l # 0 => 0 < 4 * (i + d) + 6 * g + 3 * o + 2 * u + l
OBVIOUS

LEMMA EffortNat ==
  ASSUME IInv
  PROVE  Effort \in Nat /\ (pc # "idle" => 0 < Effort)
<1>1. PICK i \in Nat, d \in Nat, g \in Nat, o \in Nat, u \in Nat, l \in Nat :
        /\ i = Len(ssl.in) /\ d = Len(down) /\ g = Stages(ssl)
        /\ o = Len(ssl.out) /\ u = Len(up) /\ l = LabelsLeft
  BY EffortFacts, Zenon
<1>2. /\ 4 * (i + d) + 6 * g + 3 * o + 2 * u + l \in Nat
      /\ l # 0 => 0 < 4 * (i + d) + 6 * g + 3 * o + 2 * u + l
  BY SumFacts
<1>3. CASE pc = "idle"
  <2>1. Effort = 0
    BY <1>3 DEF Effort
  <2> QED BY <1>3, <2>1
<1>4. CASE pc # "idle"
  <2>1. Effort = 4 * (i + d) + 6 * g + 3 * o + 2 * u + l
    BY <1>1, <1>4, Zenon DEF Effort
  <2>2. l # 0
    BY <1>1, <1>4 DEF IInv, TypeOK, LabelsLeft
  <2> QED BY <1>2, <2>1, <2>2, Zenon
<1> QED BY <1>3, <1>4

(* A step that ends the call.                                              *)
LEMMA EndedEffort ==
  ASSUME IInv, IInv', pc # "idle", pc' = "idle"
  PROVE  Effort' < Effort
<1>1. Effort' = 0
  BY DEF Effort
<1> QED BY <1>1, EffortNat, Zenon

LEMMA CloseErrEffort ==
  ASSUME IInv, IInv', pc # "idle", CloseErr
  PROVE  Effort' < Effort
BY EndedEffort DEF CloseErr, Release

(* The request is written once the handshake is told complete.             *)
LEMMA WriteRequestEffort ==
  ASSUME IInv, IInv', pc # "idle", NEW s \in Session, WriteRequest(s), UNCHANGED down,
         NEW i \in Nat, NEW d \in Nat, NEW g \in Nat, NEW o \in Nat, NEW u \in Nat, NEW l \in Nat,
         i = Len(ssl.in), d = Len(down), g = Stages(ssl),
         o = Len(ssl.out), u = Len(up), l = LabelsLeft,
         NEW i2 \in Nat, NEW g2 \in Nat, NEW o2 \in Nat, NEW u2 \in Nat,
         i2 = Len(s.in), g2 = Stages(s), o2 = Len(s.out), u2 = Len(up'),
         4 * (i2 + d) + 6 * g2 + 3 * (o2 + 2) + 2 * u2 + 3 < 4 * (i + d) + 6 * g + 3 * o + 2 * u + l
  PROVE  Effort' < Effort
<1>1. CASE s.closing
  <2>1. pc' = "idle"
    BY <1>1 DEF WriteRequest, CloseErr, Release
  <2> QED BY <2>1, EndedEffort
<1>2. CASE ~ s.closing
  <2>1. ssl' = [s EXCEPT !.out = @ \o Halves("request")] /\ pc' = "write"
    BY <1>2 DEF WriteRequest
  <2>2. Halves("request") \in Seq(Kind) /\ Len(Halves("request")) = 2 /\ s.out \in Seq(Kind)
    BY HalvesElements, SessionFields DEF Kind
  <2>3. PICK w \in Seq(Kind) :
          w = s.out \o Halves("request") /\ Len(w) = Len(s.out) + Len(Halves("request"))
    BY <2>2, Joined
  <2>4. /\ ssl'.in = s.in /\ ssl'.out = w /\ ssl'.hs = s.hs
        /\ ssl'.complete = s.complete /\ ssl'.closing = s.closing
    BY <2>1, <2>3 DEF Session
  <2>5. Stages(ssl') = Stages(s)
    BY <2>4, Zenon DEF Stages
  <2>6. LabelsLeft' = 3 /\ pc' # "idle"
    BY <2>1 DEF LabelsLeft
  <2>7. PICK o3, l3 : o3 = o2 + 2 /\ l3 = 3
    OBVIOUS
  <2>8. /\ i2 = Len(ssl'.in) /\ d = Len(down') /\ g2 = Stages(ssl')
        /\ o3 = Len(ssl'.out) /\ u2 = Len(up') /\ l3 = LabelsLeft'
    BY <2>2, <2>3, <2>4, <2>5, <2>6, <2>7, Zenon
  <2>9. /\ Effort = 4 * (i + d) + 6 * g + 3 * o + 2 * u + l
        /\ Effort' = 4 * (i2 + d) + 6 * g2 + 3 * o3 + 2 * u2 + l3
    BY <2>6, <2>8, Zenon DEF Effort
  <2> QED BY <2>7, <2>9, Zenon
<1> QED BY <1>1, <1>2

LEMMA RespondSum ==
  ASSUME NEW i \in Nat, i # 0, NEW d \in Nat, NEW g \in Nat, NEW u \in Nat, NEW g2 \in Nat, NEW k \in Nat,
         6 * g2 + 4 < 6 * g + k
  PROVE  4 * (0 + d) + 6 * g2 + 3 * 2 + 2 * u + 3 < 4 * (i + d) + 6 * g + 3 * 0 + 2 * u + 1 + k
OBVIOUS

(* What the client sends in response drops the records that came with it.  *)
LEMMA RespondEffort ==
  ASSUME IInv, IInv', pc = "process", NEW s \in Session, NEW kind \in Kind, Respond(s, kind),
         s.out = ssl.out, UNCHANGED down, NEW k \in Nat,
         6 * Stages(s) + 4 < 6 * Stages(ssl) + k
  PROVE  Effort' < Effort + k
<1>1. ssl' = [s EXCEPT !.in = <<>>, !.out = @ \o Halves(kind)] /\ pc' = "write" /\ up' = up
  BY DEF Respond
<1>2. ssl.out = <<>> /\ ssl.in \in Seq(Kind) /\ ssl.in # <<>>
  BY SessionFields DEF IInv, TypeOK, InUse
<1>3. Halves(kind) \in Seq(Kind) /\ Len(Halves(kind)) = 2
  BY HalvesElements
<1>4. ssl.out \o Halves(kind) = Halves(kind)
  <2>1. PICK h \in Seq(Kind) : h = Halves(kind)
    BY <1>3
  <2>2. <<>> \o h = h
    OBVIOUS
  <2> QED BY <1>2, <2>1, <2>2
<1>5. /\ ssl'.in = <<>> /\ ssl'.out = Halves(kind) /\ ssl'.hs = s.hs
      /\ ssl'.complete = s.complete /\ ssl'.closing = s.closing
  BY <1>1, <1>4 DEF Session
<1>6. PICK i \in Nat, d \in Nat, g \in Nat, o \in Nat, u \in Nat, l \in Nat :
        /\ i = Len(ssl.in) /\ d = Len(down) /\ g = Stages(ssl)
        /\ o = Len(ssl.out) /\ u = Len(up) /\ l = LabelsLeft
  BY EffortFacts, Zenon
<1>7. o = 0 /\ i # 0 /\ l = 1
  BY <1>2, <1>6, EmptyElements, EmptySeq DEF LabelsLeft
<1>8. PICK g2 \in Nat : g2 = Stages(s)
  BY StagesFacts
<1>9. g2 = Stages(ssl')
  BY <1>5, <1>8, Zenon DEF Stages
<1>10. PICK i2, o2, l2 : i2 = 0 /\ o2 = 2 /\ l2 = 3
  OBVIOUS
<1>11. /\ i2 = Len(ssl'.in) /\ d = Len(down') /\ o2 = Len(ssl'.out) /\ u = Len(up')
  BY <1>1, <1>3, <1>5, <1>6, <1>10, EmptyElements, Zenon
<1>12. l2 = LabelsLeft' /\ pc' # "idle" /\ pc # "idle"
  BY <1>1, <1>10 DEF LabelsLeft
<1>13. /\ Effort = 4 * (i + d) + 6 * g + 3 * o + 2 * u + l
       /\ Effort' = 4 * (i2 + d) + 6 * g2 + 3 * o2 + 2 * u + l2
  BY <1>6, <1>9, <1>11, <1>12, Zenon DEF Effort
<1>14. 6 * g2 + 4 < 6 * g + k
  BY <1>6, <1>8, Zenon
<1>15. 4 * (0 + d) + 6 * g2 + 3 * 2 + 2 * u + 3 < 4 * (i + d) + 6 * g + 3 * 0 + 2 * u + 1 + k
  BY <1>7, <1>14, RespondSum
<1> QED BY <1>7, <1>10, <1>13, <1>15, Zenon

LEMMA WriteSum ==
  ASSUME NEW i \in Nat, NEW d \in Nat, NEW g \in Nat, NEW o \in Nat, NEW u \in Nat, NEW n \in 1 .. o
  PROVE  /\ \A g2 \in Nat : g = g2 + 1 =>
              4 * (i + d) + 6 * g2 + 3 * ((o - n) + 2) + 2 * (u + n) + 3
                < 4 * (i + d) + 6 * g + 3 * o + 2 * u + 3
         /\ 4 * (i + d) + 6 * g + 3 * (o - n) + 2 * (u + n) + 3
              < 4 * (i + d) + 6 * g + 3 * o + 2 * u + 3
OBVIOUS

LEMMA WriteEffort ==
  ASSUME IInv, IInv', Write
  PROVE  Effort' < Effort
<1>1. PICK n \in 1 .. Len(ssl.out) :
        /\ up' = up \o SubSeq(ssl.out, 1, n)
        /\ \/ ssl' = SentData(ssl, n) /\ Release("success")
           \/ Untold(ssl) /\ WriteRequest(SentData(ssl, n))
           \/ ~ Untold(ssl) /\ ssl' = SentData(ssl, n) /\ WriteMore
  BY DEF Write, SentRc
<1>2. pc = "write" /\ UNCHANGED down
  BY DEF Write
<1>3. ssl \in Session /\ ssl.out \in Seq(Kind) /\ ssl.in \in Seq(Kind) /\ up \in Seq(Kind)
  BY SessionFields DEF IInv, TypeOK
<1>4. PICK i \in Nat, d \in Nat, g \in Nat, o \in Nat, u \in Nat, l \in Nat :
        /\ i = Len(ssl.in) /\ d = Len(down) /\ g = Stages(ssl)
        /\ o = Len(ssl.out) /\ u = Len(up) /\ l = LabelsLeft
  BY EffortFacts, Zenon
<1>5. l = 3
  BY <1>2, <1>4 DEF LabelsLeft
<1>6. n \in 1 .. o /\ n \in 0 .. Len(ssl.out)
  BY <1>4
<1>7. PICK p \in Seq(Kind), w \in Seq(Kind) :
        /\ p = SubSeq(ssl.out, 1, n) /\ Len(p) = n
        /\ w = SubSeq(ssl.out, n + 1, Len(ssl.out)) /\ Len(w) = Len(ssl.out) - n
  <2>1. /\ SubSeq(ssl.out, 1, n) \in Seq(Kind) /\ Len(SubSeq(ssl.out, 1, n)) = n
        /\ SubSeq(ssl.out, n + 1, Len(ssl.out)) \in Seq(Kind)
        /\ Len(SubSeq(ssl.out, n + 1, Len(ssl.out))) = Len(ssl.out) - n
    BY <1>3, <1>6, SplitElements
  <2> QED BY <2>1, Zenon
<1>8. PICK o2 \in Nat, u2 \in Nat : o2 = o - n /\ u2 = u + n
  BY <1>6
<1>9. u2 = Len(up')
  <2>1. PICK v \in Seq(Kind) : v = up \o p /\ Len(v) = Len(up) + Len(p)
    BY <1>3, Joined
  <2> QED BY <1>1, <1>4, <1>7, <1>8, <2>1, Zenon
<1>10. PICK s : s = SentData(ssl, n)
  OBVIOUS
<1>11. /\ s \in Session /\ s.in = ssl.in /\ s.out = w /\ s.hs = ssl.hs /\ s.closing = ssl.closing
       /\ s.complete = (ssl.complete \/ Untold(ssl))
  BY <1>3, <1>7, <1>10 DEF SentData, Session
<1>12. i = Len(s.in) /\ o2 = Len(s.out)
  BY <1>4, <1>7, <1>8, <1>11, Zenon
<1>13. /\ \A g2 \in Nat : g = g2 + 1 =>
            4 * (i + d) + 6 * g2 + 3 * ((o - n) + 2) + 2 * (u + n) + 3
              < 4 * (i + d) + 6 * g + 3 * o + 2 * u + 3
       /\ 4 * (i + d) + 6 * g + 3 * (o - n) + 2 * (u + n) + 3
            < 4 * (i + d) + 6 * g + 3 * o + 2 * u + 3
  BY <1>6, WriteSum
<1>14. CASE ssl' = s /\ Release("success")
  BY <1>2, <1>14, EndedEffort DEF Release
<1>15. CASE Untold(ssl) /\ WriteRequest(s)
  <2>1. PICK g2 \in Nat : g2 = Stages(s) /\ g = g2 + 1
    <3>1. ssl.hs = "done" /\ ssl.complete = FALSE /\ s.complete = TRUE
      BY <1>3, <1>11, <1>15, SessionFields DEF Untold
    <3>2. Stages(ssl) = 1 + (IF ssl.closing THEN 0 ELSE 1)
      BY <3>1 DEF Stages
    <3>3. Stages(s) = 0 + (IF ssl.closing THEN 0 ELSE 1)
      BY <1>11, <3>1 DEF Stages
    <3> QED BY <1>4, <3>2, <3>3
  <2>2. 4 * (i + d) + 6 * g2 + 3 * (o2 + 2) + 2 * u2 + 3
          < 4 * (i + d) + 6 * g + 3 * o + 2 * u + l
    BY <1>5, <1>8, <1>13, <2>1, Zenon
  <2>3. pc # "idle"
    BY <1>2
  <2> QED BY <1>2, <1>4, <1>9, <1>11, <1>12, <1>15, <2>1, <2>2, <2>3, WriteRequestEffort
<1>16. CASE ~ Untold(ssl) /\ ssl' = s /\ WriteMore
  <2>1. Stages(s) = Stages(ssl)
    <3>1. s.complete = ssl.complete
      BY <1>3, <1>11, <1>16, SessionFields
    <3> QED BY <1>11, <3>1, Zenon DEF Stages
  <2>2. LabelsLeft' = 3 /\ pc # "idle" /\ pc' # "idle"
    BY <1>2, <1>16 DEF WriteMore, LabelsLeft
  <2>3. Effort = 4 * (i + d) + 6 * g + 3 * o + 2 * u + 3
    BY <1>4, <1>5, <2>2, Zenon DEF Effort
  <2>4. Effort' = 4 * (i + d) + 6 * g + 3 * o2 + 2 * u2 + 3
    BY <1>2, <1>4, <1>9, <1>12, <1>16, <2>1, <2>2, Zenon DEF Effort
  <2> QED BY <1>8, <1>13, <2>3, <2>4, Zenon
<1> QED BY <1>1, <1>10, <1>14, <1>15, <1>16

LEMMA LabelSum ==
  ASSUME NEW i \in Nat, NEW d \in Nat, NEW n \in 0 .. d, NEW g \in Nat, NEW o \in Nat, NEW u \in Nat,
         NEW l2 \in Nat, NEW l \in Nat, l2 < l
  PROVE  4 * ((i + n) + (d - n)) + 6 * g + 3 * o + 2 * u + l2
           < 4 * (i + d) + 6 * g + 3 * o + 2 * u + l
OBVIOUS

LEMMA WrittenEffort ==
  ASSUME IInv, Written
  PROVE  Effort' < Effort
<1>1. PICK i \in Nat, d \in Nat, g \in Nat, o \in Nat, u \in Nat, l \in Nat :
        /\ i = Len(ssl.in) /\ d = Len(down) /\ g = Stages(ssl)
        /\ o = Len(ssl.out) /\ u = Len(up) /\ l = LabelsLeft
  BY EffortFacts, Zenon
<1>2. ssl' = ssl /\ UNCHANGED <<down, up>> /\ pc = "write" /\ pc' = "read"
  BY DEF Written
<1>3. LabelsLeft = 3 /\ LabelsLeft' = 2 /\ pc # "idle" /\ pc' # "idle"
  BY <1>2 DEF LabelsLeft
<1>4. Effort = 4 * (i + d) + 6 * g + 3 * o + 2 * u + 3
  BY <1>1, <1>3, Zenon DEF Effort
<1>5. Effort' = 4 * (i + d) + 6 * g + 3 * o + 2 * u + 2
  BY <1>1, <1>2, <1>3, Zenon DEF Effort
<1>6. 4 * (i + d) + 6 * g + 3 * o + 2 * u + 2 < 4 * (i + d) + 6 * g + 3 * o + 2 * u + 3
  OBVIOUS
<1> QED BY <1>4, <1>5, <1>6, Zenon

LEMMA ReadEffort ==
  ASSUME IInv, Read
  PROVE  Effort' < Effort
<1>1. PICK n \in 1 .. Len(down) :
        /\ ssl' = [ssl EXCEPT !.in = @ \o SubSeq(down, 1, n)]
        /\ down' = SubSeq(down, n + 1, Len(down))
  BY DEF Read
<1>2. ssl \in Session /\ ssl.in \in Seq(Kind) /\ down \in Seq(Kind)
  BY SessionFields DEF IInv, TypeOK
<1>3. PICK i \in Nat, d \in Nat, g \in Nat, o \in Nat, u \in Nat, l \in Nat :
        /\ i = Len(ssl.in) /\ d = Len(down) /\ g = Stages(ssl)
        /\ o = Len(ssl.out) /\ u = Len(up) /\ l = LabelsLeft
  BY EffortFacts, Zenon
<1>4. n \in 0 .. Len(down) /\ n \in 0 .. d
  BY <1>3
<1>5. PICK p, q :
        /\ p = SubSeq(down, 1, n) /\ p \in Seq(Kind) /\ Len(p) = n
        /\ q = SubSeq(down, n + 1, Len(down)) /\ Len(q) = Len(down) - n
  <2>1. /\ SubSeq(down, 1, n) \in Seq(Kind) /\ Len(SubSeq(down, 1, n)) = n
        /\ Len(SubSeq(down, n + 1, Len(down))) = Len(down) - n
    BY <1>2, <1>4, SplitElements
  <2> QED BY <2>1, Zenon
<1>6. PICK w \in Seq(Kind) : w = ssl.in \o p /\ Len(w) = Len(ssl.in) + Len(p)
  BY <1>2, <1>5, Joined
<1>7. /\ ssl'.in = w /\ ssl'.out = ssl.out /\ ssl'.hs = ssl.hs
      /\ ssl'.complete = ssl.complete /\ ssl'.closing = ssl.closing
  BY <1>1, <1>2, <1>5, <1>6 DEF Session
<1>8. Stages(ssl') = Stages(ssl)
  BY <1>7, Zenon DEF Stages
<1>9. pc = "read" /\ pc' = "process" /\ UNCHANGED up
  BY DEF Read
<1>10. LabelsLeft = 2 /\ LabelsLeft' = 1 /\ pc # "idle" /\ pc' # "idle"
  BY <1>9 DEF LabelsLeft
<1>11. Effort = 4 * (i + d) + 6 * g + 3 * o + 2 * u + 2
  BY <1>3, <1>10, Zenon DEF Effort
<1>12. Len(ssl'.in) = i + n /\ Len(down') = d - n
  BY <1>1, <1>3, <1>5, <1>6, <1>7, Zenon
<1>13. Effort' = 4 * ((i + n) + (d - n)) + 6 * g + 3 * o + 2 * u + 1
  BY <1>3, <1>7, <1>8, <1>9, <1>10, <1>12, Zenon DEF Effort
<1>14. PICK k \in Nat, k2 \in Nat : k = 2 /\ k2 = 1 /\ k2 < k
  OBVIOUS
<1>15. 4 * ((i + n) + (d - n)) + 6 * g + 3 * o + 2 * u + k2
         < 4 * (i + d) + 6 * g + 3 * o + 2 * u + k
  BY <1>4, <1>14, LabelSum
<1> QED BY <1>11, <1>13, <1>14, <1>15, Zenon

LEMMA RecordSum ==
  ASSUME NEW i \in Nat, NEW i2 \in Nat, i = i2 + 1, NEW d \in Nat, NEW g \in Nat, NEW g2 \in Nat,
         NEW o \in Nat, NEW u \in Nat
  PROVE  /\ \A l2 \in 1 .. 2 : g2 <= g =>
              4 * (i2 + d) + 6 * g2 + 3 * o + 2 * u + l2 < 4 * (i + d) + 6 * g + 3 * o + 2 * u + 1
         /\ g = g2 + 2 =>
              4 * (i2 + d) + 6 * g2 + 3 * (o + 2) + 2 * u + 3 < 4 * (i + d) + 6 * g + 3 * o + 2 * u + 1
OBVIOUS

(* A record that is processed and answered by nothing.                     *)
LEMMA RecordEffort ==
  ASSUME IInv, pc = "process", pc' \in {"read", "process"},
         ssl'.in = Tail(ssl.in), ssl'.out = ssl.out, UNCHANGED <<down, up>>,
         ssl' \in Session, Stages(ssl') <= Stages(ssl)
  PROVE  Effort' < Effort
<1>1. ssl.in \in Seq(Kind) /\ ssl.in # <<>>
  BY SessionFields DEF IInv, TypeOK, InUse
<1>2. PICK r \in Seq(Kind) : r = Tail(ssl.in) /\ Len(r) = Len(ssl.in) - 1
  BY <1>1, HeadTailProperties
<1>3. PICK i \in Nat, d \in Nat, g \in Nat, o \in Nat, u \in Nat, l \in Nat :
        /\ i = Len(ssl.in) /\ d = Len(down) /\ g = Stages(ssl)
        /\ o = Len(ssl.out) /\ u = Len(up) /\ l = LabelsLeft
  BY EffortFacts, Zenon
<1>4. PICK i2 \in Nat : i2 = Len(r)
  BY <1>2, LenProperties
<1>5. i = i2 + 1
  <2>1. i2 = i - 1
    BY <1>2, <1>3, <1>4, Zenon
  <2> QED BY <2>1
<1>6. PICK g2 \in Nat : g2 = Stages(ssl')
  BY StagesFacts
<1>7. g2 <= g
  BY <1>3, <1>6, Zenon
<1>8. LabelsLeft = 1 /\ LabelsLeft' \in 1 .. 2 /\ pc # "idle" /\ pc' # "idle"
  BY DEF LabelsLeft
<1>9. PICK l2 \in 1 .. 2 : l2 = LabelsLeft'
  BY <1>8
<1>10. Effort = 4 * (i + d) + 6 * g + 3 * o + 2 * u + 1
  BY <1>3, <1>8, Zenon DEF Effort
<1>11. Effort' = 4 * (i2 + d) + 6 * g2 + 3 * o + 2 * u + l2
  BY <1>2, <1>3, <1>4, <1>6, <1>8, <1>9, Zenon DEF Effort
<1>12. 4 * (i2 + d) + 6 * g2 + 3 * o + 2 * u + l2 < 4 * (i + d) + 6 * g + 3 * o + 2 * u + 1
  BY <1>5, <1>7, RecordSum
<1> QED BY <1>10, <1>11, <1>12, Zenon

LEMMA ProcessFinishedEffort ==
  ASSUME IInv, IInv', ProcessFinished
  PROVE  Effort' < Effort
<1>1. pc = "process" /\ ssl.hs = "finish" /\ UNCHANGED <<down, up>>
  BY DEF ProcessFinished, Processing
<1>2. /\ ssl \in Session /\ ssl.in \in Seq(Kind) /\ ssl.in # <<>> /\ ssl.out = <<>>
      /\ ssl.complete = FALSE /\ ssl.closing = FALSE
  BY <1>1, SessionFields DEF IInv, TypeOK, InUse
<1>3. PICK r \in Seq(Kind) : r = Tail(ssl.in) /\ Len(r) = Len(ssl.in) - 1
  BY <1>2, HeadTailProperties
<1>4. PICK s : s = [ssl EXCEPT !.hs = "done", !.in = r]
  OBVIOUS
<1>5. /\ s \in Session /\ s.in = r /\ s.out = ssl.out /\ s.hs = "done"
      /\ s.complete = FALSE /\ s.closing = FALSE
  BY <1>2, <1>4 DEF Session
<1>6. Stages(ssl) = 3
  BY <1>1, <1>2 DEF Stages
<1>7. \/ HandshakeComplete(s)
      \/ ssl' = s /\ pc' \in {"read", "process"}
  BY <1>1, <1>3, <1>4 DEF ProcessFinished
<1>8. CASE ssl' = s /\ pc' \in {"read", "process"}
  <2>1. Stages(s) = 2
    BY <1>5 DEF Stages
  <2>2. Stages(ssl') <= Stages(ssl)
    BY <1>6, <1>8, <2>1
  <2> QED BY <1>1, <1>3, <1>5, <1>8, <2>2, RecordEffort
<1>9. CASE HandshakeComplete(s)
  <2>1. PICK q \in Session :
          /\ q.in = r /\ q.out = ssl.out /\ q.hs = "done" /\ q.complete /\ ~ q.closing
          /\ WriteRequest(q)
    BY <1>5, <1>9 DEF HandshakeComplete, Session
  <2>2. Stages(q) = 1
    BY <2>1 DEF Stages
  <2>3. PICK i \in Nat, d \in Nat, g \in Nat, o \in Nat, u \in Nat, l \in Nat :
          /\ i = Len(ssl.in) /\ d = Len(down) /\ g = Stages(ssl)
          /\ o = Len(ssl.out) /\ u = Len(up) /\ l = LabelsLeft
    BY EffortFacts, Zenon
  <2>4. PICK i2 \in Nat, g2 \in Nat : i2 = Len(q.in) /\ g2 = Stages(q)
    BY <1>3, <2>1, <2>2, LenProperties
  <2>5. i = i2 + 1
    <3>1. i2 = i - 1
      BY <1>3, <2>1, <2>3, <2>4, Zenon
    <3> QED BY <3>1
  <2>6. g = g2 + 2
    BY <1>6, <2>2, <2>3, <2>4
  <2>7. l = 1 /\ pc # "idle"
    BY <1>1, <2>3 DEF LabelsLeft
  <2>8. 4 * (i2 + d) + 6 * g2 + 3 * (o + 2) + 2 * u + 3 < 4 * (i + d) + 6 * g + 3 * o + 2 * u + 1
    BY <2>5, <2>6, RecordSum
  <2>9. 4 * (i2 + d) + 6 * g2 + 3 * (o + 2) + 2 * u + 3 < 4 * (i + d) + 6 * g + 3 * o + 2 * u + l
    BY <2>7, <2>8, Zenon
  <2>10. o = Len(q.out) /\ u = Len(up') /\ UNCHANGED down
    BY <1>1, <2>1, <2>3
  <2> QED BY <2>1, <2>3, <2>4, <2>7, <2>9, <2>10, WriteRequestEffort
<1> QED BY <1>7, <1>8, <1>9

LEMMA ProcessHelloRequestEffort ==
  ASSUME IInv, IInv', ProcessHelloRequest
  PROVE  Effort' < Effort + 23
<1>1. /\ pc = "process" /\ ssl.hs = "done" /\ UNCHANGED down
  BY DEF ProcessHelloRequest, Processing
<1>2. /\ ssl \in Session /\ ssl.in \in Seq(Kind) /\ ssl.in # <<>>
      /\ ssl.complete \in BOOLEAN /\ ssl.closing = FALSE
  BY <1>1, SessionFields DEF IInv, TypeOK, InUse
<1>3. Stages(ssl) \in 1 .. 2
  BY <1>1, <1>2 DEF Stages
<1>4. CASE Respond([ssl EXCEPT !.complete = FALSE], "norenegotiation")
  <2>1. PICK s \in Session :
          /\ s.hs = "done" /\ s.out = ssl.out /\ s.complete = FALSE /\ s.closing = FALSE
          /\ Respond(s, "norenegotiation")
    BY <1>1, <1>2, <1>4 DEF Session
  <2>2. Stages(s) = 2
    BY <2>1 DEF Stages
  <2>3. 6 * Stages(s) + 4 < 6 * Stages(ssl) + 23
    BY <1>3, <2>2
  <2> QED BY <1>1, <2>1, <2>3, RespondEffort DEF Kind
<1>5. CASE Respond([ssl EXCEPT !.hs = "hello", !.complete = FALSE, !.credit = 0], "hello")
  <2>1. PICK s \in Session :
          /\ s.hs = "hello" /\ s.out = ssl.out /\ s.complete = FALSE /\ s.closing = FALSE
          /\ Respond(s, "hello")
    BY <1>1, <1>2, <1>5 DEF Session
  <2>2. Stages(s) = 4
    BY <2>1 DEF Stages
  <2>3. 6 * Stages(s) + 4 < 6 * Stages(ssl) + 23
    BY <1>3, <2>2
  <2> QED BY <1>1, <2>1, <2>3, RespondEffort DEF Kind
<1>6. CASE /\ ssl' = [ssl EXCEPT !.credit = 0, !.in = Tail(@)]
           /\ pc' = IF ssl'.in = <<>> THEN "read" ELSE "process"
           /\ UNCHANGED <<up, freed, asked, result>>
  <2>1. /\ ssl' \in Session /\ ssl'.in = Tail(ssl.in) /\ ssl'.out = ssl.out
        /\ ssl'.hs = ssl.hs /\ ssl'.complete = ssl.complete /\ ssl'.closing = ssl.closing
    BY <1>2, <1>6, HeadElement DEF Session
  <2>2. Stages(ssl') = Stages(ssl)
    BY <2>1, Zenon DEF Stages
  <2>3. Stages(ssl') <= Stages(ssl)
    BY <1>3, <2>2
  <2>4. Effort' < Effort
    BY <1>1, <1>6, <2>1, <2>3, RecordEffort
  <2>5. Effort \in Nat /\ Effort' \in Nat
    <3>1. (IInv => Effort \in Nat)'
      BY EffortNat, PTL
    <3> QED BY <3>1, EffortNat
  <2> QED BY ONLY <2>4, <2>5
<1> QED BY <1>4, <1>5, <1>6 DEF ProcessHelloRequest

LEMMA ProcessEffort ==
  ASSUME IInv, IInv', Process
  PROVE  Effort' < IF hellos' = hellos THEN Effort ELSE Effort + 23
<1>1. CASE ProcessHelloRequest
  <2>1. hellos' # hellos
    BY <1>1 DEF ProcessHelloRequest, IInv, TypeOK
  <2> QED BY <1>1, <2>1, ProcessHelloRequestEffort
<1>2. CASE /\ \/ ProcessFlight \/ ProcessResumed \/ ProcessFinished \/ ProcessData
              \/ ProcessClose \/ ProcessFatal \/ ProcessWarning \/ ProcessUnexpected
           /\ UNCHANGED hellos
  <2>0. SUFFICES Effort' < Effort
    BY <1>2
  <2>1. pc = "process" /\ UNCHANGED down /\ pc # "idle"
    BY <1>2 DEF ProcessFlight, ProcessResumed, ProcessFinished, ProcessData, ProcessClose,
       ProcessFatal, ProcessWarning, ProcessUnexpected, Processing
  <2>2. /\ ssl \in Session /\ ssl.in \in Seq(Kind) /\ ssl.in # <<>>
        /\ ssl.complete \in BOOLEAN /\ ssl.closing = FALSE
        /\ ssl.complete => ssl.hs = "done"
    BY <2>1, SessionFields DEF IInv, TypeOK, InUse
  <2>3. Effort \in Nat
    BY EffortNat
  <2>4. ASSUME NEW s \in Session, NEW kind \in Kind, Respond(s, kind), s.out = ssl.out,
               NEW g \in Nat, NEW g2 \in Nat, g = Stages(ssl), g2 = Stages(s), g2 < g
        PROVE  Effort' < Effort
    <3>1. 6 * g2 + 4 < 6 * g + 0
      BY <2>4
    <3>2. 6 * Stages(s) + 4 < 6 * Stages(ssl) + 0
      BY <2>4, <3>1, Zenon
    <3>3. Effort' < Effort + 0
      BY <2>1, <2>4, <3>2, RespondEffort, 0 \in Nat
    <3> QED BY <2>3, <3>3
  <2>5. CASE ProcessFlight
    <3>1. PICK s \in Session :
            /\ s.hs = "finish" /\ s.out = ssl.out /\ s.complete = ssl.complete
            /\ s.closing = FALSE /\ Respond(s, "flight")
      BY <2>2, <2>5 DEF ProcessFlight, Session
    <3>2. Stages(ssl) = 4 /\ Stages(s) = 3
      BY <2>2, <2>5, <3>1 DEF ProcessFlight, Stages
    <3> QED BY <2>4, <3>1, <3>2 DEF Kind
  <2>6. CASE ProcessResumed
    <3>1. PICK s \in Session :
            /\ s.hs = "done" /\ s.out = ssl.out /\ s.complete = ssl.complete
            /\ s.closing = FALSE /\ Respond(s, "finish")
      BY <2>2, <2>6 DEF ProcessResumed, Session
    <3>2. ssl.complete = FALSE
      BY <2>2, <2>6 DEF ProcessResumed
    <3>3. Stages(ssl) = 4 /\ Stages(s) = 2
      BY <2>2, <2>6, <3>1, <3>2 DEF ProcessResumed, Stages
    <3> QED BY <2>4, <3>1, <3>3 DEF Kind
  <2>7. CASE ProcessFinished
    BY <2>7, ProcessFinishedEffort
  <2>8. CASE ProcessData \/ ProcessClose
    BY <2>1, <2>8, EndedEffort DEF ProcessData, ProcessClose, CloseConn, Release
  <2>9. CASE ProcessFatal
    BY <2>1, <2>9, CloseErrEffort DEF ProcessFatal
  <2>10. CASE ProcessWarning
    <3>1. ssl' = [ssl EXCEPT !.in = Tail(@)] /\ pc' \in {"read", "process"} /\ UNCHANGED up
      BY <2>10 DEF ProcessWarning, WarningProcessed
    <3>2. /\ ssl' \in Session /\ ssl'.in = Tail(ssl.in) /\ ssl'.out = ssl.out
          /\ ssl'.hs = ssl.hs /\ ssl'.complete = ssl.complete /\ ssl'.closing = ssl.closing
      BY <2>2, <3>1, HeadElement DEF Session
    <3>3. Stages(ssl') = Stages(ssl) /\ Stages(ssl) \in Nat
      BY <2>2, <3>2, StagesFacts, Zenon DEF Stages
    <3>4. Stages(ssl') <= Stages(ssl)
      BY <3>3
    <3> QED BY <2>1, <3>1, <3>2, <3>4, RecordEffort
  <2>11. CASE ProcessUnexpected
    <3>1. CASE Respond([ssl EXCEPT !.closing = TRUE], "alert")
      <4>1. PICK s \in Session :
              /\ s.hs = ssl.hs /\ s.out = ssl.out /\ s.complete = ssl.complete
              /\ s.closing = TRUE /\ Respond(s, "alert")
        BY <2>2, <3>1 DEF Session
      <4>2. PICK k \in Nat : Stages(s) = k + 0 /\ Stages(ssl) = k + 1
        BY <2>2, <4>1 DEF Stages
      <4>3. Stages(s) \in Nat /\ Stages(ssl) \in Nat /\ Stages(s) < Stages(ssl)
        BY <4>2
      <4> QED BY <2>4, <4>1, <4>3 DEF Kind
    <3>2. CASE CloseErr
      BY <2>1, <3>2, CloseErrEffort
    <3> QED BY <2>11, <3>1, <3>2 DEF ProcessUnexpected
  <2> QED BY <1>2, <2>5, <2>6, <2>7, <2>8, <2>9, <2>10, <2>11
<1> QED BY <1>1, <1>2 DEF Process

LEMMA ClientEffort ==
  ASSUME IInv, IInv', Client \/ SocketFails
  PROVE  Effort' < IF hellos' = hellos THEN Effort ELSE Effort + 23
<1>1. CASE Write
  BY <1>1, WriteEffort DEF Write
<1>2. CASE Written
  BY <1>2, WrittenEffort DEF Written
<1>3. CASE Read
  BY <1>3, ReadEffort DEF Read
<1>4. CASE ReadEnd \/ SocketFails
  BY <1>4, CloseErrEffort DEF ReadEnd, SocketFails
<1>5. CASE Process
  BY <1>5, ProcessEffort
<1> QED BY <1>1, <1>2, <1>3, <1>4, <1>5 DEF Client

LEMMA ServerSum ==
  ASSUME NEW i \in Nat, NEW d \in Nat, NEW g \in Nat, NEW o \in Nat, NEW u \in Nat, NEW l \in Nat,
         NEW u2 \in Nat, u = u2 + 2
  PROVE  /\ 4 * (i + (d + 1)) + 6 * g + 3 * o + 2 * u2 + l <= 4 * (i + d) + 6 * g + 3 * o + 2 * u + l
         /\ 4 * (i + d) + 6 * g + 3 * o + 2 * u2 + l <= 4 * (i + d) + 6 * g + 3 * o + 2 * u + l
OBVIOUS

(* What the server hears, and answers or not.                              *)
LEMMA HeardEffort ==
  ASSUME IInv, NEW kind, NEW waits, Heard(kind, waits),
         \/ UNCHANGED down
         \/ \E reply \in Kind : down' = Append(down, reply)
  PROVE  Effort' <= Effort
<1>1. PICK i \in Nat, d \in Nat, g \in Nat, o \in Nat, u \in Nat, l \in Nat :
        /\ i = Len(ssl.in) /\ d = Len(down) /\ g = Stages(ssl)
        /\ o = Len(ssl.out) /\ u = Len(up) /\ l = LabelsLeft
  BY EffortFacts, Zenon
<1>2. UNCHANGED <<pc, ssl>>
  BY DEF Heard, clientVars
<1>3. LabelsLeft' = LabelsLeft
  BY <1>2 DEF LabelsLeft
<1>4. PICK v \in Seq(Kind) : v = up' /\ Len(v) = Len(up) - 2
  <2>1. up \in Seq(Kind) /\ Len(up) >= 2 /\ up' = SubSeq(up, 3, Len(up))
    BY DEF Heard, IInv, TypeOK
  <2>2. PICK v \in Seq(Kind) : v = SubSeq(up, 3, Len(up)) /\ Len(v) = Len(up) - 2
    BY <2>1, Taken
  <2> QED BY <2>1, <2>2
<1>5. PICK u2 \in Nat : u2 = Len(up')
  BY <1>4, LenProperties
<1>6. u = u2 + 2
  <2>1. u2 = u - 2
    BY <1>1, <1>4, <1>5, Zenon
  <2> QED BY <2>1
<1>7. CASE pc = "idle"
  <2>1. Effort = 0 /\ Effort' = 0
    BY <1>2, <1>7 DEF Effort
  <2> QED BY <2>1
<1>8. CASE pc # "idle" /\ UNCHANGED down
  <2>1. Effort = 4 * (i + d) + 6 * g + 3 * o + 2 * u + l
    BY <1>1, <1>8, Zenon DEF Effort
  <2>2. Effort' = 4 * (i + d) + 6 * g + 3 * o + 2 * u2 + l
    BY <1>1, <1>2, <1>3, <1>5, <1>8, Zenon DEF Effort
  <2>3. 4 * (i + d) + 6 * g + 3 * o + 2 * u2 + l <= 4 * (i + d) + 6 * g + 3 * o + 2 * u + l
    BY <1>6, ServerSum
  <2> QED BY <2>1, <2>2, <2>3, Zenon
<1>9. CASE pc # "idle" /\ \E reply \in Kind : down' = Append(down, reply)
  <2>1. PICK reply \in Kind : down' = Append(down, reply)
    BY <1>9
  <2>2. Len(down') = Len(down) + 1
    BY <2>1, AppendProperties DEF IInv, TypeOK
  <2>3. Effort = 4 * (i + d) + 6 * g + 3 * o + 2 * u + l
    BY <1>1, <1>9, Zenon DEF Effort
  <2>4. Effort' = 4 * (i + (d + 1)) + 6 * g + 3 * o + 2 * u2 + l
    BY <1>1, <1>2, <1>3, <1>5, <1>9, <2>2, Zenon DEF Effort
  <2>5. 4 * (i + (d + 1)) + 6 * g + 3 * o + 2 * u2 + l <= 4 * (i + d) + 6 * g + 3 * o + 2 * u + l
    BY <1>6, ServerSum
  <2> QED BY <2>3, <2>4, <2>5, Zenon
<1> QED BY <1>7, <1>8, <1>9

LEMMA TurnEffort ==
  ASSUME IInv, ServerTurn \/ ServerHelloTurn
  PROVE  Effort' <= Effort
<1>1. PICK kind, waits :
        /\ Heard(kind, waits)
        /\ \/ UNCHANGED down
           \/ \E reply \in Kind : down' = Append(down, reply)
  BY Zenon DEF ServerTurn, ServerHelloTurn, Turn, Kind
<1> QED BY <1>1, HeardEffort

LEMMA ExtraEffort ==
  ASSUME IInv, ServerExtra
  PROVE  Effort' = Effort + 4
<1>1. PICK kind \in Kind : down' = Append(down, kind)
  BY DEF ServerExtra, Alerts, Data, Kind
<1>2. UNCHANGED <<pc, ssl, up>> /\ pc # "idle"
  BY DEF ServerExtra, clientVars
<1>3. LabelsLeft' = LabelsLeft
  BY <1>2 DEF LabelsLeft
<1>4. PICK i \in Nat, d \in Nat, g \in Nat, o \in Nat, u \in Nat, l \in Nat :
        /\ i = Len(ssl.in) /\ d = Len(down) /\ g = Stages(ssl)
        /\ o = Len(ssl.out) /\ u = Len(up) /\ l = LabelsLeft
  BY EffortFacts, Zenon
<1>5. Len(down') = Len(down) + 1
  BY <1>1, AppendProperties DEF IInv, TypeOK
<1>6. Effort = 4 * (i + d) + 6 * g + 3 * o + 2 * u + l
  BY <1>2, <1>4, Zenon DEF Effort
<1>7. Effort' = 4 * (i + (d + 1)) + 6 * g + 3 * o + 2 * u + l
  BY <1>2, <1>3, <1>4, <1>5, Zenon DEF Effort
<1>8. 4 * (i + (d + 1)) + 6 * g + 3 * o + 2 * u + l = (4 * (i + d) + 6 * g + 3 * o + 2 * u + l) + 4
  OBVIOUS
<1> QED BY <1>6, <1>7, <1>8, Zenon

LEMMA GoneEffort ==
  ASSUME IInv, ServerGone
  PROVE  Effort' <= Effort
<1>1. Effort' = Effort
  BY DEF ServerGone, clientVars, Effort, LabelsLeft
<1> QED BY <1>1, EffortNat

LEMMA CallEffort == Call => Effort' = 33
<1> SUFFICES ASSUME Call PROVE Effort' = 33
  OBVIOUS
<1>1. /\ ssl' = NewClientSession /\ up' = <<>> /\ down' = <<>> /\ pc' = "write"
  BY DEF Call, NewConnection
<1>2. Len(Halves("hello")) = 2
  BY HalvesElements DEF Kind
<1>3. /\ Len(ssl'.in) = 0 /\ Len(ssl'.out) = 2 /\ Len(down') = 0 /\ Len(up') = 0
      /\ ssl'.hs = "hello" /\ ssl'.closing = FALSE
  BY <1>1, <1>2, EmptyElements DEF NewClientSession, NoSession
<1>4. Stages(ssl') = 4 /\ LabelsLeft' = 3 /\ pc' # "idle"
  BY <1>1, <1>3 DEF Stages, LabelsLeft
<1>5. Effort' = 4 * (0 + 0) + 6 * 4 + 3 * 2 + 2 * 0 + 3
  BY <1>3, <1>4, Zenon DEF Effort
<1> QED BY <1>5

(***************************************************************************)
(* The part of Returns that does not depend on fairness: wherever the      *)
(* socket cuts it, bano_sms_send takes 33 steps at the most, 4 more for    *)
(* each record that the server sends out of turn, and 23 more for each     *)
(* HelloRequest among them that is accepted, which costs a handshake or a  *)
(* refusal, and a request.  Only a server that never stops sending such    *)
(* records keeps a call busy for ever: another call that does not return   *)
(* waits in recv.                                                          *)
(***************************************************************************)
THEOREM CallBoundedAlways == Spec => CallBounded
<1>1. ASSUME IInv, IInv', Next
      PROVE  /\ Call                  => Effort' = 33
             /\ Client \/ SocketFails =>
                  Effort' < IF hellos' = hellos THEN Effort ELSE Effort + 23
             /\ ServerTurn \/ ServerHelloTurn \/ ServerGone => Effort' <= Effort
             /\ ServerExtra           => Effort' = Effort + 4
  BY <1>1, CallEffort, ClientEffort, TurnEffort, GoneEffort, ExtraEffort
<1> QED BY <1>1, Invariance, PTL DEF Spec, CallBounded
=============================================================================
