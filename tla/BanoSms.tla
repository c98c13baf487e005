------------------------------- MODULE BanoSms -------------------------------
(***************************************************************************)
(* The sending of an SMS (bano_sms_send of bano_sms.c): a request over     *)
(* HTTPS, from the event loop, over a blocking socket, with the session of *)
(* the TLS library (matrixsslApi.c).                                       *)
(*                                                                         *)
(* Records are their kinds.  Those of the client travel in two halves, so  *)
(* that send may cut them.  A record of the server that has arrived in     *)
(* part only counts as not arrived, but where its beginning matters: after *)
(* a Finished or a HelloRequest.  "flight" is all that a side says in its  *)
(* turn of a handshake, up to its Finished.  The session id is new at each *)
(* call: only a handshake that the server asks for anew, by a              *)
(* HelloRequest, may be a resumption.                                      *)
(***************************************************************************)
EXTENDS Naturals, Sequences, SequencesExt

CONSTANT
  MaxExtra   \* the records a server sends out of turn, in one connection

VARIABLES
  pc,      \* "idle", or the label of httpsClientConnection that is next
  ssl,     \* the session: its buffers and flags
  up,      \* halves of records on their way to the server
  down,    \* records on their way to the client
  server,  \* what the server waits for; "gone" when it has closed
  extra,   \* history: the records it sent out of turn
  freed,   \* history: the calls of matrixSslDeleteSession, and of close
  hellos,  \* history: the HelloRequests processed in this connection
  asked,   \* history: the requests written in this connection
  result   \* of the last call that returned

vars == <<pc, ssl, up, down, server, extra, freed, hellos, asked, result>>

Halves(kind) == <<kind, kind>>

(* hs: the state of the handshake; complete: BFLAG_HS_COMPLETE;            *)
(* closing: BFLAG_CLOSE_AFTER_SENT; credit: rehandshakeCount; in and out:  *)
(* inbuf and outbuf.                                                       *)
NoSession == [hs |-> "none", complete |-> FALSE, closing |-> FALSE, credit |-> 0,
              in |-> <<>>, out |-> <<>>]
NewClientSession ==
  [NoSession EXCEPT !.hs = "hello", !.credit = 1, !.out = Halves("hello")]

NothingFreed == [session |-> 0, fd |-> 0]

Init ==
  /\ pc = "idle"
  /\ ssl = NoSession
  /\ up = <<>> /\ down = <<>>
  /\ server = "hello"
  /\ extra = <<>>
  /\ freed = NothingFreed
  /\ hellos = 0 /\ asked = 0
  /\ result = "none"
-----------------------------------------------------------------------------
(* The client                                                              *)

(* bano_sms_send, up to a session whose hello is ready to be sent.         *)
NewConnection(s) ==
  /\ pc = "idle"
  /\ ssl' = s
  /\ up' = <<>> /\ down' = <<>> /\ server' = "hello" /\ extra' = <<>>
  /\ freed' = [session |-> 0, fd |-> 0]
  /\ hellos' = 0 /\ asked' = 0

Call ==
  /\ NewConnection(NewClientSession)
  /\ pc' = "write"
  /\ UNCHANGED result

(* The keys, the connection or the session fail; what was allocated before *)
(* is not freed, nor the socket closed.                                    *)
CallFails ==
  /\ NewConnection(NoSession)
  /\ result' = "error"
  /\ UNCHANGED pc

(* The session and the socket are released, and the call returns r.        *)
Release(r) ==
  /\ freed' = [session |-> freed.session + 1, fd |-> freed.fd + 1]
  /\ pc' = "idle"
  /\ result' = r

ReleaseSession(r) ==
  /\ freed' = [freed EXCEPT !.session = @ + 1]
  /\ pc' = "idle"
  /\ result' = r

CloseErrKeepsFd == ReleaseSession("error")

(* L_CLOSE_ERR.                                                            *)
CloseErr == Release("error")

(* closeConn: an attempt to send what is to be sent, and behind it a       *)
(* closure alert, but for a session that has sent its last.                *)
CloseConn(s, r) ==
  /\ LET out == IF s.closing THEN s.out ELSE s.out \o Halves("close") IN
     \E n \in 0 .. Len(out) : up' = up \o SubSeq(out, 1, n)
  /\ ssl' = s
  /\ Release(r)
  /\ UNCHANGED asked

(* httpWriteRequest on session s; matrixSslEncodeWritebuf refuses one that *)
(* is to be closed.                                                        *)
WriteRequest(s) ==
  IF s.closing
    THEN /\ CloseErr
         /\ ssl' = s
         /\ UNCHANGED asked
    ELSE /\ ssl' = [s EXCEPT !.out = @ \o Halves("request")]
         /\ asked' = asked + 1
         /\ pc' = "write"
         /\ UNCHANGED <<freed, result>>

(* matrixSslSentData, of n halves.                                         *)
Untold(s) == s.hs = "done" /\ ~ s.complete
SentData(s, n) ==
  [s EXCEPT !.out = SubSeq(@, n + 1, Len(@)), !.complete = @ \/ Untold(s)]
SentRc(s, n) ==
  CASE Untold(s) -> "HANDSHAKE_COMPLETE"
    [] ~ Untold(s) /\ n = Len(s.out) /\ s.closing -> "REQUEST_CLOSE"
    [] OTHER -> "SUCCESS"

WriteMoreOnce == pc' = "read"

(* The loop of WRITE_MORE goes on until nothing is left.                   *)
WriteMore == pc' = "write"

(* WRITE_MORE: send takes some of the bytes.                               *)
Write ==
  /\ pc = "write"
  /\ \E n \in 1 .. Len(ssl.out) :
       /\ up' = up \o SubSeq(ssl.out, 1, n)
       /\ \/ /\ SentRc(ssl, n) = "REQUEST_CLOSE"
             /\ ssl' = SentData(ssl, n)
             /\ Release("success")
             /\ UNCHANGED asked
          \/ /\ SentRc(ssl, n) = "HANDSHAKE_COMPLETE"
             /\ WriteRequest(SentData(ssl, n))
          \/ /\ SentRc(ssl, n) = "SUCCESS"
             /\ ssl' = SentData(ssl, n)
             /\ WriteMore
             /\ UNCHANGED <<freed, asked, result>>
  /\ UNCHANGED <<down, server, extra, hellos>>

Written ==
  /\ pc = "write" /\ ssl.out = <<>>
  /\ pc' = "read"
  /\ UNCHANGED <<ssl, up, down, server, extra, freed, hellos, asked, result>>

(* READ_MORE: some of what has arrived.                                    *)
Read ==
  /\ pc = "read"
  /\ \E n \in 1 .. Len(down) :
       /\ ssl' = [ssl EXCEPT !.in = @ \o SubSeq(down, 1, n)]
       /\ down' = SubSeq(down, n + 1, Len(down))
  /\ pc' = "process"
  /\ UNCHANGED <<up, server, extra, freed, hellos, asked, result>>

ReadEnd ==
  /\ pc = "read" /\ down = <<>> /\ server = "gone"
  /\ CloseErr
  /\ UNCHANGED <<ssl, up, down, server, extra, hellos, asked>>

(* send or recv fails.                                                     *)
SocketFails ==
  /\ pc \in {"write", "read"}
  /\ pc = "write" => ssl.out # <<>>
  /\ CloseErr
  /\ UNCHANGED <<ssl, up, down, server, extra, hellos, asked>>
-----------------------------------------------------------------------------
(* PROCESS_MORE: matrixSslReceivedData on the first record, and what is    *)
(* done of its result                                                      *)

Alerts == {"close", "warning", "fatal"}
Data == {"data", "garbage"}   \* garbage: a line that ends without a \r

Processing(kinds) ==
  /\ pc = "process"
  /\ Head(ssl.in) \in kinds
  /\ UNCHANGED <<down, server, extra>>

(* SSL_SEND_RESPONSE: the rest of inbuf is dropped.                        *)
Respond(s, kind) ==
  /\ ssl' = [s EXCEPT !.in = <<>>, !.out = @ \o Halves(kind)]
  /\ pc' = "write"
  /\ UNCHANGED <<up, freed, asked, result>>

ProcessFlight ==
  /\ Processing({"flight"})
  /\ ssl.hs = "hello"
  /\ Respond([ssl EXCEPT !.hs = "finish"], "flight")

(* The session is resumed: it is for the client to finish.                 *)
ProcessResumed ==
  /\ Processing({"resumed"})
  /\ ssl.hs = "hello"
  /\ Respond([ssl EXCEPT !.hs = "done"], "finish")

HandshakeUntold(s) == WriteRequest(s)

(* MATRIXSSL_HANDSHAKE_COMPLETE.                                           *)
HandshakeComplete(s) == WriteRequest([s EXCEPT !.complete = TRUE])

(* More records in inbuf are processed first, and hide the result; so does *)
(* the beginning of one.                                                   *)
ProcessFinished ==
  /\ Processing({"finished"})
  /\ ssl.hs = "finish"
  /\ LET s == [ssl EXCEPT !.hs = "done", !.in = Tail(@)] IN
     \/ /\ s.in = <<>>
        /\ HandshakeComplete(s)
     \/ /\ s.in # <<>>
        /\ ssl' = s
        /\ UNCHANGED <<pc, freed, asked, result>>
     \/ /\ s.in = <<>> /\ down # <<>>
        /\ ssl' = s
        /\ pc' = "read"
        /\ UNCHANGED <<freed, asked, result>>
  /\ UNCHANGED up

(* A HelloRequest is ignored for the data that follow it, in whole or in   *)
(* part; otherwise a session that has a credit says its hello, and another *)
(* refuses, by a warning.  Either way its completion is to be told anew.   *)
DataFollow ==
  LET next == Tail(ssl.in) IN
    IF next # <<>> THEN Head(next) \in Data ELSE FALSE
PartOfDataFollows ==
  Tail(ssl.in) = <<>> /\ IF down # <<>> THEN Head(down) \in Data ELSE FALSE

ProcessHelloRequest ==
  /\ Processing({"hellorequest"})
  /\ ssl.hs = "done"
  /\ hellos' = hellos + 1
  /\ \/ /\ ssl.credit = 0
        /\ Respond([ssl EXCEPT !.complete = FALSE], "norenegotiation")
     \/ /\ ssl.credit = 1 /\ ~ DataFollow
        /\ Respond([ssl EXCEPT !.hs = "hello", !.complete = FALSE, !.credit = 0], "hello")
     \/ /\ ssl.credit = 1 /\ (DataFollow \/ PartOfDataFollows)
        /\ ssl' = [ssl EXCEPT !.credit = 0, !.in = Tail(@)]
        /\ pc' = IF ssl'.in = <<>> THEN "read" ELSE "process"
        /\ UNCHANGED <<up, freed, asked, result>>

(* MATRIXSSL_APP_DATA.  bytes_received has no sign, so that any data is    *)
(* "all that was requested", unless httpBasicParse refuses it.  Data are   *)
(* let through until the server answers a hello that it has asked for.     *)
DataExpected == ssl.hs = "done" \/ (ssl.hs = "hello" /\ ssl.credit = 0)

ProcessData ==
  /\ Processing(Data)
  /\ DataExpected
  /\ CloseConn([ssl EXCEPT !.complete = @ \/ ssl.hs = "done", !.in = Tail(@)],
               IF Head(ssl.in) = "garbage" THEN "error" ELSE "success")

ProcessClose ==
  /\ Processing({"close"})
  /\ CloseConn(ssl, "success")

ProcessFatal ==
  /\ Processing({"fatal"})
  /\ CloseErr
  /\ UNCHANGED <<ssl, up, asked>>

WarningKept == ssl' = ssl

(* matrixSslProcessedData.                                                 *)
WarningProcessed == ssl' = [ssl EXCEPT !.in = Tail(@)]

ProcessWarning ==
  /\ Processing({"warning"})
  /\ WarningProcessed
  /\ pc' = IF ssl'.in = <<>> THEN "read" ELSE "process"
  /\ UNCHANGED <<up, freed, asked, result>>

Expected(kind) ==
  \/ kind \in Alerts
  \/ ssl.hs = "hello" /\ kind \in {"flight", "resumed"}
  \/ ssl.hs = "finish" /\ kind = "finished"
  \/ ssl.hs = "done" /\ kind = "hellorequest"
  \/ DataExpected /\ kind \in Data

(* Most errors are answered with an alert, the last the session sends.     *)
ProcessUnexpected ==
  /\ pc = "process" /\ ~ Expected(Head(ssl.in))
  /\ \/ Respond([ssl EXCEPT !.closing = TRUE], "alert")
     \/ CloseErr /\ UNCHANGED <<ssl, up, asked>>
  /\ UNCHANGED <<down, server, extra>>

Process ==
  \/ /\ \/ ProcessFlight \/ ProcessResumed \/ ProcessFinished \/ ProcessData
        \/ ProcessClose \/ ProcessFatal \/ ProcessWarning \/ ProcessUnexpected
     /\ UNCHANGED hellos
  \/ ProcessHelloRequest

Client == Write \/ Written \/ Read \/ ReadEnd \/ Process
-----------------------------------------------------------------------------
(* The server                                                              *)

clientVars == <<pc, ssl, freed, hellos, asked, result>>

Heard(kind, waits) ==
  /\ Len(up) >= 2 /\ up[1] = kind
  /\ up' = SubSeq(up, 3, Len(up))
  /\ server' = waits
  /\ UNCHANGED <<clientVars, extra>>

Turn(kind, reply, waits) ==
  /\ Heard(kind, waits)
  /\ down' = Append(down, reply)

ServerTurn ==
  \/ server = "hello" /\ Turn("hello", "flight", "flight")
  \/ server = "flight" /\ Turn("flight", "finished", "request")
  \/ server \in {"request", "close"} /\ Turn("request", "data", "close")

(* What a server hears that has sent a HelloRequest.                       *)
HelloRequested == "hellorequest" \in ToSet(extra)

ServerHelloTurn ==
  /\ HelloRequested
  /\ \/ /\ server \in {"request", "close"}
        /\ \/ Turn("hello", "flight", "flight")
           \/ Turn("hello", "resumed", "finish")
           \/ Heard("norenegotiation", server) /\ UNCHANGED down
     \/ server = "finish" /\ Heard("finish", "request") /\ UNCHANGED down

(* Alerts, data nobody asked for, HelloRequests, and what is no record.    *)
ServerExtra ==
  /\ server # "gone" /\ pc # "idle" /\ Len(extra) < MaxExtra
  /\ \E kind \in Alerts \cup Data \cup {"hellorequest", "bad"} :
       /\ down' = Append(down, kind)
       /\ extra' = Append(extra, kind)
  /\ UNCHANGED <<clientVars, up, server>>

ServerGone ==
  /\ server # "gone" /\ pc # "idle"
  /\ server' = "gone"
  /\ UNCHANGED <<clientVars, up, down, extra>>

Next ==
  \/ Call \/ CallFails \/ Client \/ SocketFails
  \/ ServerTurn \/ ServerHelloTurn \/ ServerExtra \/ ServerGone

(* The client waits for nothing but recv; of the server nothing is         *)
(* assumed.                                                                *)
Spec == Init /\ [][Next]_vars /\ WF_vars(Client)
-----------------------------------------------------------------------------
(***************************************************************************)
(* Each way out of httpsClientConnection, once there is a session,         *)
(* releases the session and the socket, once, and nothing goes on with a   *)
(* session that is released.                                               *)
(***************************************************************************)
SessionReleased ==
  freed = IF pc = "idle" /\ ssl # NoSession
            THEN [session |-> 1, fd |-> 1] ELSE [session |-> 0, fd |-> 0]

(***************************************************************************)
(* A call sends one SMS, and once more at most for each HelloRequest of    *)
(* the server, although both matrixSslReceivedData and matrixSslSentData   *)
(* may tell that the handshake is complete.                                *)
(***************************************************************************)
RequestOnce == asked <= 1 + hellos

(***************************************************************************)
(* The client and a server that keeps to its turns never wait for each     *)
(* other.  A warning is the exception: one that arrives with the Finished  *)
(* hides that the handshake is complete, and the request is never written. *)
(***************************************************************************)
Blocked == pc = "read" /\ down = <<>> /\ server # "gone"

NeverBothWait ==
  Blocked /\ "warning" \notin ToSet(extra) => server = "close" \/ Len(up) >= 2

(***************************************************************************)
(* A call against a server that sends at most MaxExtra records out of turn *)
(* returns, whatever they are, or waits in recv, and the event loop with   *)
(* it.  A server that goes on for ever with warnings, or with              *)
(* HelloRequests, keeps the call for ever.                                 *)
(***************************************************************************)
Returns == []<>(pc = "idle" \/ Blocked)
=============================================================================
