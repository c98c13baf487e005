-------------------------- MODULE BanoHttpd_proofs --------------------------
(***************************************************************************)
(* The two threads of the HTTP server agree on whose turn it is: the       *)
(* request is in one place at a time, and the server thread stays in       *)
(* on_event until the main thread has written to its stack.                *)
(*                                                                         *)
(* And the images it sends: the buffers that the driver of the camera      *)
(* holds are mapped, each once, whatever BANO_CAM_FB_COUNT is and however  *)
(* often the stream is restarted, and the one that is read is up to date.  *)
(***************************************************************************)
EXTENDS BanoHttpd, BanoCam, SeqLemmas

(* The main thread has read the request, and not yet told of its answer.   *)
Answering == main \in {"lock", "set"}

(* FrameAlive alone is not inductive: it also takes that the request is in *)
(* one place (a request still held after it was answered would be answered *)
(* on another frame), that compl_lock keeps the two threads apart, and     *)
(* that the server thread goes to sleep only on what it has just checked.  *)
OnePlace ==
  /\ piped => ~ held
  /\ Answering => ~ piped /\ ~ held
  /\ main = "capture" => held

(* is_done is set from bano_httpd_fini to the end of the server thread, so *)
(* that the last poll, on the main thread, comes when that thread is gone. *)
DoneSeen ==
  /\ is_done <=> main \in {"wake", "recv", "fini"} /\ server # "exited"
  /\ server = "exited" => main \in {"wake", "recv", "fini", "destroy", "on_event", "closed"}
  /\ main \in {"destroy", "on_event", "closed"} => server = "exited"
  /\ main = "on_event" => piped

Apart ==
  /\ server \in {"check", "wait", "unlock"} => main \notin {"set", "signal", "unlock"}
  /\ server = "wait" => compl_err = "invalid"
  /\ server = "unlock" => compl_err = "set"

IInv == TypeOK /\ FrameAlive /\ NoLostWakeup /\ OnePlace /\ DoneSeen /\ Apart

LEMMA InitIInv == Init => IInv
BY DEF Init, IInv, TypeOK, InEvent, FrameAlive, NoLostWakeup, OnePlace, DoneSeen, Apart, Answering

LEMMA ServerStep ==
  ASSUME IInv, ServerRuns \/ Submit \/ SendImage \/ PollReturns \/ WakeSpuriously
  PROVE  IInv'
<1> USE DEF IInv, TypeOK, InEvent, FrameAlive, NoLostWakeup, OnePlace, DoneSeen, Apart, Answering
<1>1. CASE Poll BY <1>1 DEF Poll
<1>2. CASE Exit BY <1>2 DEF Exit
<1>3. CASE ImageSent BY <1>3 DEF ImageSent
<1>4. CASE Lock BY <1>4 DEF Lock
<1>5. CASE Check BY <1>5 DEF Check
<1>6. CASE Wait BY <1>6 DEF Wait
<1>7. CASE Unlock BY <1>7 DEF Unlock
<1>8. CASE Submit BY <1>8 DEF Submit
<1>9. CASE SendImage BY <1>9 DEF SendImage
<1>10. CASE PollReturns BY <1>10 DEF PollReturns
<1>11. CASE WakeSpuriously BY <1>11 DEF WakeSpuriously
<1>12. CASE Select BY <1>12 DEF Select
<1> QED
  BY <1>1, <1>2, <1>3, <1>4, <1>5, <1>6, <1>7, <1>8, <1>9, <1>10, <1>11, <1>12
     DEF ServerRuns

LEMMA MainStep ==
  ASSUME IInv, MainRuns \/ Fini \/ SubmitLast
  PROVE  IInv'
<1> USE DEF IInv, TypeOK, InEvent, FrameAlive, NoLostWakeup, OnePlace, DoneSeen, Apart, Answering
<1>1. CASE Opened BY <1>1 DEF Opened
<1>2. CASE Read BY <1>2 DEF Read
<1>3. CASE Send BY <1>3 DEF Send
<1>4. CASE CompleteLock BY <1>4 DEF CompleteLock
<1>5. CASE SetComplErr BY <1>5 DEF SetComplErr
<1>6. CASE Signal BY <1>6 DEF Signal
<1>7. CASE CompleteUnlock BY <1>7 DEF CompleteUnlock
<1>8. CASE Wakeup BY <1>8 DEF Wakeup
<1>9. CASE Echoed BY <1>9 DEF Echoed
<1>10. CASE DoneReset BY <1>10 DEF DoneReset
<1>11. CASE Closed BY <1>11 DEF Closed
<1>12. CASE Fini BY <1>12 DEF Fini
<1>13. CASE SubmitLast BY <1>13 DEF SubmitLast
<1> QED
  BY <1>1, <1>2, <1>3, <1>4, <1>5, <1>6, <1>7, <1>8, <1>9, <1>10, <1>11, <1>12, <1>13
     DEF MainRuns

(* The invariant that the properties below follow from.                    *)
THEOREM Invariance == Spec => []IInv
<1>1. IInv /\ UNCHANGED vars => IInv'
  BY DEF IInv, vars, TypeOK, InEvent, FrameAlive, NoLostWakeup, OnePlace, DoneSeen, Apart, Answering
<1>2. IInv /\ [Next]_vars => IInv'
  BY <1>1, ServerStep, MainStep DEF Next
<1> QED BY InitIInv, <1>2, PTL DEF Spec

(***************************************************************************)
(* bano_httpd_complete_msg writes to the frame of the request it answers.  *)
(***************************************************************************)
THEOREM FrameAliveAlways == Spec => []FrameAlive
<1>1. IInv => FrameAlive
  BY DEF IInv
<1> QED BY <1>1, Invariance, PTL

(***************************************************************************)
(* on_event never sleeps on a condition that was signalled before.         *)
(***************************************************************************)
THEOREM NoLostWakeupAlways == Spec => []NoLostWakeup
<1>1. IInv => NoLostWakeup
  BY DEF IInv
<1> QED BY <1>1, Invariance, PTL

(***************************************************************************)
(* on_event never sends the image while handle_httpd_msg captures one: the *)
(* request that captures is held, and so the server thread waits for it.   *)
(***************************************************************************)
THEOREM ImageUntouchedAlways == Spec => []ImageUntouched
<1>1. IInv => ImageUntouched
  BY DEF IInv, OnePlace, FrameAlive, ImageUntouched, InEvent
<1> QED BY <1>1, Invariance, PTL

-----------------------------------------------------------------------------
(* Where a thread waits for what the other does: for compl_lock, on the    *)
(* condition, and, in bano_httpd_fini, for the byte to come back, for      *)
(* is_done to be reset, and for the answer to a request of the last poll.  *)
ServerBlocked == server = "waiting" \/ (server = "lock" /\ lock # "none")
MainBlocked ==
  \/ main = "lock" /\ lock # "none"
  \/ main = "recv" /\ ctl # "echo"
  \/ main = "fini" /\ is_done
  \/ main = "on_event"

NeverBothStuck ==
  /\ ServerBlocked /\ MainBlocked => main \in {"recv", "fini"} /\ (piped \/ held)
  /\ server = "exited" /\ MainBlocked => NoEcho \/ (main = "on_event" /\ piped)
  /\ main = "closed" => server = "exited" /\ lock = "none"

(* compl_lock is held where its holder will give it back, and nowhere      *)
(* else; the byte is sent once; and who waits for an answer is owed one.   *)
LockHeld ==
  /\ lock = "server" <=> server \in {"check", "wait", "unlock"}
  /\ lock = "main" <=> main \in {"set", "signal", "unlock"}

ByteSent == ctl # "none" <=> main = "recv"

Owed == server \in InEvent /\ compl_err = "invalid" => piped \/ held \/ Answering

WaitInv == LockHeld /\ ByteSent /\ Owed

LEMMA WaitInvServer ==
  ASSUME IInv, WaitInv, ServerRuns \/ Submit \/ SendImage \/ PollReturns \/ WakeSpuriously
  PROVE  WaitInv'
<1> USE DEF IInv, TypeOK, InEvent, Apart, DoneSeen, WaitInv, LockHeld, ByteSent, Owed, Answering
<1>1. CASE Poll BY <1>1 DEF Poll
<1>2. CASE Exit BY <1>2 DEF Exit
<1>3. CASE ImageSent BY <1>3 DEF ImageSent
<1>4. CASE Lock BY <1>4 DEF Lock
<1>5. CASE Check BY <1>5 DEF Check
<1>6. CASE Wait BY <1>6 DEF Wait
<1>7. CASE Unlock BY <1>7 DEF Unlock
<1>8. CASE Submit BY <1>8 DEF Submit
<1>9. CASE SendImage BY <1>9 DEF SendImage
<1>10. CASE PollReturns BY <1>10 DEF PollReturns
<1>11. CASE WakeSpuriously BY <1>11 DEF WakeSpuriously
<1>12. CASE Select BY <1>12 DEF Select
<1> QED
  BY <1>1, <1>2, <1>3, <1>4, <1>5, <1>6, <1>7, <1>8, <1>9, <1>10, <1>11, <1>12
     DEF ServerRuns

LEMMA WaitInvMain ==
  ASSUME IInv, WaitInv, MainRuns \/ Fini \/ SubmitLast
  PROVE  WaitInv'
<1> USE DEF IInv, TypeOK, InEvent, Apart, DoneSeen, WaitInv, LockHeld, ByteSent, Owed, Answering
<1>1. CASE Opened BY <1>1 DEF Opened
<1>2. CASE Read BY <1>2 DEF Read
<1>3. CASE Send BY <1>3 DEF Send
<1>4. CASE CompleteLock BY <1>4 DEF CompleteLock
<1>5. CASE SetComplErr BY <1>5 DEF SetComplErr
<1>6. CASE Signal BY <1>6 DEF Signal
<1>7. CASE CompleteUnlock BY <1>7 DEF CompleteUnlock
<1>8. CASE Wakeup BY <1>8 DEF Wakeup
<1>9. CASE Echoed BY <1>9 DEF Echoed
<1>10. CASE DoneReset BY <1>10 DEF DoneReset
<1>11. CASE Closed BY <1>11 DEF Closed
<1>12. CASE Fini BY <1>12 DEF Fini
<1>13. CASE SubmitLast BY <1>13 DEF SubmitLast
<1> QED
  BY <1>1, <1>2, <1>3, <1>4, <1>5, <1>6, <1>7, <1>8, <1>9, <1>10, <1>11, <1>12, <1>13
     DEF MainRuns

(***************************************************************************)
(* The threads wait for each other for good only in the ways that          *)
(* CloseEnds names: both, when bano_httpd_fini waits for a thread that     *)
(* waits for an answer the ended loop will not give; the main thread       *)
(* alone, when the server thread was gone before it could send the byte    *)
(* back, or when the last poll found a request.  compl_lock keeps neither  *)
(* for ever, and the server is destroyed once its thread is gone.          *)
(***************************************************************************)
THEOREM NeverBothStuckAlways == Spec => []NeverBothStuck
<1>1. Init => WaitInv
  BY DEF Init, WaitInv, LockHeld, ByteSent, Owed, Answering, InEvent
<1>2. IInv /\ WaitInv /\ UNCHANGED vars => WaitInv'
  BY DEF vars, WaitInv, LockHeld, ByteSent, Owed, Answering, InEvent
<1>3. IInv /\ WaitInv /\ [Next]_vars => WaitInv'
  BY <1>2, WaitInvServer, WaitInvMain DEF Next
<1>4. IInv /\ WaitInv => NeverBothStuck
  BY DEF IInv, TypeOK, InEvent, NoLostWakeup, DoneSeen, WaitInv, LockHeld, ByteSent, Owed,
         Answering, NeverBothStuck, ServerBlocked, MainBlocked, NoEcho
<1> QED BY <1>1, <1>3, <1>4, Invariance, PTL DEF Spec
-----------------------------------------------------------------------------
(***************************************************************************)
(* The handshake implements the contract that the event loop implements    *)
(* from its side.                                                          *)
(***************************************************************************)
thread == IF (server \in InEvent \/ main = "on_event") /\ compl_err = "invalid"
            THEN "blocked" ELSE "idle"
request == CASE piped -> "piped"
             [] held \/ main \in {"lock", "set"} -> "held"
             [] OTHER -> "none"

LEMMA ContractStep ==
  ASSUME IInv, IInv', [Next]_vars
  PROVE  [Contract!Next]_<<thread, request>>
<1> USE DEF IInv, TypeOK, InEvent, FrameAlive, OnePlace, DoneSeen, Apart, Answering,
            thread, request, Contract!Next
<1>1. CASE Submit BY <1>1 DEF Submit, Contract!Submit
<1>2. CASE Read BY <1>2 DEF Read, Contract!Read
<1>3. CASE Send BY <1>3 DEF Send
<1>4. CASE SetComplErr BY <1>4 DEF SetComplErr, Contract!Answer
<1>5. CASE ServerRuns \/ SendImage \/ PollReturns \/ WakeSpuriously
  BY <1>5 DEF ServerRuns, SendImage, PollReturns, WakeSpuriously, Poll, Select, Exit,
              ImageSent, Lock, Check, Wait, Unlock
<1>6. CASE Opened \/ CompleteLock \/ Signal \/ CompleteUnlock \/ Fini
  BY <1>6 DEF Opened, CompleteLock, Signal, CompleteUnlock, Fini
<1>7. CASE Wakeup \/ Echoed \/ DoneReset \/ Closed
  BY <1>7 DEF Wakeup, Echoed, DoneReset, Closed
<1>8. CASE SubmitLast BY <1>8 DEF SubmitLast, Contract!Submit
<1>9. CASE UNCHANGED vars BY <1>9 DEF vars
<1> QED BY <1>1, <1>2, <1>3, <1>4, <1>5, <1>6, <1>7, <1>8, <1>9 DEF Next, MainRuns

THEOREM ImplementsRequestReplyAlways == Spec => ImplementsRequestReply
<1>1. Init => Contract!Init
  BY DEF Init, InEvent, Contract!Init
<1>2. IInv /\ IInv' /\ [Next]_vars => [Contract!Next]_<<thread, request>>
  BY ContractStep
<1> QED BY <1>1, <1>2, Invariance, PTL
       DEF Spec, ImplementsRequestReply, Contract!Spec, thread, request
-----------------------------------------------------------------------------
(* FramesMapped, said of the two queues: it is kept because a buffer only  *)
(* goes from the one to the other, and because a restart empties both.     *)
QueuesApart ==
  /\ IsInjective(incoming) /\ IsInjective(done)
  /\ ToSet(incoming) \cap ToSet(done) = {}
  /\ \A b \in ToSet(incoming) \cup ToSet(done) : b < fb_count

CamIInv == CamTypeOK /\ QueuesApart

LEMMA BuffersElements ==
  ASSUME NEW n \in 0 .. FbCount
  PROVE  /\ Buffers(n) \in Seq(Buffer)
         /\ IsInjective(Buffers(n))
         /\ \A b \in ToSet(Buffers(n)) : b < n
<1>1. FbCount \in Nat
  BY FbCountOK
<1>2. Buffers(n) \in Seq(Buffer)
  BY <1>1 DEF Buffers, Buffer
<1>3. IsInjective(Buffers(n))
  BY <1>1 DEF Buffers, IsInjective
<1>4. \A b \in ToSet(Buffers(n)) : b < n
  BY <1>1 DEF Buffers, ToSet
<1> QED BY <1>2, <1>3, <1>4

LEMMA EmptyBuffers ==
  /\ <<>> \in Seq(Buffer) /\ IsInjective(<<>>) /\ ToSet(<<>>) = {}
BY DEF IsInjective, ToSet

LEMMA CamInitIInv == CamInit => CamIInv
<1> SUFFICES ASSUME CamInit PROVE CamIInv
  OBVIOUS
<1>1. fb_count \in 0 .. FbCount
  BY FbCountOK DEF CamInit
<1>2. CamTypeOK
  BY <1>1, BuffersElements, EmptyBuffers DEF CamInit, CamTypeOK, MaxBugs, Frame
<1>3. QueuesApart
  BY <1>1, BuffersElements, EmptyBuffers DEF CamInit, QueuesApart
<1> QED BY <1>2, <1>3 DEF CamIInv
-----------------------------------------------------------------------------
(* A buffer that goes from the head of the one queue to the end of the     *)
(* other, or, if that fails, to neither.                                   *)
LEMMA MoveKeepsApart ==
  ASSUME NEW s \in Seq(Buffer), NEW t \in Seq(Buffer), s # <<>>, NEW n \in Nat,
         IsInjective(s), IsInjective(t), ToSet(s) \cap ToSet(t) = {},
         \A b \in ToSet(s) \cup ToSet(t) : b < n,
         NEW u, u \in {t, Append(t, Head(s))}
  PROVE  /\ Tail(s) \in Seq(Buffer) /\ u \in Seq(Buffer)
         /\ IsInjective(Tail(s)) /\ IsInjective(u)
         /\ ToSet(Tail(s)) \cap ToSet(u) = {}
         /\ \A b \in ToSet(Tail(s)) \cup ToSet(u) : b < n
<1>1. /\ Head(s) \in Buffer /\ Head(s) \in ToSet(s) /\ Tail(s) \in Seq(Buffer)
      /\ ToSet(Tail(s)) = ToSet(s) \ {Head(s)} /\ IsInjective(Tail(s))
  BY TailElements
<1>2. Head(s) \notin ToSet(t)
  BY <1>1
<1>3. /\ u \in Seq(Buffer) /\ IsInjective(u)
      /\ ToSet(u) \in {ToSet(t), ToSet(t) \cup {Head(s)}}
  <2>1. CASE u = t
    BY <2>1
  <2>2. CASE u = Append(t, Head(s))
    BY <1>1, <1>2, <2>2, AppendElements
  <2> QED BY <2>1, <2>2
<1> QED BY <1>1, <1>2, <1>3

LEMMA RestartIInv ==
  ASSUME CamIInv, Restart
  PROVE  /\ fb_count' \in 0 .. FbCount /\ streaming' \in BOOLEAN
         /\ incoming' \in Seq(Buffer) /\ done' \in Seq(Buffer)
         /\ mem' \in [Buffer -> Frame]
         /\ QueuesApart'
<1>1. PICK n \in 0 .. FbCount, q \in 0 .. FbCount :
        q <= n /\ fb_count' = n /\ incoming' = Buffers(q)
  <2>1. CASE StartStream
    BY <2>1, FbCountOK DEF StartStream
  <2>2. CASE StartFails
    BY <2>2, FbCountOK DEF StartFails
  <2> QED BY <2>1, <2>2 DEF Restart
<1>2. streaming' \in BOOLEAN /\ done' = <<>> /\ mem' \in [Buffer -> Frame]
  BY DEF Restart, StartStream, StartFails, Frame
<1>3. \A b \in ToSet(Buffers(q)) : b < n
  <2>1. \A b \in ToSet(Buffers(q)) : b \in Nat
    BY FbCountOK DEF Buffers, ToSet
  <2> QED BY <1>1, <2>1, BuffersElements, FbCountOK
<1> QED BY <1>1, <1>2, <1>3, BuffersElements, EmptyBuffers DEF QueuesApart

LEMMA CamStepIInv ==
  ASSUME CamIInv, [CamNext]_camVars
  PROVE  CamIInv'
<1> USE DEF CamIInv, CamTypeOK, QueuesApart, local, driver
<1>0. fb_count \in Nat
  BY FbCountOK
<1>1. CASE Fill
  <2>1. /\ incoming' \in Seq(Buffer) /\ done' \in Seq(Buffer) /\ QueuesApart'
    BY <1>0, <1>1, MoveKeepsApart DEF Fill
  <2>2. mem' \in [Buffer -> Frame]
    BY <1>1 DEF Fill, Frame
  <2> QED BY <1>1, <2>1, <2>2 DEF Fill
<1>2. CASE Capture
  BY <1>2 DEF Capture, Frame, MaxBugs
<1>3. CASE Ready
  BY <1>3 DEF Ready
<1>4. CASE Timeout
  <2>1. /\ fb_count' \in 0 .. FbCount /\ streaming' \in BOOLEAN
        /\ incoming' \in Seq(Buffer) /\ done' \in Seq(Buffer)
        /\ mem' \in [Buffer -> Frame] /\ QueuesApart'
    BY <1>4, RestartIInv DEF Timeout
  <2>2. /\ pc' \in {"idle", "select", "dqbuf"} /\ err' \in {"success", "failure"}
        /\ cap_count' \in 0..1 /\ bug_count' \in 0..(MaxBugs - 1)
        /\ image' = image
    BY <1>4 DEF Timeout, Fail, MaxBugs
  <2> QED BY <2>1, <2>2
<1>5. CASE DequeueFails
  BY <1>5 DEF DequeueFails, Fail
<1>6. CASE DequeueFirst
  <2>1. /\ incoming' \in Seq(Buffer) /\ done' \in Seq(Buffer) /\ QueuesApart'
    <3>1. /\ done # <<>> /\ done' = Tail(done) /\ fb_count' = fb_count
          /\ incoming' \in {incoming, Append(incoming, Head(done))}
      BY <1>6 DEF DequeueFirst
    <3> QED BY <1>0, <3>1, MoveKeepsApart
  <2> QED BY <1>6, <2>1 DEF DequeueFirst, MaxBugs
<1>7. CASE DequeueSecond
  <2>1. /\ incoming' \in Seq(Buffer) /\ done' \in Seq(Buffer) /\ QueuesApart'
    BY <1>0, <1>7, MoveKeepsApart DEF DequeueSecond
  <2>2. mem[0] \in Frame
    BY FbCountOK DEF Buffer
  <2> QED BY <1>7, <2>1, <2>2 DEF DequeueSecond
<1>8. CASE UNCHANGED camVars
  BY <1>8 DEF camVars
<1> QED BY <1>1, <1>2, <1>3, <1>4, <1>5, <1>6, <1>7, <1>8 DEF CamNext, Step

LEMMA CamInvariance == CamSpec => []CamIInv
BY CamInitIInv, CamStepIInv, PTL DEF CamSpec

(***************************************************************************)
(* Every buffer that VIDIOC_DQBUF may return is mapped, and queued once,   *)
(* for any number of buffers.                                              *)
(***************************************************************************)
THEOREM FramesMappedAlways == CamSpec => []FramesMapped
<1>1. CamIInv => FramesMapped
  BY ConcatElements DEF CamIInv, CamTypeOK, QueuesApart, FramesMapped
<1> QED BY <1>1, CamInvariance, PTL
-----------------------------------------------------------------------------
(* Why the image is a new one: a single buffer, once it was dequeued and   *)
(* queued again, is filled during the capture before it is dequeued again. *)
SecondIsNew ==
  pc # "idle" /\ cap_count = 1 /\ fb_count = 1 /\ done # <<>> => mem[0] = "new"

LEMMA NoElements ==
  ASSUME NEW t \in Seq(Buffer), ToSet(t) = {}
  PROVE  t = <<>>
<1>1. Len(t) \in Nat /\ DOMAIN t = 1 .. Len(t)
  OBVIOUS
<1>2. 1 \notin DOMAIN t
  BY DEF ToSet
<1>3. Len(t) = 0
  BY <1>1, <1>2
<1> QED BY <1>3, EmptySeq

LEMMA SingleBuffer ==
  ASSUME CamIInv, fb_count = 1
  PROVE  /\ incoming # <<>> => Head(incoming) = 0
         /\ done # <<>> => Tail(done) = <<>>
<1> USE DEF CamIInv, CamTypeOK, QueuesApart
<1>1. \A b \in ToSet(incoming) \cup ToSet(done) : b = 0
  <2>1. \A b \in ToSet(incoming) \cup ToSet(done) : b \in Nat
    <3>1. /\ \A i \in DOMAIN incoming : incoming[i] \in Buffer
          /\ \A i \in DOMAIN done : done[i] \in Buffer
      OBVIOUS
    <3>2. Buffer \subseteq Nat
      BY FbCountOK DEF Buffer
    <3> QED BY <3>1, <3>2 DEF ToSet
  <2> QED BY <2>1
<1>2. incoming # <<>> => Head(incoming) = 0
  BY <1>1, TailElements
<1>3. ASSUME done # <<>> PROVE Tail(done) = <<>>
  <2>1. /\ Head(done) \in ToSet(done) /\ Tail(done) \in Seq(Buffer)
        /\ ToSet(Tail(done)) = ToSet(done) \ {Head(done)}
    BY <1>3, TailElements
  <2>2. ToSet(Tail(done)) = {}
    BY <1>1, <2>1
  <2> QED BY <2>1, <2>2, NoElements
<1> QED BY <1>2, <1>3

LEMMA StepSecondIsNew ==
  ASSUME CamIInv, SecondIsNew, [CamNext]_camVars
  PROVE  SecondIsNew'
<1> USE DEF SecondIsNew, local, driver
<1>1. CASE Fill
  <2>1. incoming # <<>> /\ fb_count' = fb_count /\ pc' = pc
        /\ mem' = [mem EXCEPT ![Head(incoming)] = IF pc = "idle" THEN "old" ELSE "new"]
    BY <1>1 DEF Fill
  <2>2. 0 \in DOMAIN mem
    BY FbCountOK DEF CamIInv, CamTypeOK, Buffer
  <2> QED BY <2>1, <2>2, SingleBuffer
<1>2. CASE Capture
  BY <1>2 DEF Capture
<1>3. CASE Ready
  BY <1>3 DEF Ready
<1>4. CASE Timeout
  BY <1>4 DEF Timeout, Restart
<1>5. CASE DequeueFails
  BY <1>5 DEF DequeueFails, Fail
<1>6. CASE DequeueFirst
  <2>1. done # <<>> /\ done' = Tail(done) /\ fb_count' = fb_count
    BY <1>6 DEF DequeueFirst
  <2> QED BY <2>1, SingleBuffer
<1>7. CASE DequeueSecond
  BY <1>7 DEF DequeueSecond
<1>8. CASE UNCHANGED camVars
  BY <1>8 DEF camVars
<1> QED BY <1>1, <1>2, <1>3, <1>4, <1>5, <1>6, <1>7, <1>8 DEF CamNext, Step

(***************************************************************************)
(* An image that bano_cam_capture hands out was taken since it was called, *)
(* from a driver that gave it one buffer, whatever restarts came between.  *)
(***************************************************************************)
THEOREM ImageCurrentAlways == CamSpec => ImageCurrent
<1>1. CamInit => SecondIsNew
  BY DEF CamInit, SecondIsNew
<1>2. CamIInv /\ SecondIsNew /\ [CamNext]_camVars => SecondIsNew'
  BY StepSecondIsNew
<1>3. CamIInv /\ SecondIsNew /\ [CamNext]_camVars =>
        [pc = "dqbuf" /\ pc' = "idle" /\ err' = "success" /\ fb_count = 1 =>
           image' = "new"]_camVars
  <2> SUFFICES ASSUME CamIInv, SecondIsNew, CamNext, pc = "dqbuf", pc' = "idle",
                      err' = "success", fb_count = 1
               PROVE  image' = "new"
    OBVIOUS
  <2>1. CASE DequeueSecond
    BY <2>1 DEF DequeueSecond, SecondIsNew
  <2>2. CASE ~ DequeueSecond
    BY <2>2 DEF CamNext, Step, Fill, Capture, Ready, Timeout, DequeueFails, DequeueFirst,
                Fail, local
  <2> QED BY <2>1, <2>2
<1> QED BY <1>1, <1>2, <1>3, CamInvariance, PTL DEF CamSpec, ImageCurrent
-----------------------------------------------------------------------------
(***************************************************************************)
(* CaptureEnds needs more than fairness: each step of a capture must bring *)
(* its end nearer, although DequeueFirst forgives the restarts so far.     *)
(* StepsLeft bounds the steps that remain, whatever the driver does: three *)
(* restarts and two steps for each frame.                                  *)
(***************************************************************************)
StepsLeft ==
  LET restarts == MaxBugs - 1 - bug_count
      frames   == (MaxBugs + 1) * (1 - cap_count)
  IN  CASE pc = "idle"   -> 0
        [] pc = "select" -> frames + restarts + 2
        [] pc = "dqbuf"  -> frames + restarts + 1

CaptureBounded ==
  [][/\ Capture => StepsLeft' = 2 * (MaxBugs + 1)
     /\ Step    => StepsLeft' < StepsLeft
     /\ Fill    => StepsLeft' = StepsLeft]_camVars

LEMMA StepsLeftFacts ==
  ASSUME CamIInv
  PROVE  /\ bug_count \in 0 .. 3 /\ cap_count \in 0 .. 1
         /\ pc = "idle" => StepsLeft = 0
         /\ pc = "select" => StepsLeft = 5 * (1 - cap_count) + (3 - bug_count) + 2
         /\ pc = "dqbuf" => StepsLeft = 5 * (1 - cap_count) + (3 - bug_count) + 1
BY DEF CamIInv, CamTypeOK, StepsLeft, MaxBugs

(***************************************************************************)
(* capture_mmap_enabled, once called, takes ten steps at the most, each of *)
(* them a call of select or of VIDIOC_DQBUF that returns: the event loop,  *)
(* which waits for it, is not kept by a driver that hangs over and over.   *)
(***************************************************************************)
THEOREM CaptureBoundedAlways == CamSpec => CaptureBounded
<1>1. ASSUME CamIInv, CamIInv', CamNext
      PROVE  /\ Capture => StepsLeft' = 2 * (MaxBugs + 1)
             /\ Step    => StepsLeft' < StepsLeft
             /\ Fill    => StepsLeft' = StepsLeft
  <2>1. /\ bug_count \in 0 .. 3 /\ cap_count \in 0 .. 1
        /\ pc = "idle" => StepsLeft = 0
        /\ pc = "select" => StepsLeft = 5 * (1 - cap_count) + (3 - bug_count) + 2
        /\ pc = "dqbuf" => StepsLeft = 5 * (1 - cap_count) + (3 - bug_count) + 1
    BY <1>1, StepsLeftFacts
  <2>2. /\ bug_count' \in 0 .. 3 /\ cap_count' \in 0 .. 1
        /\ pc' = "idle" => StepsLeft' = 0
        /\ pc' = "select" => StepsLeft' = 5 * (1 - cap_count') + (3 - bug_count') + 2
        /\ pc' = "dqbuf" => StepsLeft' = 5 * (1 - cap_count') + (3 - bug_count') + 1
    <3>1. (CamIInv => /\ bug_count \in 0 .. 3 /\ cap_count \in 0 .. 1
                      /\ pc = "idle" => StepsLeft = 0
                      /\ pc = "select" => StepsLeft = 5 * (1 - cap_count) + (3 - bug_count) + 2
                      /\ pc = "dqbuf" => StepsLeft = 5 * (1 - cap_count) + (3 - bug_count) + 1)'
      BY StepsLeftFacts, PTL
    <3> QED BY <1>1, <3>1
  <2>3. ASSUME Capture PROVE StepsLeft' = 2 * (MaxBugs + 1)
    BY <2>2, <2>3 DEF Capture, MaxBugs
  <2>4. ASSUME Fill PROVE StepsLeft' = StepsLeft
    BY <2>4 DEF Fill, local, StepsLeft
  <2>5. ASSUME Step PROVE StepsLeft' < StepsLeft
    <3>1. CASE Ready
      BY <2>1, <2>2, <3>1 DEF Ready
    <3>2. CASE Timeout
      BY <2>1, <2>2, <3>2 DEF Timeout, Fail, MaxBugs
    <3>3. CASE DequeueFails
      BY <2>1, <2>2, <3>3 DEF DequeueFails, Fail
    <3>4. CASE DequeueFirst
      BY <2>1, <2>2, <3>4 DEF DequeueFirst
    <3>5. CASE DequeueSecond
      BY <2>1, <2>2, <3>5 DEF DequeueSecond
    <3> QED BY <2>5, <3>1, <3>2, <3>3, <3>4, <3>5 DEF Step
  <2> QED BY <2>3, <2>4, <2>5
<1> QED BY <1>1, CamInvariance, PTL DEF CamSpec, CaptureBounded
=============================================================================
