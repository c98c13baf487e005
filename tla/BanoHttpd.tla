----------------------------- MODULE BanoHttpd ------------------------------
(***************************************************************************)
(* The HTTP server of the base (src/src/base/bano_httpd.c): the handshake  *)
(* between its thread, which runs on_event for each request, and the main  *)
(* thread, which runs the event loop and, when the loop has failed,        *)
(* bano_httpd_fini.  One step is one access to what the two share: the     *)
(* pipe, compl_err, compl_lock, compl_cond and is_done.                    *)
(*                                                                         *)
(* compl_err is on the stack of on_event; the message carries its address. *)
(* Abstracted: of the request, all but whether it captures an image; what  *)
(* is sent to the browser; the authentication file.  Writing and reading   *)
(* the pipe does not fail.  Of mongoose, ns_server_poll and the byte that  *)
(* wakes it up are modelled; it runs on_event once its select has returned.*)
(***************************************************************************)

VARIABLES
  server,     \* where the server thread is
  main,       \* where the main thread is
  op,         \* the request: "cam" to capture an image, or "other"
  piped,      \* the pipe holds a message
  held,       \* the event loop has a message it has not answered
  lock,       \* the holder of compl_lock, or "none"
  compl_err,  \* compl_err of the request: "invalid" or "set"
  is_done,    \* is_done
  ctl,        \* the byte of mg_wakeup_server: "none", sent, or sent back ("echo")
  listening   \* the port could be bound (bano_httpd_init does not look)

vars == <<server, main, op, piped, held, lock, compl_err, is_done, ctl, listening>>

(* on_event is on the stack of the server thread.                          *)
InEvent == {"lock", "check", "wait", "waiting", "unlock"}

TypeOK ==
  /\ server \in InEvent \cup {"test", "poll", "serve", "image", "exited"}
  /\ main \in {"open", "loop", "capture", "lock", "set", "signal", "unlock",
                "wake", "recv", "fini", "destroy", "on_event", "closed"}
  /\ op \in {"cam", "other"}
  /\ piped \in BOOLEAN /\ held \in BOOLEAN
  /\ lock = CASE server \in {"check", "wait", "unlock"} -> "server"
              [] main \in {"set", "signal", "unlock"} -> "main"
              [] OTHER -> "none"
  /\ compl_err \in {"invalid", "set"}
  /\ is_done \in BOOLEAN /\ listening \in BOOLEAN
  /\ ctl \in {"none", "byte", "echo"}
-----------------------------------------------------------------------------
(* The server thread.  Its loop looks at is_done between two calls of      *)
(* mg_poll_server, which does nothing when there is no listening socket,   *)
(* and so no connection.                                                   *)
Poll ==
  /\ server = "test" /\ ~ is_done
  /\ server' = IF listening THEN "poll" ELSE "test"
  /\ UNCHANGED <<main, op, piped, held, lock, compl_err, is_done, ctl, listening>>

(* select returns, at the latest after its 1000 seconds: a byte that wakes *)
(* it up is sent back.                                                     *)
Select ==
  /\ server = "poll"
  /\ server' = "serve"
  /\ ctl' = IF ctl = "byte" THEN "echo" ELSE ctl
  /\ UNCHANGED <<main, op, piped, held, lock, compl_err, is_done, listening>>

(* It has run on_event for the requests it found.                          *)
PollReturns ==
  /\ server = "serve"
  /\ server' = "test"
  /\ UNCHANGED <<main, op, piped, held, lock, compl_err, is_done, ctl, listening>>

ExitSilently ==    \* mutant: is_done is not reset
  /\ server = "test" /\ is_done
  /\ server' = "exited"
  /\ UNCHANGED <<op, main, piped, held, lock, compl_err, is_done, ctl, listening>>

(* server_thread_entry resets is_done and ends.                            *)
Exit ==
  /\ server = "test" /\ is_done
  /\ server' = "exited" /\ is_done' = FALSE
  /\ UNCHANGED <<op, main, piped, held, lock, compl_err, ctl, listening>>

(* mg_poll_server runs on_event, even when is_done was set meanwhile: a    *)
(* request for the event loop is written to the pipe.                      *)
Submit ==
  /\ server = "serve"
  /\ server' = "lock"
  /\ compl_err' = "invalid"
  /\ op' \in {"cam", "other"} /\ piped' = TRUE
  /\ UNCHANGED <<main, held, lock, is_done, ctl, listening>>

(* ob=cam: on_event sends the last image captured, by itself, and returns. *)
SendImage ==
  /\ server = "serve"
  /\ server' = "image"
  /\ UNCHANGED <<op, main, piped, held, lock, compl_err, is_done, ctl, listening>>

ImageSent ==
  /\ server = "image"
  /\ server' = "serve"
  /\ UNCHANGED <<op, main, piped, held, lock, compl_err, is_done, ctl, listening>>

(* pthread_mutex_lock, and the end of pthread_cond_wait.                   *)
Lock ==
  /\ server = "lock" /\ lock = "none"
  /\ server' = "check" /\ lock' = "server"
  /\ UNCHANGED <<op, main, piped, held, compl_err, is_done, ctl, listening>>

(* The condition of the while loop.                                        *)
Check ==
  /\ server = "check"
  /\ server' = IF compl_err = "invalid" THEN "wait" ELSE "unlock"
  /\ UNCHANGED <<op, main, piped, held, lock, compl_err, is_done, ctl, listening>>

(* pthread_cond_wait gives the lock up and sleeps, in one step.            *)
Wait ==
  /\ server = "wait"
  /\ server' = "waiting" /\ lock' = "none"
  /\ UNCHANGED <<op, main, piped, held, compl_err, is_done, ctl, listening>>

WakeUnchecked ==    \* mutant: if instead of while
  /\ server = "waiting" /\ lock = "none"
  /\ server' = "unlock" /\ lock' = "server"
  /\ UNCHANGED <<op, main, piped, held, compl_err, is_done, ctl, listening>>

(* pthread_cond_wait may return for no reason.                             *)
WakeSpuriously ==
  /\ server = "waiting"
  /\ server' = "lock"
  /\ UNCHANGED <<op, main, piped, held, lock, compl_err, is_done, ctl, listening>>

Unlock ==
  /\ server = "unlock"
  /\ server' = "serve" /\ lock' = "none"
  /\ UNCHANGED <<op, main, piped, held, compl_err, is_done, ctl, listening>>
-----------------------------------------------------------------------------
(* The main thread.  The server thread runs before bano_open has applied   *)
(* the rest of the configuration, and the event loop has started.          *)
Opened ==
  /\ main = "open"
  /\ main' = "loop"
  /\ UNCHANGED <<op, server, piped, held, lock, compl_err, is_done, ctl, listening>>

(* The event loop reads the pipe.  handle_httpd_msg captures an image at   *)
(* once; any other request it may hold until an io completes.              *)
Read ==
  /\ main = "loop" /\ piped
  /\ piped' = FALSE /\ held' = TRUE
  /\ main' = IF op = "cam" THEN "capture" ELSE "loop"
  /\ UNCHANGED <<op, server, lock, compl_err, is_done, ctl, listening>>

SendKept ==    \* mutant: the request is kept, and answered again
  /\ held /\ main \in {"loop", "capture"}
  /\ main' = "lock"
  /\ UNCHANGED <<op, server, piped, held, lock, compl_err, is_done, ctl, listening>>

(* bano_httpd_complete_msg sends the answer on the browser's connection,   *)
Send ==
  /\ held /\ main \in {"loop", "capture"}
  /\ main' = "lock" /\ held' = FALSE
  /\ UNCHANGED <<op, server, piped, lock, compl_err, is_done, ctl, listening>>

CompleteUnlocked ==    \* mutant: compl_err is set without the lock
  /\ main = "lock"
  /\ main' = "set"
  /\ UNCHANGED <<op, server, piped, held, lock, compl_err, is_done, ctl, listening>>

(* takes the lock,                                                         *)
CompleteLock ==
  /\ main = "lock" /\ lock = "none"
  /\ main' = "set" /\ lock' = "main"
  /\ UNCHANGED <<op, server, piped, held, compl_err, is_done, ctl, listening>>

(* sets compl_err,                                                         *)
SetComplErr ==
  /\ main = "set"
  /\ main' = "signal" /\ compl_err' = "set"
  /\ UNCHANGED <<op, server, piped, held, lock, is_done, ctl, listening>>

(* signals the condition, which wakes the server thread if it waits,       *)
Signal ==
  /\ main = "signal"
  /\ main' = "unlock"
  /\ server' = IF server = "waiting" THEN "lock" ELSE server
  /\ UNCHANGED <<op, piped, held, lock, compl_err, is_done, ctl, listening>>

(* and gives the lock back.                                                *)
CompleteUnlock ==
  /\ main = "unlock"
  /\ main' = "loop" /\ lock' = "none"
  /\ UNCHANGED <<op, server, piped, held, compl_err, is_done, ctl, listening>>

(* The event loop ends because select failed, or the configuration is      *)
(* refused after the server was started: bano_httpd_fini sets is_done,     *)
Fini ==
  /\ main \in {"open", "loop"}
  /\ main' = "wake" /\ is_done' = TRUE
  /\ UNCHANGED <<op, server, piped, held, lock, compl_err, ctl, listening>>

(* sends the byte that wakes mg_poll_server up,                            *)
Wakeup ==
  /\ main = "wake"
  /\ main' = "recv" /\ ctl' = "byte"
  /\ UNCHANGED <<server, op, piped, held, lock, compl_err, is_done, listening>>

(* waits for it to come back, and nothing else sends it back,              *)
Echoed ==
  /\ main = "recv" /\ ctl = "echo"
  /\ main' = "fini" /\ ctl' = "none"
  /\ UNCHANGED <<server, op, piped, held, lock, compl_err, is_done, listening>>

(* waits until is_done is reset,                                           *)
DoneReset ==
  /\ main = "fini" /\ ~ is_done
  /\ main' = "destroy"
  /\ UNCHANGED <<server, op, piped, held, lock, compl_err, is_done, ctl, listening>>

(* and destroys the server.                                                *)
Closed ==
  /\ main = "destroy"
  /\ main' = "closed"
  /\ UNCHANGED <<server, op, piped, held, lock, compl_err, is_done, ctl, listening>>

(* But ns_server_free polls once more, on the main thread: a request that  *)
(* it finds runs on_event there, which waits for the ended event loop (or  *)
(* sends an image, which nothing rewrites any more).                       *)
SubmitLast ==
  /\ main = "destroy" /\ listening
  /\ main' = "on_event"
  /\ compl_err' = "invalid"
  /\ op' \in {"cam", "other"} /\ piped' = TRUE
  /\ UNCHANGED <<server, held, lock, is_done, ctl, listening>>
-----------------------------------------------------------------------------
Init ==
  /\ server = "test" /\ main = "open"
  /\ op = "other" /\ piped = FALSE /\ held = FALSE
  /\ lock = "none" /\ compl_err = "invalid" /\ is_done = FALSE
  /\ ctl = "none" /\ listening \in BOOLEAN

ServerRuns == Poll \/ Select \/ Exit \/ ImageSent \/ Lock \/ Check \/ Wait \/ Unlock
MainRuns ==
  \/ Opened \/ Read \/ Send
  \/ CompleteLock \/ SetComplErr \/ Signal \/ CompleteUnlock
  \/ Wakeup \/ Echoed \/ DoneReset \/ Closed

Next ==
  \/ Submit \/ SendImage \/ PollReturns \/ ServerRuns \/ WakeSpuriously
  \/ MainRuns \/ Fini \/ SubmitLast

Spec == Init /\ [][Next]_vars

(***************************************************************************)
(* Both threads run, neither is kept from compl_lock forever, select ends, *)
(* and mg_poll_server returns once it has served the requests it found.    *)
(* The event loop answers each request it holds: BrowserAnswered of        *)
(* BanoBase.                                                               *)
(* Browsers need not ask, and pthread_cond_wait need not return early.     *)
(***************************************************************************)
FairSpec ==
  Spec /\ WF_vars(ServerRuns) /\ SF_vars(PollReturns) /\ SF_vars(MainRuns)
-----------------------------------------------------------------------------
(***************************************************************************)
(* While the main thread answers, on_event is still on the stack of the    *)
(* server thread, waiting for this answer: the address of compl_err in the *)
(* message, and the connection, are those of the request that is answered. *)
(* Nothing in the code checks it: a second completion, or an on_event that *)
(* returned early, would write over another request's stack.               *)
(***************************************************************************)
FrameAlive ==
  piped \/ held \/ main \in {"lock", "set"} =>
    /\ server \in InEvent \ {"unlock"} \/ main = "on_event"
    /\ compl_err = "invalid"

(***************************************************************************)
(* The server thread never sleeps on a condition that was signalled        *)
(* already: once compl_err is set, it is awake, or the signal is to come.  *)
(***************************************************************************)
NoLostWakeup == server = "waiting" /\ compl_err = "set" => main = "signal"

(***************************************************************************)
(* The image is never sent while a capture rewrites its buffer.  There is  *)
(* no lock on it: it is safe because the only thread that sends images is  *)
(* the one that waits for the capture.                                     *)
(***************************************************************************)
ImageUntouched == server = "image" => main # "capture"

(***************************************************************************)
(* Seen from the two threads, the handshake is the contract that BanoBase  *)
(* implements too: one request at a time, answered once, whatever the      *)
(* spurious wake-ups, and the event loop's failure does not forge answers. *)
(***************************************************************************)
Contract == INSTANCE RequestReply WITH
  thread <- IF (server \in InEvent \/ main = "on_event") /\ compl_err = "invalid"
              THEN "blocked" ELSE "idle",
  request <- CASE piped -> "piped"
               [] held \/ main \in {"lock", "set"} -> "held"
               [] OTHER -> "none"
ImplementsRequestReply == Contract!Spec

(***************************************************************************)
(* A request is answered, unless the event loop has ended.                 *)
(***************************************************************************)
Answered ==
  server \in InEvent ~>
    server = "serve" \/ main \in {"wake", "recv", "fini", "destroy", "on_event", "closed"}

(***************************************************************************)
(* bano_httpd_fini returns, but for two cases.  A browser waits for an     *)
(* answer: on_event does not look at is_done, so that a request that the   *)
(* ended event loop will not answer blocks both threads for good, or, in   *)
(* the last poll, the main thread alone.  Or the server thread has seen    *)
(* is_done before the byte came, or never calls select: nobody sends the   *)
(* byte back.                                                              *)
(***************************************************************************)
NoEcho == main = "recv" /\ ctl = "byte" /\ server = "exited"

CloseEnds == main = "wake" ~> main = "closed" \/ piped \/ held \/ NoEcho
=============================================================================
