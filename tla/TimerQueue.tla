----------------------------- MODULE TimerQueue -----------------------------
(***************************************************************************)
(* What the event loop of the base asks of its timers (bano_timer.c):      *)
(* they expire in the order of a queue, in which the timer of an io goes   *)
(* last, and the loop never sleeps past the time a timer was armed for.    *)
(* It is not promised that a timer lasts as long as that.                  *)
(* BanoBase relies on this and no more of the timers.                      *)
(***************************************************************************)
EXTENDS Integers, SequencesExt

CONSTANTS IoTimer,     \* the timers of the ios
          LoopTimer,   \* the timer of the application
          IoTicks,     \* how long each is armed for, in ticks of the clock
          LoopTicks

VARIABLES queue,  \* the armed timers, in the order they will expire
          left    \* left[t]: ticks until the time t was armed for

Timer == IoTimer \cup {LoopTimer}

ArmIo(t) ==
  /\ t \notin ToSet(queue)
  /\ queue' = Append(queue, t)
  /\ left' = [left EXCEPT ![t] = IoTicks]

ArmLoop ==
  /\ LoopTimer \notin ToSet(queue)
  /\ queue' \in {InsertAt(queue, p, LoopTimer) : p \in 1..(Len(queue) + 1)}
  /\ left' = [left EXCEPT ![LoopTimer] = LoopTicks]

Cancel(t) ==
  /\ \E p \in DOMAIN queue : queue[p] = t /\ queue' = RemoveAt(queue, p)
  /\ left' = [left EXCEPT ![t] = 0]

(* The loop sleeps s ticks; the head may expire, even if it had time left. *)
Sleep(s) ==
  /\ queue # <<>>
  /\ \A t \in ToSet(queue) : s <= left[t]
  /\ queue' \in {queue, Tail(queue)}
  /\ left' = [t \in Timer |-> IF t \in ToSet(queue') THEN left[t] - s ELSE 0]

Init == queue = <<>> /\ left = [t \in Timer |-> 0]

Next ==
  \/ \E t \in IoTimer : ArmIo(t) \/ Cancel(t)
  \/ ArmLoop
  \/ \E s \in 0..IoTicks : Sleep(s)

Spec == Init /\ [][Next]_<<queue, left>>
=============================================================================
