----------------------------- MODULE BanoTimer ------------------------------
(***************************************************************************)
(* The timers of the base (src/src/base/bano_timer.c), as its event loop   *)
(* uses them: a list in which each timer holds the ms that remain when the *)
(* one before it has expired.  Only the head's rel_ms is ever updated, to  *)
(* what remains of the time select was given.                              *)
(*                                                                         *)
(* `left' is history: the time each timer was armed for, less the time     *)
(* slept since.  Time the loop spends outside select is seen by no timer,  *)
(* and is not counted.                                                     *)
(*                                                                         *)
(* The list is a sequence here.  bano_list_add_before leaves the prev      *)
(* pointer of the new item NULL, so that this is right only as long as an  *)
(* item inserted in the middle is neither deleted nor inserted before      *)
(* until it is the head.  The only timer that is inserted in the middle is *)
(* the loop timer, which is shorter than the others and only ever expires. *)
(***************************************************************************)
EXTENDS Integers, SequencesExt

CONSTANTS IoTimer,     \* memory for the timers of the ios
          LoopTimer,   \* the timer of linfo->timer_fn
          RetryMs,     \* BANO_RETRY_MS
          LoopMs,      \* linfo->timer_ms
          TicksPerMs   \* the clock of select ticks this often in a ms

ASSUME TimerConstantsOK ==
  /\ LoopTimer \notin IoTimer
  /\ RetryMs \in Nat /\ LoopMs \in 0..RetryMs
  /\ TicksPerMs \in Nat \ {0}

VARIABLES list,  \* the armed timers, in the order of the list
          rel,   \* rel_ms of each timer, 0 when it is not armed
          left   \* ticks until the time each was armed for

vars == <<list, rel, left>>

Timer == IoTimer \cup {LoopTimer}
Delay(t) == IF t = LoopTimer THEN LoopMs ELSE RetryMs
Ticks == 0..(RetryMs * TicksPerMs)
-----------------------------------------------------------------------------
(* The sum of the first p delays.                                          *)
SumOf(ms, p) ==
  LET sum[q \in 0..Len(ms)] == IF q = 0 THEN 0 ELSE sum[q - 1] + ms[q]
  IN  sum[p]

(* ms until the p-th timer of the list expires, if the loop only sleeps.   *)
Delays == [q \in DOMAIN list |-> rel[list[q]]]
Sum(p) == SumOf(Delays, p)

PlaceBeforeEqual(d) ==    \* mutant: >= instead of >
  CHOOSE p \in 0..Len(list) :
    /\ \A q \in 1..p : Sum(q) < d
    /\ p < Len(list) => Sum(p + 1) >= d

(* How many timers stay before a new one: it goes before the first timer   *)
(* that expires strictly later.                                            *)
Place(d) ==
  CHOOSE p \in 0..Len(list) :
    /\ \A q \in 1..p : Sum(q) <= d
    /\ p < Len(list) => Sum(p + 1) > d

RelNextKept(t, d, p) ==    \* mutant: next_ti->rel_ms is not recomputed
  [rel EXCEPT ![t] = d - Sum(p)]

(* rel_ms of the new timer, and of the one it was inserted before.         *)
RelArmed(t, d, p) ==
  [u \in Timer |-> CASE u = t -> d - Sum(p)
                     [] p < Len(list) /\ u = list[p + 1] -> Sum(p + 1) - d
                     [] OTHER -> rel[u]]

(* bano_timer_add.                                                         *)
Add(t) ==
  LET d == Delay(t) IN
  /\ t \notin ToSet(list)
  /\ list' = InsertAt(list, Place(d) + 1, t)
  /\ rel' = RelArmed(t, d, Place(d))
  /\ left' = [left EXCEPT ![t] = d * TicksPerMs]

(* bano_timer_del, called for the timer of an io that was answered: the    *)
(* next timer's rel_ms is left as it is.                                   *)
Del(t) ==
  /\ \E p \in DOMAIN list : list[p] = t /\ list' = RemoveAt(list, p)
  /\ rel' = [rel EXCEPT ![t] = 0]
  /\ left' = [left EXCEPT ![t] = 0]
-----------------------------------------------------------------------------
(* bano_timer_get_next, select and bano_timer_update: what remains of the  *)
(* head's rel_ms after s ticks in select, rounded down to a ms.            *)
Remaining(s) == (rel[Head(list)] * TicksPerMs - s) \div TicksPerMs

(* select never sleeps longer than the head's rel_ms; it may sleep less,   *)
(* when a socket is ready.                                                 *)
MaySleep(s) == list # <<>> /\ s <= rel[Head(list)] * TicksPerMs

(* The head has time left.                                                 *)
Wait(s) ==
  /\ MaySleep(s) /\ Remaining(s) > 0
  /\ rel' = [rel EXCEPT ![Head(list)] = Remaining(s)]
  /\ left' = [t \in Timer |-> IF t \in ToSet(list) THEN left[t] - s ELSE 0]
  /\ UNCHANGED list

(* The head expires: the loop handles it, and deletes it.                  *)
Expire(s) ==
  /\ MaySleep(s) /\ Remaining(s) = 0
  /\ list' = Tail(list)
  /\ rel' = [rel EXCEPT ![Head(list)] = 0]
  /\ left' = [t \in Timer |-> IF t \in ToSet(list') THEN left[t] - s ELSE 0]

Init ==
  /\ list = <<>>
  /\ rel = [t \in Timer |-> 0]
  /\ left = [t \in Timer |-> 0]

Next ==
  \/ \E t \in Timer : Add(t)
  \/ \E t \in IoTimer : Del(t)
  \/ \E s \in Ticks : Wait(s) \/ Expire(s)

Spec == Init /\ [][Next]_vars
-----------------------------------------------------------------------------
(***************************************************************************)
(* No timer is scheduled past the time it was armed for: the delays of the *)
(* list add up to at most that.  bano_timer_add must give the difference   *)
(* to the right neighbour, and rounding must never add to a delay, or an   *)
(* io would be retransmitted later and later.                              *)
(***************************************************************************)
NeverLate == \A p \in DOMAIN list : Sum(p) * TicksPerMs <= left[list[p]]

(***************************************************************************)
(* The timers do what BanoBase relies on: bano_timer_add puts the timer of *)
(* an io last, whatever was deleted or rounded before, and the loop never  *)
(* oversleeps.                                                             *)
(***************************************************************************)
Queue == INSTANCE TimerQueue WITH
  queue <- list, IoTicks <- RetryMs * TicksPerMs, LoopTicks <- LoopMs * TicksPerMs
ImplementsQueue == Queue!Spec

(***************************************************************************)
(* A timer that is due has lasted the time it was armed for.  A timer's    *)
(* rel_ms is its "time relative to previous" (bano_timer.c:78), and        *)
(* bano_timer_del has the code that would keep it so ("recompute next      *)
(* timer", bano_timer.c:98) compiled out.                                  *)
(***************************************************************************)
NeverEarly ==
  list # <<>> /\ rel[Head(list)] = 0 => left[Head(list)] = 0
=============================================================================
