------------------------------ MODULE BanoNode ------------------------------
(***************************************************************************)
(* The firmware of a node (src/src/node/bano_node.c): bano_loop and        *)
(* bano_wait_event, interrupted between any two steps by the handlers of   *)
(* the timer and of the pin changes.                                       *)
(*                                                                         *)
(* Only which events happen is modelled.  What a message says, and what    *)
(* the node answers, is left out; so are the instructions that save power. *)
(* The radio and the microcontroller are known from how the code uses      *)
(* them: a message that was received waits in the radio until it is read,  *)
(* and may be lost when the radio is powered down.                         *)
(***************************************************************************)

Wake == {"timer", "msg", "poll", "pcint"}   \* BANO_WAKE_TIMER and so on
Event == {"timer", "msg", "pcint"}          \* BANO_EV_TIMER and so on

VARIABLES
  wake,       \* bano_wake_mask
  pc,         \* where the program is
  ev,         \* ev
  timer_irq,  \* timer_irq
  pcint_irq,  \* pcint_irq
  counting,   \* the timer counts
  raised,     \* interrupts the hardware has raised, and not yet served
  listening,  \* the radio is in receive mode
  received,   \* the radio holds a message
  fresh       \* the flags have not been looked at since timer_setup

vars == <<wake, pc, ev, timer_irq, pcint_irq, counting, raised, listening, received,
          fresh>>
timer == <<timer_irq, counting>>
radio == <<listening, received>>

TypeOK ==
  /\ wake \in SUBSET Wake
  /\ pc \in {"wait", "timer", "msg", "pcint", "cli", "recheck", "asleep",
              "event", "poll", "handle"}
  /\ ev \in {{}} \cup {{e} : e \in Event}
  /\ timer_irq \in BOOLEAN /\ pcint_irq \in BOOLEAN /\ counting \in BOOLEAN
  /\ raised \in SUBSET {"timer", "pcint"}
  /\ listening \in BOOLEAN /\ received \in BOOLEAN /\ fresh \in BOOLEAN
  /\ counting => ~ timer_irq
-----------------------------------------------------------------------------
(* The hardware.  A period of the timer, and the transmission of a         *)
(* message, take longer than the few instructions from timer_setup and     *)
(* nrf_set_rx_mode to the first look at the flags (`fresh').               *)
TimerMatch ==
  /\ counting /\ ~ fresh
  /\ raised' = raised \cup {"timer"}
  /\ UNCHANGED <<wake, pc, ev, timer, pcint_irq, radio, fresh>>

PinChange ==
  /\ "pcint" \in wake
  /\ raised' = raised \cup {"pcint"}
  /\ UNCHANGED <<wake, pc, ev, timer, pcint_irq, radio, fresh>>

(* The pin of the radio that tells of a message is one of those whose      *)
(* changes are served by PCINT2_vect.                                      *)
Receive ==
  /\ listening /\ ~ received /\ ~ fresh
  /\ received' = TRUE
  /\ raised' = raised \cup {"pcint"}
  /\ UNCHANGED <<wake, pc, ev, timer, pcint_irq, listening, fresh>>

(* Interrupts are disabled from cli to sei, and an interrupt that can be   *)
(* served is, before the program goes on.  It ends the sleep.              *)
Interrupted == raised # {} /\ pc # "recheck"
Resume == pc' = IF pc = "asleep" THEN "timer" ELSE pc

(* ISR(TIMER1_COMPA_vect) stops the timer.                                 *)
TimerIsr ==
  /\ Interrupted /\ "timer" \in raised
  /\ raised' = raised \ {"timer"}
  /\ counting' = FALSE /\ timer_irq' = TRUE
  /\ Resume
  /\ UNCHANGED <<wake, ev, pcint_irq, radio, fresh>>

PcintIsr ==
  /\ Interrupted /\ "pcint" \in raised
  /\ raised' = raised \ {"pcint"}
  /\ pcint_irq' = TRUE
  /\ Resume
  /\ UNCHANGED <<wake, ev, timer, radio, fresh>>
-----------------------------------------------------------------------------
(* bano_wait_event.                                                        *)
TimerUsed == wake \cap {"timer", "poll"} # {}

TimerNotStarted == UNCHANGED timer    \* mutant: the timer is not set up again

(* timer_setup: the timer starts anew, and what it did before is forgotten.*)
TimerSetup ==
  IF TimerUsed THEN counting' = TRUE /\ timer_irq' = FALSE ELSE UNCHANGED timer

Step(from) == pc = from /\ ~ Interrupted

(* Do the flags say that an event the application asked for is here?       *)
Flagged ==
  \/ TimerUsed /\ timer_irq
  \/ "msg" \in wake /\ received
  \/ "pcint" \in wake /\ pcint_irq

SetupClearing ==    \* mutant: pcint_irq is reset like timer_irq
  /\ Step("wait")
  /\ pc' = "timer" /\ ev' = {} /\ fresh' = TRUE
  /\ TimerSetup
  /\ pcint_irq' = FALSE
  /\ listening' = ("msg" \in wake)
  /\ UNCHANGED <<wake, raised, received>>

Setup ==
  /\ Step("wait")
  /\ pc' = "timer" /\ ev' = {} /\ fresh' = TRUE
  /\ TimerSetup
  /\ listening' = ("msg" \in wake)
  /\ UNCHANGED <<wake, pcint_irq, raised, received>>

(* The three looks at the flags, in this order.                            *)
CheckTimer ==
  /\ Step("timer")
  /\ IF TimerUsed /\ timer_irq
       THEN pc' = "event" /\ ev' = {"timer"} /\ timer_irq' = FALSE
       ELSE pc' = "msg" /\ UNCHANGED <<ev, timer_irq>>
  /\ UNCHANGED <<wake, pcint_irq, counting, raised, radio, fresh>>

CheckMsg ==
  /\ Step("msg")
  /\ IF "msg" \in wake /\ received
       THEN pc' = "event" /\ ev' = {"msg"} /\ received' = FALSE
       ELSE pc' = "pcint" /\ UNCHANGED <<ev, received>>
  /\ UNCHANGED <<wake, timer, pcint_irq, raised, listening, fresh>>

CheckPcint ==
  /\ Step("pcint")
  /\ IF "pcint" \in wake /\ pcint_irq
       THEN pc' = "event" /\ ev' = {"pcint"} /\ pcint_irq' = FALSE
       ELSE pc' = "cli" /\ UNCHANGED <<ev, pcint_irq>>
  /\ fresh' = FALSE
  /\ UNCHANGED <<wake, timer, raised, radio>>

Cli ==
  /\ Step("cli")
  /\ pc' = "recheck"
  /\ UNCHANGED <<wake, ev, timer, pcint_irq, raised, radio, fresh>>

SleepUnchecked ==    \* mutant: the flags are not looked at again after cli
  /\ Step("recheck")
  /\ pc' = "asleep"
  /\ UNCHANGED <<wake, ev, timer, pcint_irq, raised, radio, fresh>>

(* The flags are looked at again, then sei; and sleep_cpu if none is set,  *)
(* with no interrupt between the two.                                      *)
Recheck ==
  /\ Step("recheck")
  /\ pc' = IF Flagged THEN "timer" ELSE "asleep"
  /\ UNCHANGED <<wake, ev, timer, pcint_irq, raised, radio, fresh>>

(* on_event: the radio is powered down.                                    *)
PowerDown ==
  /\ Step("event")
  /\ pc' = "poll" /\ listening' = FALSE /\ fresh' = FALSE
  /\ received' \in {received, FALSE}
  /\ UNCHANGED <<wake, ev, timer, pcint_irq, raised>>

(* Sending a message may change the radio's pin.                           *)
Send ==
  \/ UNCHANGED raised
  \/ "msg" \in wake /\ raised' = raised \cup {"pcint"}

(* wait_msg_or_timer is empty: a node that polls asks for a message and    *)
(* never waits for it.                                                     *)
Poll ==
  /\ Step("poll")
  /\ IF "poll" \in wake /\ ev = {"timer"}
       THEN /\ Send /\ TimerSetup
            /\ pc' = IF "timer" \in wake THEN "handle" ELSE "wait"
       ELSE pc' = "handle" /\ UNCHANGED <<raised, timer>>
  /\ UNCHANGED <<wake, ev, pcint_irq, radio, fresh>>

(* bano_loop: the handler of the event, which may send a message.          *)
Handle ==
  /\ Step("handle")
  /\ pc' = "wait"
  /\ Send
  /\ UNCHANGED <<wake, ev, timer, pcint_irq, radio, fresh>>
-----------------------------------------------------------------------------
(* bano_init.  A node that waits for nothing has no behaviour.             *)
Init ==
  /\ wake \in SUBSET Wake \ {{}}
  /\ pc = "wait" /\ ev = {}
  /\ timer_irq = FALSE /\ pcint_irq = FALSE /\ counting = FALSE
  /\ raised = {} /\ listening = FALSE /\ received = FALSE /\ fresh = FALSE

Cpu ==
  \/ Setup \/ CheckTimer \/ CheckMsg \/ CheckPcint \/ Cli \/ Recheck
  \/ PowerDown \/ Poll \/ Handle

Next == TimerMatch \/ PinChange \/ Receive \/ TimerIsr \/ PcintIsr \/ Cpu

Spec == Init /\ [][Next]_vars

(***************************************************************************)
(* The timer counts, and pin changes, however many, leave time to serve    *)
(* either interrupt and to execute an instruction of the program, as the   *)
(* processor does after each (strong fairness).  No message need come and  *)
(* no pin change.                                                          *)
(***************************************************************************)
FairSpec ==
  Spec /\ WF_vars(TimerMatch) /\ SF_vars(TimerIsr) /\ SF_vars(PcintIsr) /\ SF_vars(Cpu)
-----------------------------------------------------------------------------
Handled(e) == pc = "handle" /\ e \in ev

(***************************************************************************)
(* "the following procedure is used to not miss interrupts",               *)
(* bano_node.c:457: the node never sleeps while an event it waits for is   *)
(* there, and when it waits for a time it sleeps with the timer counting.  *)
(* A flag set between the last look at it and the sleep would be missed.   *)
(***************************************************************************)
NoneSleptThrough ==
  pc = "asleep" /\ raised = {} => ~ Flagged /\ (TimerUsed => counting)

(***************************************************************************)
(* A pin change is handled in the end, whatever the messages and timers,   *)
(* that are looked at before it.                                           *)
(***************************************************************************)
PinServed == "pcint" \in wake /\ pcint_irq ~> Handled("pcint")

(***************************************************************************)
(* A node that only wakes on its timer runs its handler over and over      *)
(* ("called every 10 seconds", doc/node_sdk/main.tex:333).                 *)
(***************************************************************************)
TimerPeriodic == wake = {"timer"} ~> Handled("timer")
=============================================================================
