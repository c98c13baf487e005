--------------------------- MODULE BanoNode_proofs ---------------------------
(***************************************************************************)
(* A node never sleeps through an event, whatever it waits for and         *)
(* whenever the interrupts come.                                           *)
(***************************************************************************)
EXTENDS BanoNode, TLAPS

(* From timer_setup to the sleep, the timer counts or has fired: its       *)
(* interrupt stops it and sets the flag at once, and the flag is only      *)
(* cleared together with the end of the wait.                              *)
Waiting == {"timer", "msg", "pcint", "cli", "recheck", "asleep"}
TimerLeft == pc \in Waiting /\ TimerUsed => counting \/ timer_irq

IInv == TypeOK /\ TimerLeft /\ NoneSleptThrough

LEMMA InitIInv == Init => IInv
BY DEF Init, IInv, TypeOK, TimerLeft, Waiting, NoneSleptThrough, Wake, Event

(* The hardware: what is raised while the node sleeps stays raised until   *)
(* it is awake.                                                            *)
LEMMA HardwareStep ==
  ASSUME IInv, TimerMatch \/ PinChange \/ Receive \/ TimerIsr \/ PcintIsr
  PROVE  IInv'
<1> USE DEF IInv, TypeOK, TimerLeft, NoneSleptThrough, Waiting, TimerUsed, Flagged,
            timer, radio, Interrupted, Resume
<1>1. CASE TimerMatch BY <1>1 DEF TimerMatch
<1>2. CASE PinChange BY <1>2 DEF PinChange
<1>3. CASE Receive BY <1>3 DEF Receive
<1>4. CASE TimerIsr BY <1>4 DEF TimerIsr
<1>5. CASE PcintIsr BY <1>5 DEF PcintIsr
<1> QED BY <1>1, <1>2, <1>3, <1>4, <1>5

(* The program: only Recheck puts the node to sleep.                       *)
LEMMA CpuStep ==
  ASSUME IInv, Cpu
  PROVE  IInv'
<1> USE DEF IInv, TypeOK, TimerLeft, NoneSleptThrough, Waiting, TimerUsed, Flagged,
            timer, radio, Step, TimerSetup, Send, Event
<1>1. CASE Setup
  <2>1. /\ wake' = wake /\ pc' = "timer" /\ ev' = {} /\ fresh' = TRUE
        /\ pcint_irq' = pcint_irq /\ raised' = raised /\ received' = received
        /\ listening' = ("msg" \in wake)
    BY <1>1 DEF Setup
  <2>2. \/ TimerUsed /\ counting' = TRUE /\ timer_irq' = FALSE
        \/ ~ TimerUsed /\ counting' = counting /\ timer_irq' = timer_irq
    BY <1>1 DEF Setup
  <2>3. listening' \in BOOLEAN
    BY <2>1
  <2>4. TypeOK'
    <3>1. counting' \in BOOLEAN /\ timer_irq' \in BOOLEAN /\ (counting' => ~ timer_irq')
      <4>1. counting \in BOOLEAN /\ timer_irq \in BOOLEAN /\ (counting => ~ timer_irq)
        OBVIOUS
      <4>2. \/ counting' = TRUE /\ timer_irq' = FALSE
            \/ counting' = counting /\ timer_irq' = timer_irq
        BY <2>2
      <4>3. CASE counting' = TRUE /\ timer_irq' = FALSE
        BY ONLY <4>3
      <4>4. CASE counting' = counting /\ timer_irq' = timer_irq
        <5>1. counting' \in BOOLEAN
          BY ONLY <4>1, <4>4, Zenon
        <5>2. timer_irq' \in BOOLEAN
          BY ONLY <4>1, <4>4, Zenon
        <5>3. counting' => ~ timer_irq'
          BY ONLY <4>1, <4>4, Zenon
        <5> QED BY <5>1, <5>2, <5>3
      <4> QED BY <4>2, <4>3, <4>4
    <3>2. pcint_irq' \in BOOLEAN /\ received' \in BOOLEAN /\ fresh' \in BOOLEAN
      BY <2>1
    <3>3. /\ wake' \in SUBSET Wake /\ raised' \in SUBSET {"timer", "pcint"}
          /\ pc' = "timer" /\ ev' = {}
      BY <2>1
    <3> QED BY <2>3, <3>1, <3>2, <3>3
  <2>5. TimerLeft' /\ NoneSleptThrough'
    BY <2>1, <2>2
  <2> QED BY <2>4, <2>5
<1>2. CASE CheckTimer BY <1>2 DEF CheckTimer
<1>3. CASE CheckMsg BY <1>3 DEF CheckMsg
<1>4. CASE CheckPcint BY <1>4 DEF CheckPcint
<1>5. CASE Cli BY <1>5 DEF Cli
<1>6. CASE Recheck BY <1>6 DEF Recheck
<1>7. CASE PowerDown BY <1>7 DEF PowerDown
<1>8. CASE Poll BY <1>8 DEF Poll
<1>9. CASE Handle BY <1>9 DEF Handle
<1> QED BY <1>1, <1>2, <1>3, <1>4, <1>5, <1>6, <1>7, <1>8, <1>9 DEF Cpu

LEMMA Invariance == Spec => []IInv
<1>1. IInv /\ UNCHANGED vars => IInv'
  BY DEF IInv, vars, timer, radio, TypeOK, TimerLeft, NoneSleptThrough, TimerUsed, Flagged
<1>2. IInv /\ [Next]_vars => IInv'
  BY <1>1, HardwareStep, CpuStep DEF Next
<1> QED BY InitIInv, <1>2, PTL DEF Spec

(***************************************************************************)
(* bano_wait_event never sleeps while an event it waits for is there, nor  *)
(* waits for a time with the timer stopped.                                *)
(***************************************************************************)
THEOREM NoneSleptThroughAlways == Spec => []NoneSleptThrough
<1>1. IInv => NoneSleptThrough
  BY DEF IInv
<1> QED BY <1>1, Invariance, PTL
=============================================================================
