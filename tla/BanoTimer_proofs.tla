--------------------------- MODULE BanoTimer_proofs --------------------------
(***************************************************************************)
(* That no timer of the base is scheduled past the time it was armed for,  *)
(* and that the timers are the queue BanoBase takes them for.              *)
(*                                                                         *)
(* The delays of the list are added up from its head.  SumOf is recursive; *)
(* what it does when a timer is added, deleted or updated is shown once,   *)
(* by induction on the place of a timer (SetInduction), and the steps of   *)
(* the list only use that.                                                 *)
(*                                                                         *)
(* Then, that the pointers of bano_list.c are the sequence that the timers *)
(* and the ios are taken to be in.                                         *)
(***************************************************************************)
EXTENDS BanoTimer, BanoList, SeqLemmas, FiniteSetTheorems

LEMMA SumSteps ==
  ASSUME NEW l \in Seq(Nat)
  PROVE  /\ \A p \in 0..Len(l) : SumOf(l, p) \in Int
         /\ SumOf(l, 0) = 0
         /\ \A p \in 1..Len(l) : SumOf(l, p) = SumOf(l, p - 1) + l[p]
<1>1. PICK s : s = CHOOSE g : g = [q \in 0..Len(l) |-> IF q = 0 THEN 0 ELSE g[q - 1] + l[q]]
  OBVIOUS
<1>2. \A p : SumOf(l, p) = s[p]
  BY <1>1 DEF SumOf
<1>3. Len(l) \in Nat /\ \A p \in 1..Len(l) : l[p] \in Int
  BY LenProperties
<1>4. /\ s[0] = 0 /\ \A p \in 0..Len(l) : s[p] \in Int
      /\ \A p \in 1..Len(l) : s[p] = s[p - 1] + l[p]
  <2>1. PICK n : n = Len(l)
    OBVIOUS
  <2>2. n \in Nat /\ \A p \in 1..n : l[p] \in Int
    BY <1>3, <2>1
  <2>3. \E g : g = [q \in 0..n |-> IF q = 0 THEN 0 ELSE g[q - 1] + l[q]]
    BY <2>2, SumsExist
  <2>4. s = [q \in 0..n |-> IF q = 0 THEN 0 ELSE s[q - 1] + l[q]]
    BY <1>1, <2>1, <2>3
  <2>5. DOMAIN s = 0..n
    BY <2>4
  <2>6. \A q \in 0..n : s[q] = IF q = 0 THEN 0 ELSE s[q - 1] + l[q]
    BY <2>4
  <2>7. s[0] = 0 /\ \A q \in 1..n : s[q] = s[q - 1] + l[q]
    BY <2>2, <2>6
  <2>8. \A q \in 0..n : s[q] \in Int
    BY <2>2, <2>7, PrefixSums
  <2> QED BY <2>1, <2>7, <2>8
<1> QED BY <1>2, <1>4

(* Sums of delays never fall.                                              *)
LEMMA SumMonotone ==
  ASSUME NEW l \in Seq(Nat), NEW a \in 0..Len(l), NEW b \in 0..Len(l), a <= b
  PROVE  SumOf(l, a) <= SumOf(l, b) /\ SumOf(l, a) \in Nat
<1> DEFINE T == {m \in Nat : \A i \in 0..Len(l) :
                   i + m <= Len(l) => SumOf(l, i) <= SumOf(l, i + m)}
<1>1. Len(l) \in Nat /\ \A p \in 1..Len(l) : l[p] \in Nat
  BY LenProperties
<1>2. 0 \in T
  BY <1>1, SumSteps
<1>3. ASSUME NEW m \in T PROVE m + 1 \in T
  <2>1. ASSUME NEW i \in 0..Len(l), i + m + 1 <= Len(l)
        PROVE  SumOf(l, i) <= SumOf(l, i + m + 1)
    <3>1. SumOf(l, i) <= SumOf(l, i + m)
      BY <1>1, <2>1
    <3>2. PICK p \in 1..Len(l) : p = i + m + 1 /\ p - 1 = i + m
      BY <1>1, <2>1
    <3>3. SumOf(l, p) = SumOf(l, p - 1) + l[p] /\ l[p] \in Nat
      BY <1>1, SumSteps
    <3>4. SumOf(l, i) \in Int /\ SumOf(l, p - 1) \in Int
      BY <1>1, SumSteps
    <3> QED BY <3>1, <3>2, <3>3, <3>4
  <2>2. \A i \in 0..Len(l) : i + (m + 1) = i + m + 1
    BY <1>1
  <2> QED BY <2>1, <2>2
<1>4. T = Nat
  <2> HIDE DEF T
  <2> T \subseteq Nat
    BY DEF T
  <2> QED BY <1>2, <1>3, SetInduction
<1>5. \A i, j \in 0..Len(l) : i <= j => SumOf(l, i) <= SumOf(l, j)
  <2> SUFFICES ASSUME NEW i \in 0..Len(l), NEW j \in 0..Len(l), i <= j
               PROVE  SumOf(l, i) <= SumOf(l, j)
    OBVIOUS
  <2>1. PICK m \in T : m = j - i /\ i + m = j
    <3> HIDE DEF T
    <3> QED BY <1>1, <1>4
  <2> QED BY <1>1, <2>1
<1>6. 0 \in 0..Len(l) /\ 0 <= a
  BY <1>1
<1> QED BY <1>5, <1>6, SumSteps

(* Two sums that go on with the same delays rise alike.                    *)
LEMMA SumShift ==
  ASSUME NEW l \in Seq(Nat), NEW m \in Seq(Nat),
         NEW a \in 0..Len(l), NEW b \in 0..Len(m), NEW k \in Nat,
         a + k <= Len(l), b + k <= Len(m),
         \A i \in 1..k : m[b + i] = l[a + i]
  PROVE  SumOf(m, b + k) - SumOf(m, b) = SumOf(l, a + k) - SumOf(l, a)
<1> DEFINE Alike(n) == SumOf(m, b + n) - SumOf(m, b) = SumOf(l, a + n) - SumOf(l, a)
           T == {n \in Nat : n <= k => Alike(n)}
<1>1. Len(l) \in Nat /\ Len(m) \in Nat /\ \A p \in 1..Len(l) : l[p] \in Nat
  BY LenProperties
<1>2. Alike(0)
  <2>1. SumOf(m, b) \in Int /\ SumOf(l, a) \in Int
    BY SumSteps
  <2>2. b + 0 = b /\ a + 0 = a
    BY <1>1
  <2> QED BY <2>1, <2>2
<1>3. ASSUME NEW n \in Nat, n + 1 <= k, Alike(n)
      PROVE  Alike(n + 1)
  <2>1. PICK p \in 1..Len(l) : p = a + (n + 1) /\ p - 1 = a + n
    BY <1>1, <1>3
  <2>2. PICK q \in 1..Len(m) : q = b + (n + 1) /\ q - 1 = b + n
    BY <1>1, <1>3
  <2>3. m[q] = l[p]
    <3>1. n + 1 \in 1..k
      BY <1>3
    <3> QED BY <2>1, <2>2, <3>1
  <2>4. SumOf(l, p) = SumOf(l, p - 1) + l[p] /\ SumOf(m, q) = SumOf(m, q - 1) + m[q]
    BY SumSteps
  <2>5. l[p] \in Int /\ m[q] \in Int
    BY <1>1, <2>3
  <2>10. SumOf(m, b) \in Int /\ SumOf(l, a) \in Int
    BY SumSteps
  <2>6. p - 1 \in 0..Len(l) /\ q - 1 \in 0..Len(m)
    BY <1>1
  <2>7. SumOf(m, q - 1) \in Int /\ SumOf(l, p - 1) \in Int
    BY <2>6, SumSteps
  <2>8. SumOf(m, q - 1) - SumOf(m, b) = SumOf(l, p - 1) - SumOf(l, a)
    BY <1>3, <2>1, <2>2
  <2>9. SumOf(m, q) - SumOf(m, b) = SumOf(l, p) - SumOf(l, a)
    <3>1. PICK x, y, u, v, d : /\ x = SumOf(m, q - 1) /\ y = SumOf(m, b) /\ d = l[p]
                               /\ u = SumOf(l, p - 1) /\ v = SumOf(l, a)
      OBVIOUS
    <3>2. x \in Int /\ y \in Int /\ u \in Int /\ v \in Int /\ d \in Int /\ x - y = u - v
      BY <2>5, <2>7, <2>8, <2>10, <3>1
    <3>3. (x + d) - y = (u + d) - v
      BY <3>2
    <3> QED BY <2>3, <2>4, <3>1, <3>3
  <2> QED BY <2>1, <2>2, <2>9
<1>4. k \in T
  <2> HIDE DEF Alike
  <2>1. 0 \in T /\ (\A n \in T : n + 1 \in T) /\ T \subseteq Nat
    BY <1>2, <1>3
  <2> HIDE DEF T
  <2> QED BY <2>1, SetInduction
<1> HIDE DEF Alike
<1>5. Alike(k)
  BY <1>4
<1> QED BY <1>5 DEF Alike

(* A place where the sums pass a delay for the first time.                 *)
LEMMA PlaceExists ==
  ASSUME NEW l \in Seq(Nat), NEW d \in Nat
  PROVE  \E p \in 0..Len(l) :
           /\ \A q \in 1..p : SumOf(l, q) <= d
           /\ p < Len(l) => SumOf(l, p + 1) > d
<1> DEFINE Fits(p, m) == (\A q \in 1..p : SumOf(l, q) <= d) /\ (p < m => SumOf(l, p + 1) > d)
           T == {m \in Nat : m <= Len(l) => \E p \in 0..m : Fits(p, m)}
<1>1. Len(l) \in Nat
  BY LenProperties
<1>2. 0 \in T
  <2>1. Fits(0, 0)
    OBVIOUS
  <2> QED BY <2>1
<1>3. ASSUME NEW m \in T
      PROVE  m + 1 \in T
  <2>1. SUFFICES ASSUME m + 1 <= Len(l)
                 PROVE  \E p \in 0..(m + 1) : Fits(p, m + 1)
    OBVIOUS
  <2>2. PICK p \in 0..m : Fits(p, m)
    BY <1>1, <2>1
  <2>3. SumOf(l, m + 1) \in Int
    BY <1>1, <2>1, SumSteps
  <2>4. CASE p < m
    <3>1. Fits(p, m + 1) /\ p \in 0..(m + 1)
      BY <2>2, <2>4
    <3> QED BY <3>1
  <2>5. CASE p = m /\ SumOf(l, m + 1) > d
    <3>1. Fits(p, m + 1) /\ p \in 0..(m + 1)
      BY <2>2, <2>5
    <3> QED BY <3>1
  <2>6. CASE p = m /\ SumOf(l, m + 1) <= d
    <3>1. ASSUME NEW q \in 1..(m + 1)
          PROVE  SumOf(l, q) <= d
      <4>1. q \in 1..p \/ q = m + 1
        BY <2>6
      <4> QED BY <2>2, <2>6, <4>1
    <3>2. Fits(m + 1, m + 1) /\ m + 1 \in 0..(m + 1)
      BY <3>1
    <3> QED BY <3>2
  <2> QED BY <2>3, <2>4, <2>5, <2>6
<1>4. Len(l) \in T
  <2> HIDE DEF Fits
  <2>1. T \subseteq Nat
    OBVIOUS
  <2> HIDE DEF T
  <2> QED BY <1>1, <1>2, <1>3, <2>1, SetInduction
<1> QED BY <1>4

(* The delays of a list of timers.                                         *)
LEMMA DelaysSeq ==
  ASSUME NEW l \in Seq(Timer), NEW r \in [Timer -> Nat], NEW d,
         d = [q \in DOMAIN l |-> r[l[q]]]
  PROVE  /\ d \in Seq(Nat) /\ Len(d) = Len(l)
         /\ \A q \in 1..Len(l) : d[q] = r[l[q]]
<1>1. Len(l) \in Nat /\ DOMAIN l = 1..Len(l) /\ \A q \in 1..Len(l) : l[q] \in Timer
  BY LenProperties
<1>2. d \in [1..Len(l) -> Nat]
  BY <1>1
<1> QED BY <1>1, <1>2, SeqDef

(* Milliseconds and ticks.                                                 *)
LEMMA TicksOf ==
  ASSUME NEW a \in Int, NEW b \in Int
  PROVE  /\ a * TicksPerMs \in Int
         /\ (a - b) * TicksPerMs = a * TicksPerMs - b * TicksPerMs
         /\ a <= b <=> a * TicksPerMs <= b * TicksPerMs
         /\ a >= 0 => a * TicksPerMs \in Nat
<1>1. TicksPerMs \in Nat \ {0}
  BY TimerConstantsOK
<1>2. (a - b) * TicksPerMs = a * TicksPerMs - b * TicksPerMs
  BY <1>1
<1>3. a <= b => (b - a) * TicksPerMs >= 0
  BY <1>1
<1>4. a > b => (a - b) * TicksPerMs > 0
  BY <1>1
<1>5. (b - a) * TicksPerMs = b * TicksPerMs - a * TicksPerMs
  BY <1>1
<1>6. a * TicksPerMs \in Int /\ b * TicksPerMs \in Int
  BY <1>1
<1>7. a >= 0 => a * TicksPerMs >= 0
  BY <1>1
<1> QED BY <1>2, <1>3, <1>4, <1>5, <1>6, <1>7

LEMMA RoundedDown ==
  ASSUME NEW x \in Nat
  PROVE  /\ x \div TicksPerMs \in Nat
         /\ (x \div TicksPerMs) * TicksPerMs <= x
BY TimerConstantsOK
-----------------------------------------------------------------------------
(* A timer is in the list once, and armed for no longer than an io's.      *)
TypeOK ==
  /\ list \in Seq(Timer) /\ IsInjective(list)
  /\ rel \in [Timer -> Nat]
  /\ left \in [Timer -> Ticks]

(* NeverLate is inductive.                                                 *)
IInv == TypeOK /\ NeverLate

(* What it says of the delays of the list.                                 *)
LEMMA ListFacts ==
  ASSUME IInv
  PROVE  /\ Delays \in Seq(Nat) /\ Len(Delays) = Len(list) /\ Len(list) \in Nat
         /\ \A q \in 1..Len(list) : /\ list[q] \in Timer /\ Delays[q] = rel[list[q]]
                                    /\ Delays[q] \in Nat
                                    /\ Sum(q) * TicksPerMs <= left[list[q]]
         /\ \A q \in 0..Len(list) : Sum(q) \in Nat
         /\ \A q, k \in 1..Len(list) : list[q] = list[k] => q = k
         /\ DOMAIN list = 1..Len(list)
<1>1. list \in Seq(Timer) /\ rel \in [Timer -> Nat] /\ IsInjective(list)
  BY DEF IInv, TypeOK
<1>2. /\ Len(list) \in Nat /\ DOMAIN list = 1..Len(list)
      /\ \A q \in 1..Len(list) : list[q] \in Timer
  BY <1>1, LenProperties
<1>3. PICK d : d = Delays
  OBVIOUS
<1>4. /\ d \in Seq(Nat) /\ Len(d) = Len(list)
      /\ \A q \in 1..Len(list) : d[q] = rel[list[q]]
  BY <1>1, <1>3, DelaysSeq DEF Delays
<1>5. \A q \in 0..Len(d) : q <= q /\ SumOf(d, q) \in Nat
  BY <1>4, SumMonotone
<1>6. \A q, k \in 1..Len(list) : list[q] = list[k] => q = k
  BY <1>1, <1>2 DEF IsInjective
<1>7. \A q \in 1..Len(list) : Sum(q) * TicksPerMs <= left[list[q]]
  BY <1>2 DEF IInv, NeverLate
<1>8. \A q \in 1..Len(list) : d[q] \in Nat
  BY <1>1, <1>2, <1>4
<1> QED BY <1>2, <1>3, <1>4, <1>5, <1>6, <1>7, <1>8 DEF Sum

LEMMA InitIInv == Init => IInv
<1>1. ASSUME Init PROVE IInv
  <2>1. list = <<>> /\ list \in Seq(Timer) /\ DOMAIN list = {} /\ IsInjective(list)
    BY <1>1, EmptySeq DEF Init, IsInjective
  <2>2. RetryMs * TicksPerMs \in Nat
    BY TimerConstantsOK, TicksOf
  <2> QED BY <1>1, <2>1, <2>2 DEF Init, IInv, TypeOK, NeverLate, Ticks
<1> QED BY <1>1

(* How long a timer is armed for.                                          *)
LEMMA DelayFacts ==
  ASSUME NEW t \in Timer
  PROVE  /\ Delay(t) \in Nat /\ Delay(t) * TicksPerMs \in Ticks
         /\ t \in IoTimer => Delay(t) = RetryMs
         /\ t \notin IoTimer => t = LoopTimer /\ Delay(t) = LoopMs
<1>1. Delay(t) \in Nat /\ Delay(t) <= RetryMs
  BY TimerConstantsOK DEF Delay
<1>2. Delay(t) * TicksPerMs <= RetryMs * TicksPerMs /\ Delay(t) * TicksPerMs \in Nat
  BY <1>1, TimerConstantsOK, TicksOf
<1>3. RetryMs * TicksPerMs \in Nat
  BY TimerConstantsOK, TicksOf
<1> QED BY <1>1, <1>2, <1>3, TimerConstantsOK DEF Delay, Timer, Ticks

(* Where bano_timer_add finds a place, and that an io's timer goes last.   *)
LEMMA PlaceFacts ==
  ASSUME IInv, NEW d \in Nat
  PROVE  /\ Place(d) \in 0..Len(list)
         /\ \A q \in 1..Place(d) : Sum(q) <= d
         /\ Place(d) < Len(list) => Sum(Place(d) + 1) > d
         /\ d = RetryMs => Place(d) = Len(list)
<1>1. /\ Delays \in Seq(Nat) /\ Len(Delays) = Len(list) /\ Len(list) \in Nat
      /\ \A q \in 1..Len(list) : list[q] \in Timer /\ Sum(q) * TicksPerMs <= left[list[q]]
      /\ \A q \in 0..Len(list) : Sum(q) \in Nat
  BY ListFacts
<1>2. \E p \in 0..Len(list) : /\ \A q \in 1..p : Sum(q) <= d
                              /\ p < Len(list) => Sum(p + 1) > d
  BY <1>1, PlaceExists DEF Sum
<1>3. /\ Place(d) \in 0..Len(list)
      /\ \A q \in 1..Place(d) : Sum(q) <= d
      /\ Place(d) < Len(list) => Sum(Place(d) + 1) > d
  BY <1>2 DEF Place
<1>4. ASSUME d = RetryMs, Place(d) < Len(list)
      PROVE  FALSE
  <2>1. PICK q \in 1..Len(list) : q = Place(d) + 1
    BY <1>1, <1>3, <1>4
  <2>2. Sum(q) > RetryMs /\ Sum(q) \in Nat
    BY <1>1, <1>3, <1>4, <2>1
  <2>3. left[list[q]] \in Ticks
    BY <1>1 DEF IInv, TypeOK
  <2>4. Sum(q) * TicksPerMs <= RetryMs * TicksPerMs
    <3>1. Sum(q) * TicksPerMs \in Int /\ RetryMs * TicksPerMs \in Int
      BY <2>2, TimerConstantsOK, TicksOf
    <3> QED BY <1>1, <2>3, <3>1 DEF Ticks
  <2>5. Sum(q) <= RetryMs
    BY <2>2, <2>4, TimerConstantsOK, TicksOf
  <2> QED BY <2>2, <2>5, TimerConstantsOK
<1> QED BY <1>1, <1>3, <1>4

(* What is to show of a step.                                              *)
LEMMA StepIInv ==
  ASSUME NEW new \in Seq(Timer), new = list', IsInjective(new),
         rel' \in [Timer -> Nat],
         left' \in [Timer -> Ticks],
         NEW d, d = [q \in DOMAIN new |-> rel'[new[q]]],
         \A q \in 1..Len(new) : SumOf(d, q) * TicksPerMs <= left'[new[q]]
  PROVE  IInv'
<1>1. DOMAIN new = 1..Len(new)
  BY LenProperties
<1>2. d = Delays'
  BY DEF Delays
<1>3. NeverLate'
  BY <1>1, <1>2 DEF NeverLate, Sum
<1>4. TypeOK'
  BY DEF TypeOK
<1> QED BY <1>3, <1>4 DEF IInv

(* Sums that start alike are equal.                                        *)
LEMMA SumsAlike ==
  ASSUME NEW l \in Seq(Nat), NEW m \in Seq(Nat), NEW k \in Nat,
         k <= Len(l), k <= Len(m), \A i \in 1..k : m[i] = l[i]
  PROVE  \A q \in 0..k : SumOf(m, q) = SumOf(l, q)
<1>1. Len(l) \in Nat /\ Len(m) \in Nat
  BY LenProperties
<1>2. SumOf(m, 0) = 0 /\ SumOf(l, 0) = 0
  BY SumSteps
<1>3. ASSUME NEW q \in 0..k
      PROVE  SumOf(m, q) = SumOf(l, q)
  <2>1. PICK z : z = 0
    OBVIOUS
  <2>2. /\ z \in 0..Len(l) /\ z \in 0..Len(m) /\ q \in Nat /\ z + q = q
        /\ z + q <= Len(l) /\ z + q <= Len(m)
        /\ \A i \in 1..q : m[z + i] = l[z + i]
    <3>1. \A i \in 1..q : i \in 1..k /\ z + i = i
      BY <2>1
    <3>2. \A i \in 1..q : m[z + i] = l[z + i]
      BY <3>1
    <3> QED BY <1>1, <2>1, <3>2
  <2>3. SumOf(m, z + q) - SumOf(m, z) = SumOf(l, z + q) - SumOf(l, z)
    BY <2>2, SumShift
  <2>4. q \in 0..Len(l) /\ q \in 0..Len(m)
    BY <1>1
  <2>5. SumOf(m, q) \in Int /\ SumOf(l, q) \in Int
    BY <2>4, SumSteps
  <2>6. SumOf(m, q) - 0 = SumOf(l, q) - 0
    BY ONLY <1>2, <2>1, <2>2, <2>3
  <2> QED BY <2>5, <2>6
<1> QED BY <1>3

(* The sums before a new timer are kept, its own is its delay, and those   *)
(* after it are what they were for the same timers.                        *)
Inserted(l, m, n, p, D) ==
  /\ l \in Seq(Nat) /\ m \in Seq(Nat) /\ n \in Nat /\ p \in 0..n /\ D \in Nat
  /\ Len(l) = n /\ Len(m) = n + 1
  /\ \A q \in 1..p : m[q] = l[q]
  /\ m[p + 1] = D - SumOf(l, p)
  /\ p < n => m[p + 2] = SumOf(l, p + 1) - D
  /\ \A q \in 1..n : q > p + 1 => m[q + 1] = l[q]

LEMMA InsertSums ==
  ASSUME NEW l, NEW m, NEW n, NEW p, NEW D, Inserted(l, m, n, p, D)
  PROVE  /\ \A q \in 0..p : SumOf(m, q) = SumOf(l, q)
         /\ SumOf(m, p + 1) = D
         /\ \A q \in 1..n : q > p => SumOf(m, q + 1) = SumOf(l, q)
<1> /\ l \in Seq(Nat) /\ m \in Seq(Nat) /\ n \in Nat /\ p \in 0..n /\ D \in Nat
    /\ Len(l) = n /\ Len(m) = n + 1
    /\ \A q \in 1..p : m[q] = l[q]
    /\ m[p + 1] = D - SumOf(l, p)
    /\ p < n => m[p + 2] = SumOf(l, p + 1) - D
    /\ \A q \in 1..n : q > p + 1 => m[q + 1] = l[q]
  BY DEF Inserted
<1>1. \A q \in 0..p : SumOf(m, q) = SumOf(l, q)
  <2>1. p \in Nat /\ p <= Len(l) /\ p <= Len(m)
    OBVIOUS
  <2> QED BY <2>1, SumsAlike
<1>2. SumOf(m, p + 1) = D
  <2>1. PICK q \in 1..Len(m) : q = p + 1 /\ q - 1 = p
    OBVIOUS
  <2>2. SumOf(m, q) = SumOf(m, q - 1) + m[q]
    BY SumSteps
  <2>3. SumOf(l, p) \in Int
    BY SumSteps
  <2> QED BY <1>1, <2>1, <2>2, <2>3
<1>3. ASSUME p < n
      PROVE  SumOf(m, p + 2) = SumOf(l, p + 1)
  <2>1. PICK q \in 1..Len(m) : q = p + 2 /\ q - 1 = p + 1
    BY <1>3
  <2>2. SumOf(m, q) = SumOf(m, q - 1) + m[q]
    BY SumSteps
  <2>3. SumOf(l, p + 1) \in Int
    BY <1>3, SumSteps
  <2> QED BY <1>2, <1>3, <2>1, <2>2, <2>3
<1>4. ASSUME NEW q \in 1..n, q > p
      PROVE  SumOf(m, q + 1) = SumOf(l, q)
  <2>1. PICK a, c, k : a = p + 1 /\ c = p + 2 /\ k = q - (p + 1)
    OBVIOUS
  <2>2. /\ a \in 0..Len(l) /\ c \in 0..Len(m) /\ k \in Nat
        /\ a + k <= Len(l) /\ c + k <= Len(m) /\ a + k = q /\ c + k = q + 1 /\ p < n
    BY <1>4, <2>1
  <2>3. ASSUME NEW i \in 1..k
        PROVE  m[c + i] = l[a + i]
    <3>1. a + i \in 1..n /\ a + i > p + 1 /\ (a + i) + 1 = c + i
      BY <2>1, <2>2
    <3> QED BY <3>1
  <2>4. SumOf(m, c + k) - SumOf(m, c) = SumOf(l, a + k) - SumOf(l, a)
    BY <2>2, <2>3, SumShift
  <2>5. SumOf(m, c) = SumOf(l, a)
    BY <1>3, <2>1, <2>2
  <2>6. q + 1 \in 0..Len(m) /\ q \in 0..Len(l)
    OBVIOUS
  <2>7. /\ SumOf(l, a) \in Int /\ SumOf(m, q + 1) \in Int /\ SumOf(l, q) \in Int
    BY <2>2, <2>6, SumSteps
  <2>8. SumOf(m, q + 1) - SumOf(l, a) = SumOf(l, q) - SumOf(l, a)
    BY ONLY <2>2, <2>4, <2>5
  <2> QED BY <2>7, <2>8
<1> QED BY <1>1, <1>2, <1>3, <1>4

(* bano_timer_add gives the difference to the right neighbour, so that the *)
(* sums of the timers behind the new one stay.                             *)
LEMMA AddStep ==
  ASSUME IInv, NEW t \in Timer, Add(t)
  PROVE  IInv'
<1>1. PICK D, p, n, l : D = Delay(t) /\ p = Place(D) /\ n = Len(list) /\ l = Delays
  OBVIOUS
<1>2. D \in Nat /\ D * TicksPerMs \in Ticks
  BY <1>1, DelayFacts
<1>3. /\ p \in 0..n /\ (\A q \in 1..p : SumOf(l, q) <= D) /\ (p < n => SumOf(l, p + 1) > D)
  BY <1>1, <1>2, PlaceFacts DEF Sum
<1>4. l \in Seq(Nat) /\ Len(l) = n /\ n \in Nat /\ DOMAIN list = 1..n
  BY <1>1, ListFacts
<1>5. \A q \in 1..n : list[q] \in Timer /\ l[q] = rel[list[q]] /\ l[q] \in Nat
  BY <1>1, ListFacts
<1>6. \A q, k \in 1..n : list[q] = list[k] => q = k
  BY <1>1, ListFacts
<1>7. \A q \in 1..n : SumOf(l, q) * TicksPerMs <= left[list[q]]
  BY <1>1, ListFacts DEF Sum
<1>8. \A q \in 0..n : SumOf(l, q) \in Nat
  BY <1>1, ListFacts DEF Sum
<1>9. /\ t \notin ToSet(list)
      /\ list' = InsertAt(list, p + 1, t)
      /\ left' = [left EXCEPT ![t] = D * TicksPerMs]
  BY <1>1 DEF Add
<1>10. rel' = [u \in Timer |-> CASE u = t -> D - SumOf(l, p)
                                  [] p < n /\ u = list[p + 1] -> SumOf(l, p + 1) - D
                                  [] OTHER -> rel[u]]
  BY <1>1 DEF Add, RelArmed, Sum
<1>11. /\ list \in Seq(Timer) /\ IsInjective(list)
       /\ rel \in [Timer -> Nat] /\ left \in [Timer -> Ticks]
  BY DEF IInv, TypeOK
<1>12. \A q \in 1..n : list[q] # t
  BY <1>4, <1>9 DEF ToSet
<1>13. SumOf(l, p) <= D /\ SumOf(l, p) \in Nat
  <2>1. SumOf(l, 0) = 0
    BY <1>4, SumSteps
  <2> QED BY <1>2, <1>3, <1>4, <1>8, <2>1
<1>14. p < n => p + 1 \in 1..n /\ SumOf(l, p + 1) - D \in Nat
  BY <1>2, <1>3, <1>4, <1>8
<1>15. rel' \in [Timer -> Nat]
  <2>1. D - SumOf(l, p) \in Nat
    BY <1>2, <1>13
  <2> QED BY <1>10, <1>11, <1>14, <2>1
<1>16. left' \in [Timer -> Ticks]
  BY <1>2, <1>9, <1>11
<1>17. left'[t] = D * TicksPerMs /\ \A q \in 1..n : left'[list[q]] = left[list[q]]
  BY <1>5, <1>9, <1>11, <1>12
<1>18. PICK new : new = InsertAt(list, p + 1, t)
  OBVIOUS
<1>19. PICK T : T = Timer
  OBVIOUS
<1>20. list \in Seq(T) /\ t \in T /\ p + 1 \in 1..(Len(list) + 1)
  BY <1>1, <1>3, <1>4, <1>11, <1>19
<1>21. /\ new \in Seq(Timer)
       /\ \A i \in 1..(n + 1) : /\ i < p + 1 => new[i] = list[i]
                                /\ i = p + 1 => new[i] = t
                                /\ i > p + 1 => new[i] = list[i - 1]
  <2>1. PICK k, s : k = p + 1 /\ s = list
    OBVIOUS
  <2>2. s \in Seq(T) /\ t \in T /\ k \in 1..(Len(s) + 1)
    BY <1>20, <2>1
  <2>3. InsertAt(s, k, t) \in Seq(T)
    BY <2>2, InsertAtIndex
  <2>4. \A i \in 1..(Len(s) + 1) : /\ i < k => InsertAt(s, k, t)[i] = s[i]
                                   /\ i = k => InsertAt(s, k, t)[i] = t
                                   /\ i > k => InsertAt(s, k, t)[i] = s[i - 1]
    BY ONLY <2>2, InsertAtIndex
  <2> QED BY <1>1, <1>18, <1>19, <2>1, <2>3, <2>4
<1>22. IsInjective(new)
  BY <1>9, <1>11, <1>18, <1>20, InsertAtElements
<1>23. DOMAIN new = 1..(n + 1) /\ Len(new) = n + 1
  <2>1. DOMAIN new = 1..(n + 1)
    BY <1>1, <1>18, <1>20, InsertAtIndex
  <2> QED BY <1>4, <1>21, <2>1, LenProperties
<1>24. /\ \A q \in 1..p : new[q] = list[q] /\ q \in 1..n
       /\ new[p + 1] = t
       /\ \A q \in 1..n : q > p => new[q + 1] = list[q]
  <2>1. \A q \in 1..p : q \in 1..(n + 1) /\ q < p + 1 /\ q \in 1..n
    BY <1>3, <1>4
  <2>2. p + 1 \in 1..(n + 1)
    BY <1>3, <1>4
  <2>3. \A q \in 1..n : q > p => q + 1 \in 1..(n + 1) /\ q + 1 > p + 1 /\ (q + 1) - 1 = q
    BY <1>3, <1>4
  <2> QED BY <1>21, <2>1, <2>2, <2>3
<1>25. PICK d : d = [q \in DOMAIN new |-> rel'[new[q]]]
  OBVIOUS
<1>26. d \in Seq(Nat) /\ Len(d) = n + 1 /\ \A q \in 1..(n + 1) : d[q] = rel'[new[q]]
  <2>1. PICK r : r = rel'
    OBVIOUS
  <2>2. new \in Seq(Timer) /\ r \in [Timer -> Nat] /\ d = [q \in DOMAIN new |-> r[new[q]]]
    BY <1>15, <1>21, <1>25, <2>1
  <2>3. d \in Seq(Nat) /\ Len(d) = Len(new) /\ \A q \in 1..Len(new) : d[q] = r[new[q]]
    BY <2>2, DelaysSeq
  <2> QED BY <1>23, <2>1, <2>3
<1>27. \A q \in 1..p : d[q] = l[q]
  <2>1. SUFFICES ASSUME NEW q \in 1..p
                 PROVE  d[q] = l[q]
    OBVIOUS
  <2>2. q \in 1..n /\ q \in 1..(n + 1) /\ q # p + 1
    BY <1>3, <1>4
  <2>3. d[q] = rel'[list[q]]
    BY <1>24, <1>26, <2>2
  <2>4. p < n => list[q] # list[p + 1]
    BY <1>6, <1>14, <2>2
  <2>5. rel'[list[q]] = rel[list[q]]
    BY <1>5, <1>10, <1>12, <2>2, <2>4
  <2> QED BY <1>5, <2>2, <2>3, <2>5
<1>28. d[p + 1] = D - SumOf(l, p)
  <2>1. p + 1 \in 1..(n + 1)
    BY <1>3, <1>4
  <2>2. d[p + 1] = rel'[t]
    BY <1>24, <1>26, <2>1
  <2>3. p < n => list[p + 1] # t
    BY <1>12, <1>14
  <2>4. rel'[t] = D - SumOf(l, p)
    BY <1>10, <2>3
  <2> QED BY <2>2, <2>4
<1>29. ASSUME p < n
       PROVE  d[p + 2] = SumOf(l, p + 1) - D
  <2>1. p + 2 \in 1..(n + 1) /\ p + 1 > p /\ (p + 1) + 1 = p + 2
    BY <1>3, <1>4, <1>29
  <2>2. new[p + 2] = list[p + 1] /\ list[p + 1] # t /\ list[p + 1] \in Timer
    BY <1>5, <1>12, <1>14, <1>24, <1>29, <2>1
  <2>3. d[p + 2] = rel'[list[p + 1]]
    BY <1>26, <2>1, <2>2
  <2> QED BY <1>10, <1>29, <2>2, <2>3
<1>30. ASSUME NEW q \in 1..n, q > p + 1
       PROVE  d[q + 1] = l[q]
  <2>1. q + 1 \in 1..(n + 1) /\ q > p /\ q # p + 1
    BY <1>3, <1>4, <1>30
  <2>2. d[q + 1] = rel'[list[q]]
    BY <1>24, <1>26, <2>1
  <2>3. p < n => list[q] # list[p + 1]
    BY <1>6, <1>14, <2>1
  <2>4. rel'[list[q]] = rel[list[q]]
    BY <1>5, <1>10, <1>12, <2>3
  <2> QED BY <1>5, <2>2, <2>4
<1>31. /\ \A q \in 0..p : SumOf(d, q) = SumOf(l, q)
       /\ SumOf(d, p + 1) = D
       /\ \A q \in 1..n : q > p => SumOf(d, q + 1) = SumOf(l, q)
  <2>1. l \in Seq(Nat) /\ d \in Seq(Nat) /\ n \in Nat /\ p \in 0..n /\ D \in Nat
    BY <1>2, <1>3, <1>4, <1>26
  <2>2. Len(l) = n /\ Len(d) = n + 1
    BY <1>4, <1>26
  <2>3. \A q \in 1..n : q > p + 1 => d[q + 1] = l[q]
    BY <1>30
  <2>4. Inserted(l, d, n, p, D)
    BY ONLY <2>1, <2>2, <2>3, <1>27, <1>28, <1>29 DEF Inserted
  <2> QED BY <2>4, InsertSums
<1>32. ASSUME NEW q \in 1..Len(new)
       PROVE  SumOf(d, q) * TicksPerMs <= left'[new[q]]
  <2>1. CASE q <= p
    <3>1. q \in 1..n /\ q \in 1..p /\ q \in 0..p
      BY <1>3, <1>4, <1>23, <2>1
    <3> QED BY <1>7, <1>17, <1>24, <1>31, <3>1
  <2>2. CASE q = p + 1
    <3>1. D * TicksPerMs \in Int
      BY <1>2, TicksOf
    <3> QED BY <1>17, <1>24, <1>31, <2>2, <3>1
  <2>3. CASE q > p + 1
    <3>1. PICK k \in 1..n : k = q - 1 /\ k > p /\ k + 1 = q
      BY <1>3, <1>4, <1>23, <2>3
    <3>2. new[q] = list[k] /\ SumOf(d, q) = SumOf(l, k)
      BY <1>24, <1>31, <3>1
    <3> QED BY <1>7, <1>17, <3>1, <3>2
  <2> QED BY <1>3, <1>4, <1>23, <2>1, <2>2, <2>3
<1> QED
  BY <1>9, <1>15, <1>16, <1>18, <1>21, <1>22, <1>25, <1>32, StepIInv

(* bano_timer_del: the sums before the timer are kept, those after it lose *)
(* its delay.                                                              *)
LEMMA DelStep ==
  ASSUME IInv, NEW t \in Timer, Del(t)
  PROVE  IInv'
<1>1. PICK n, l : n = Len(list) /\ l = Delays
  OBVIOUS
<1>2. l \in Seq(Nat) /\ Len(l) = n /\ n \in Nat /\ DOMAIN list = 1..n
  BY <1>1, ListFacts
<1>3. \A q \in 1..n : list[q] \in Timer /\ l[q] = rel[list[q]] /\ l[q] \in Nat
  BY <1>1, ListFacts
<1>4. \A q, k \in 1..n : list[q] = list[k] => q = k
  BY <1>1, ListFacts
<1>5. \A q \in 1..n : SumOf(l, q) * TicksPerMs <= left[list[q]]
  BY <1>1, ListFacts DEF Sum
<1>6. \A q \in 0..n : SumOf(l, q) \in Nat
  BY <1>1, ListFacts DEF Sum
<1>7. PICK j \in 1..n : list[j] = t /\ list' = RemoveAt(list, j)
  BY <1>2 DEF Del
<1>8. rel' = [rel EXCEPT ![t] = 0] /\ left' = [left EXCEPT ![t] = 0]
  BY DEF Del
<1>9. /\ list \in Seq(Timer) /\ IsInjective(list)
      /\ rel \in [Timer -> Nat] /\ left \in [Timer -> Ticks]
  BY DEF IInv, TypeOK
<1>10. rel' \in [Timer -> Nat] /\ left' \in [Timer -> Ticks]
  <2>1. 0 \in Ticks
    BY TimerConstantsOK, TicksOf DEF Ticks
  <2> QED BY <1>8, <1>9, <2>1
<1>11. PICK new : new = RemoveAt(list, j)
  OBVIOUS
<1>12. /\ new \in Seq(Timer) /\ IsInjective(new) /\ Len(new) = n - 1
       /\ \A i \in 1..(n - 1) : new[i] = IF i < j THEN list[i] ELSE list[i + 1]
  <2>1. PICK T, s : T = Timer /\ s = list
    OBVIOUS
  <2>2. s \in Seq(T) /\ j \in DOMAIN s /\ IsInjective(s)
    BY <1>2, <1>9, <2>1
  <2>3. RemoveAt(s, j) \in Seq(T) /\ IsInjective(RemoveAt(s, j))
    BY <2>2, RemoveAtInjective
  <2>4. Len(RemoveAt(s, j)) = Len(s) - 1
    BY <2>2, RemoveAtElements
  <2>5. \A i \in 1..(Len(s) - 1) : RemoveAt(s, j)[i] = IF i < j THEN s[i] ELSE s[i + 1]
    BY <2>2, RemoveAtElements
  <2> QED BY <1>1, <1>11, <2>1, <2>3, <2>4, <2>5
<1>13. PICK d : d = [q \in DOMAIN new |-> rel'[new[q]]]
  OBVIOUS
<1>14. d \in Seq(Nat) /\ Len(d) = n - 1 /\ \A q \in 1..(n - 1) : d[q] = rel'[new[q]]
  <2>1. PICK r : r = rel'
    OBVIOUS
  <2>2. new \in Seq(Timer) /\ r \in [Timer -> Nat] /\ d = [q \in DOMAIN new |-> r[new[q]]]
    BY <1>10, <1>12, <1>13, <2>1
  <2>3. d \in Seq(Nat) /\ Len(d) = Len(new) /\ \A q \in 1..Len(new) : d[q] = r[new[q]]
    BY <2>2, DelaysSeq
  <2> QED BY <1>12, <2>1, <2>3
<1>15. \A q \in 1..n : q # j => rel'[list[q]] = l[q] /\ left'[list[q]] = left[list[q]]
  BY <1>3, <1>4, <1>7, <1>8, <1>9
<1>16. \A q \in 1..(n - 1) : d[q] = IF q < j THEN l[q] ELSE l[q + 1]
  <2>1. SUFFICES ASSUME NEW q \in 1..(n - 1)
                 PROVE  d[q] = IF q < j THEN l[q] ELSE l[q + 1]
    OBVIOUS
  <2>2. q \in 1..n /\ q + 1 \in 1..n /\ (q < j => q # j) /\ (~ q < j => q + 1 # j)
    BY <1>2
  <2> QED BY <1>12, <1>14, <1>15, <2>2
<1>17. \A q \in 1..(n - 1) : q < j => SumOf(d, q) = SumOf(l, q)
  <2>1. PICK k \in Nat : k = j - 1
    BY <1>2
  <2>2. k <= Len(l) /\ k <= Len(d) /\ \A i \in 1..k : i \in 1..(n - 1) /\ i < j
    BY <1>2, <1>14, <2>1
  <2>3. \A i \in 1..k : d[i] = l[i]
    BY <1>16, <2>2
  <2>4. \A q \in 0..k : SumOf(d, q) = SumOf(l, q)
    BY <1>2, <1>14, <2>2, <2>3, SumsAlike
  <2>5. \A q \in 1..(n - 1) : q < j => q \in 0..k
    BY <1>2, <2>1
  <2> QED BY <2>4, <2>5
<1>18. ASSUME NEW q \in 1..(n - 1), ~ q < j
       PROVE  SumOf(d, q) \in Int /\ SumOf(d, q) <= SumOf(l, q + 1)
  <2>1. PICK k \in Nat, c \in Int : c = j - 1 /\ k = q - c
    BY <1>2, <1>18
  <2>2. /\ c \in 0..Len(d) /\ j \in 0..Len(l) /\ j + k <= Len(l) /\ c + k <= Len(d)
        /\ c + k = q /\ j + k = q + 1
    BY <1>2, <1>14, <1>18, <2>1
  <2>3. ASSUME NEW i \in 1..k
        PROVE  d[c + i] = l[j + i]
    <3>1. c + i \in 1..(n - 1) /\ ~ (c + i < j) /\ (c + i) + 1 = j + i
      BY <1>2, <2>1, <2>2, <1>14
    <3> QED BY <1>16, <3>1
  <2>4. SumOf(d, c + k) - SumOf(d, c) = SumOf(l, j + k) - SumOf(l, j)
    BY <1>2, <1>14, <2>2, <2>3, SumShift
  <2>5. SumOf(d, q) - SumOf(d, c) = SumOf(l, q + 1) - SumOf(l, j)
    BY <2>2, <2>4
  <2>6. SumOf(d, c) <= SumOf(l, j)
    <3>1. c \in 0..n /\ c <= j
      BY <1>2, <2>1
    <3>2. SumOf(l, c) <= SumOf(l, j)
      BY <1>2, <3>1, <2>2, SumMonotone
    <3>3. SumOf(d, c) = SumOf(l, c)
      <4>1. c = 0 \/ (c \in 1..(n - 1) /\ c < j)
        BY <1>2, <2>1
      <4>2. SumOf(d, 0) = 0 /\ SumOf(l, 0) = 0
        BY <1>2, <1>14, SumSteps
      <4> QED BY <1>17, <4>1, <4>2
    <3> QED BY <3>2, <3>3
  <2>7. SumOf(d, q) \in Int /\ SumOf(d, c) \in Int
    <3>1. q \in 0..Len(d)
      BY <1>2, <1>14
    <3> QED BY <1>14, <2>2, <3>1, SumSteps
  <2>8. q + 1 \in 0..n /\ j \in 0..n
    BY <1>2
  <2>9. SumOf(l, q + 1) \in Int /\ SumOf(l, j) \in Int
    BY <1>6, <2>8
  <2> QED BY <2>5, <2>6, <2>7, <2>9
<1>19. ASSUME NEW q \in 1..Len(new)
       PROVE  SumOf(d, q) * TicksPerMs <= left'[new[q]]
  <2>1. q \in 1..(n - 1) /\ q \in 1..n /\ q + 1 \in 1..n /\ q + 1 \in 0..n
    BY <1>2, <1>12
  <2>2. CASE q < j
    <3>1. new[q] = list[q] /\ q # j /\ SumOf(d, q) = SumOf(l, q)
      BY <1>12, <1>17, <2>1, <2>2
    <3> QED BY <1>5, <1>15, <2>1, <3>1
  <2>3. CASE ~ q < j
    <3>1. new[q] = list[q + 1] /\ q + 1 # j
      BY <1>12, <2>1, <2>3
    <3>2. left'[new[q]] = left[list[q + 1]]
      BY <1>15, <2>1, <3>1
    <3>3. SumOf(d, q) \in Int /\ SumOf(l, q + 1) \in Int /\ SumOf(d, q) <= SumOf(l, q + 1)
      BY <1>6, <1>18, <2>1, <2>3
    <3>4. SumOf(d, q) * TicksPerMs <= SumOf(l, q + 1) * TicksPerMs
      BY <3>3, TicksOf
    <3>5. SumOf(l, q + 1) * TicksPerMs <= left[list[q + 1]]
      BY <1>5, <2>1
    <3>6. SumOf(d, q) * TicksPerMs \in Int /\ SumOf(l, q + 1) * TicksPerMs \in Int
      BY <3>3, TicksOf
    <3>7. left[list[q + 1]] \in Int
      BY <1>3, <1>9, <2>1, TimerConstantsOK DEF Ticks
    <3> QED BY <3>2, <3>4, <3>5, <3>6, <3>7
  <2> QED BY <2>2, <2>3
<1> QED
  BY <1>7, <1>10, <1>11, <1>12, <1>13, <1>19, StepIInv

(* select does not sleep past any timer: the head's delay is the least sum.*)
LEMMA SleepFacts ==
  ASSUME IInv, NEW s \in Ticks, MaySleep(s)
  PROVE  /\ Head(list) = list[1] /\ list[1] \in Timer /\ 1 \in 1..Len(list)
         /\ Remaining(s) \in Nat
         /\ Remaining(s) * TicksPerMs <= Sum(1) * TicksPerMs - s
         /\ \A q \in 1..Len(list) : s <= left[list[q]] /\ Sum(1) <= Sum(q)
         /\ \A q \in 1..Len(list) : (Sum(q) - Sum(1)) * TicksPerMs <= left[list[q]] - s
         /\ \A q \in 1..Len(list) :
              (Sum(q) - Sum(1) + Remaining(s)) * TicksPerMs <= left[list[q]] - s
<1>1. PICK n, l : n = Len(list) /\ l = Delays
  OBVIOUS
<1>2. l \in Seq(Nat) /\ Len(l) = n /\ n \in Nat /\ DOMAIN list = 1..n
  BY <1>1, ListFacts
<1>3. \A q \in 1..n : list[q] \in Timer /\ l[q] = rel[list[q]] /\ l[q] \in Nat
  BY <1>1, ListFacts
<1>4. \A q \in 1..n : SumOf(l, q) * TicksPerMs <= left[list[q]]
  BY <1>1, ListFacts DEF Sum
<1>5. \A q \in 0..n : SumOf(l, q) \in Nat
  BY <1>1, ListFacts DEF Sum
<1>6. list # <<>> /\ s <= rel[Head(list)] * TicksPerMs
  BY DEF MaySleep
<1>7. list \in Seq(Timer) /\ left \in [Timer -> Ticks]
  BY DEF IInv, TypeOK
<1>8. 1 \in 1..n /\ Head(list) = list[1]
  <2>1. n # 0
    BY <1>1, <1>6, <1>7, EmptySeq
  <2> QED BY <1>2, <1>6, <1>7, <2>1, HeadTailProperties
<1>9. SumOf(l, 1) = l[1] /\ l[1] \in Nat /\ l[1] = rel[Head(list)]
  <2>1. SumOf(l, 0) = 0 /\ 1 - 1 = 0
    BY <1>2, SumSteps
  <2>2. SumOf(l, 1) = SumOf(l, 1 - 1) + l[1]
    BY <1>2, <1>8, SumSteps
  <2> QED BY <1>3, <1>8, <2>1, <2>2
<1>10. PICK b, x : b = l[1] /\ x = b * TicksPerMs
  OBVIOUS
<1>11. x \in Nat /\ s \in Nat /\ s <= x
  <2>1. s \in Nat
    BY TimerConstantsOK, TicksOf DEF Ticks
  <2>2. b \in Int /\ b >= 0
    BY <1>9, <1>10
  <2>3. x \in Nat
    BY <1>10, <2>2, TicksOf
  <2>4. x = rel[Head(list)] * TicksPerMs
    BY <1>9, <1>10
  <2> QED BY <1>6, <2>1, <2>3, <2>4
<1>12. PICK r : r = Remaining(s)
  OBVIOUS
<1>13. r \in Nat /\ r * TicksPerMs <= x - s
  <2>1. r = (x - s) \div TicksPerMs /\ x - s \in Nat
    BY <1>9, <1>10, <1>11, <1>12 DEF Remaining
  <2> QED BY <2>1, RoundedDown
<1>14. ASSUME NEW q \in 1..n
       PROVE  /\ SumOf(l, 1) <= SumOf(l, q) /\ s <= left[list[q]]
              /\ (SumOf(l, q) - SumOf(l, 1)) * TicksPerMs <= left[list[q]] - s
              /\ (SumOf(l, q) - SumOf(l, 1) + r) * TicksPerMs <= left[list[q]] - s
  <2>1. 1 \in 0..n /\ q \in 0..n /\ 1 <= q
    BY <1>2, <1>8
  <2>2. SumOf(l, 1) <= SumOf(l, q) /\ SumOf(l, q) \in Nat
    BY <1>2, <1>5, <2>1, SumMonotone
  <2>3. PICK y, z, v : y = SumOf(l, q) /\ z = y * TicksPerMs /\ v = left[list[q]]
    OBVIOUS
  <2>4. y \in Nat /\ b \in Nat /\ b <= y /\ z \in Int /\ x <= z /\ z <= v
    <3>1. b \in Int /\ y \in Int /\ y \in Nat /\ b \in Nat /\ b <= y
      BY <1>9, <1>10, <2>2, <2>3
    <3>2. z \in Int /\ x <= z
      BY <1>10, <2>3, <3>1, TicksOf
    <3> QED BY <1>4, <2>3, <3>1, <3>2
  <2>5. v \in Int
    BY <1>3, <1>7, <2>3, TimerConstantsOK DEF Ticks
  <2>6. (y - b) * TicksPerMs = z - x
    <3>1. y \in Int /\ b \in Int
      BY <2>4
    <3>2. (y - b) * TicksPerMs = y * TicksPerMs - b * TicksPerMs
      BY ONLY <3>1, TicksOf, Zenon
    <3> QED BY ONLY <1>10, <2>3, <3>2
  <2>7. (y - b + r) * TicksPerMs = z - x + r * TicksPerMs
    <3>1. PICK a : a = y - b
      OBVIOUS
    <3>2. a \in Int /\ 0 - r \in Int /\ a - (0 - r) = a + r
      BY <1>9, <1>13, <2>4, <3>1
    <3>3. (a - (0 - r)) * TicksPerMs = a * TicksPerMs - (0 - r) * TicksPerMs
      BY <3>2, TicksOf
    <3>4. (0 - r) * TicksPerMs = 0 * TicksPerMs - r * TicksPerMs
      BY <1>13, TicksOf
    <3>5. 0 * TicksPerMs = 0 /\ r * TicksPerMs \in Int
      BY <1>13, TimerConstantsOK, TicksOf
    <3> QED BY <1>11, <2>4, <2>6, <3>1, <3>2, <3>3, <3>4, <3>5
  <2>8. r * TicksPerMs \in Int
    BY <1>13, TicksOf
  <2> QED BY <1>9, <1>10, <1>11, <1>13, <2>2, <2>3, <2>4, <2>5, <2>6, <2>7, <2>8
<1> QED
  BY <1>1, <1>3, <1>8, <1>9, <1>10, <1>12, <1>13, <1>14 DEF Sum

(* The loop wakes up before the head is due.                               *)
LEMMA WaitStep ==
  ASSUME IInv, NEW s \in Ticks, Wait(s)
  PROVE  IInv'
<1>1. PICK n, l, r : n = Len(list) /\ l = Delays /\ r = Remaining(s)
  OBVIOUS
<1>2. l \in Seq(Nat) /\ Len(l) = n /\ n \in Nat /\ DOMAIN list = 1..n
  BY <1>1, ListFacts
<1>3. \A q \in 1..n : list[q] \in Timer /\ l[q] = rel[list[q]] /\ l[q] \in Nat
  BY <1>1, ListFacts
<1>4. \A q, k \in 1..n : list[q] = list[k] => q = k
  BY <1>1, ListFacts
<1>5. MaySleep(s)
  BY DEF Wait
<1>6. /\ Head(list) = list[1] /\ list[1] \in Timer /\ 1 \in 1..n /\ r \in Nat
      /\ \A q \in 1..n : s <= left[list[q]]
      /\ \A q \in 1..n : (SumOf(l, q) - SumOf(l, 1) + r) * TicksPerMs <= left[list[q]] - s
  BY <1>1, <1>5, SleepFacts DEF Sum
<1>7. /\ rel' = [rel EXCEPT ![list[1]] = r]
      /\ left' = [t \in Timer |-> IF t \in ToSet(list) THEN left[t] - s ELSE 0]
      /\ list' = list
  BY <1>1, <1>6 DEF Wait
<1>8. /\ list \in Seq(Timer) /\ IsInjective(list)
      /\ rel \in [Timer -> Nat] /\ left \in [Timer -> Ticks]
  BY DEF IInv, TypeOK
<1>9. rel' \in [Timer -> Nat]
  BY <1>6, <1>7, <1>8
<1>10. left' \in [Timer -> Ticks]
  <2>1. RetryMs * TicksPerMs \in Nat
    BY TimerConstantsOK, TicksOf
  <2>2. \A t \in ToSet(list) : s <= left[t]
    BY <1>2, <1>6 DEF ToSet
  <2> QED BY <1>7, <1>8, <2>1, <2>2 DEF Ticks
<1>11. PICK d : d = [q \in DOMAIN list |-> rel'[list[q]]]
  OBVIOUS
<1>12. d \in Seq(Nat) /\ Len(d) = n /\ \A q \in 1..n : d[q] = rel'[list[q]]
  <2>1. PICK f, k : f = rel' /\ k = list
    OBVIOUS
  <2>2. k \in Seq(Timer) /\ f \in [Timer -> Nat] /\ d = [q \in DOMAIN k |-> f[k[q]]]
    BY <1>8, <1>9, <1>11, <2>1
  <2>3. d \in Seq(Nat) /\ Len(d) = Len(k) /\ \A q \in 1..Len(k) : d[q] = f[k[q]]
    BY <2>2, DelaysSeq
  <2> QED BY <1>1, <2>1, <2>3
<1>13. d[1] = r /\ \A q \in 1..n : q # 1 => d[q] = l[q]
  <2>1. d[1] = r
    BY <1>6, <1>7, <1>8, <1>12
  <2>2. ASSUME NEW q \in 1..n, q # 1
        PROVE  d[q] = l[q]
    <3>1. list[q] # list[1] /\ list[q] \in Timer
      BY <1>3, <1>4, <1>6, <2>2
    <3> QED BY <1>3, <1>7, <1>8, <1>12, <3>1
  <2> QED BY <2>1, <2>2
<1>14. ASSUME NEW q \in 1..n
       PROVE  SumOf(d, q) = SumOf(l, q) - SumOf(l, 1) + r
  <2>1. SumOf(d, 1) = r
    <3>1. SumOf(d, 0) = 0 /\ 1 - 1 = 0
      BY <1>12, SumSteps
    <3>2. SumOf(d, 1) = SumOf(d, 1 - 1) + d[1]
      BY <1>6, <1>12, SumSteps
    <3> QED BY <1>6, <1>13, <3>1, <3>2
  <2>2. PICK a, k \in Nat : a = 1 /\ k = q - 1
    BY <1>2
  <2>3. /\ a \in 0..Len(l) /\ a \in 0..Len(d) /\ a + k = q /\ a + k <= Len(l) /\ a + k <= Len(d)
    BY <1>2, <1>6, <1>12, <2>2
  <2>4. ASSUME NEW i \in 1..k
        PROVE  d[a + i] = l[a + i]
    <3>1. a + i \in 1..n /\ a + i # 1
      BY <1>2, <2>2, <2>3
    <3> QED BY <1>13, <3>1
  <2>5. SumOf(d, a + k) - SumOf(d, a) = SumOf(l, a + k) - SumOf(l, a)
    BY <1>2, <1>12, <2>3, <2>4, SumShift
  <2>6. SumOf(d, q) - SumOf(d, 1) = SumOf(l, q) - SumOf(l, 1)
    BY <2>2, <2>3, <2>5
  <2>7. q \in 0..Len(d) /\ q \in 0..Len(l)
    BY <1>2, <1>12
  <2>8. SumOf(d, q) \in Int /\ SumOf(l, q) \in Int /\ SumOf(l, 1) \in Int
    BY <1>2, <1>12, <2>2, <2>3, <2>7, SumSteps
  <2> QED BY <1>6, <2>1, <2>6, <2>8
<1>15. ASSUME NEW q \in 1..Len(list)
       PROVE  SumOf(d, q) * TicksPerMs <= left'[list[q]]
  <2>1. left'[list[q]] = left[list[q]] - s
    BY <1>1, <1>2, <1>3, <1>7 DEF ToSet
  <2> QED BY <1>1, <1>6, <1>14, <2>1
<1>16. PICK new : new = list
  OBVIOUS
<1> QED
  BY <1>7, <1>8, <1>9, <1>10, <1>11, <1>15, <1>16, StepIInv

(* The head expires: the delays of the others add up from there.           *)
LEMMA ExpireStep ==
  ASSUME IInv, NEW s \in Ticks, Expire(s)
  PROVE  IInv'
<1>1. PICK n, l : n = Len(list) /\ l = Delays
  OBVIOUS
<1>2. l \in Seq(Nat) /\ Len(l) = n /\ n \in Nat /\ DOMAIN list = 1..n
  BY <1>1, ListFacts
<1>3. \A q \in 1..n : list[q] \in Timer /\ l[q] = rel[list[q]] /\ l[q] \in Nat
  BY <1>1, ListFacts
<1>4. \A q, k \in 1..n : list[q] = list[k] => q = k
  BY <1>1, ListFacts
<1>5. MaySleep(s) /\ list # <<>>
  BY DEF Expire, MaySleep
<1>6. /\ Head(list) = list[1] /\ list[1] \in Timer /\ 1 \in 1..n
      /\ \A q \in 1..n : s <= left[list[q]]
      /\ \A q \in 1..n : (SumOf(l, q) - SumOf(l, 1)) * TicksPerMs <= left[list[q]] - s
  BY <1>1, <1>5, SleepFacts DEF Sum
<1>7. /\ list' = Tail(list)
      /\ rel' = [rel EXCEPT ![list[1]] = 0]
      /\ left' = [t \in Timer |-> IF t \in ToSet(list') THEN left[t] - s ELSE 0]
  BY <1>6 DEF Expire
<1>8. /\ list \in Seq(Timer) /\ IsInjective(list)
      /\ rel \in [Timer -> Nat] /\ left \in [Timer -> Ticks]
  BY DEF IInv, TypeOK
<1>9. rel' \in [Timer -> Nat]
  BY <1>7, <1>8
<1>10. PICK new : new = Tail(list)
  OBVIOUS
<1>11. /\ new \in Seq(Timer) /\ IsInjective(new) /\ ToSet(new) \subseteq ToSet(list)
  <2>1. PICK T : T = Timer
    OBVIOUS
  <2>2. /\ Tail(list) \in Seq(T) /\ IsInjective(Tail(list))
        /\ ToSet(Tail(list)) = ToSet(list) \ {Head(list)}
    BY <1>5, <1>8, <2>1, TailElements
  <2> QED BY <1>10, <2>1, <2>2
<1>12. Len(new) = n - 1 /\ DOMAIN new = 1..(n - 1) /\ \A i \in 1..(n - 1) : new[i] = list[i + 1]
  <2>1. Len(new) = n - 1 /\ \A i \in 1..Len(new) : new[i] = list[i + 1]
    BY <1>1, <1>5, <1>8, <1>10, HeadTailProperties
  <2> QED BY <1>11, <2>1, LenProperties
<1>13. left' \in [Timer -> Ticks]
  <2>1. RetryMs * TicksPerMs \in Nat
    BY TimerConstantsOK, TicksOf
  <2>2. \A t \in ToSet(list') : s <= left[t]
    BY <1>2, <1>6, <1>7, <1>10, <1>11 DEF ToSet
  <2> QED BY <1>7, <1>8, <2>1, <2>2 DEF Ticks
<1>14. PICK d : d = [q \in DOMAIN new |-> rel'[new[q]]]
  OBVIOUS
<1>15. d \in Seq(Nat) /\ Len(d) = n - 1 /\ \A q \in 1..(n - 1) : d[q] = rel'[new[q]]
  <2>1. PICK f : f = rel'
    OBVIOUS
  <2>2. f \in [Timer -> Nat] /\ d = [q \in DOMAIN new |-> f[new[q]]]
    BY <1>9, <1>14, <2>1
  <2>3. d \in Seq(Nat) /\ Len(d) = Len(new) /\ \A q \in 1..Len(new) : d[q] = f[new[q]]
    BY <1>11, <2>2, DelaysSeq
  <2> QED BY <1>12, <2>1, <2>3
<1>16. ASSUME NEW q \in 1..(n - 1)
       PROVE  d[q] = l[q + 1]
  <2>1. q + 1 \in 1..n /\ q + 1 # 1
    BY <1>2
  <2>2. list[q + 1] # list[1] /\ list[q + 1] \in Timer
    BY <1>3, <1>4, <1>6, <2>1
  <2> QED BY <1>3, <1>7, <1>8, <1>12, <1>15, <2>1, <2>2
<1>17. ASSUME NEW q \in 1..(n - 1)
       PROVE  SumOf(d, q) = SumOf(l, q + 1) - SumOf(l, 1)
  <2>1. PICK a, c : a = 1 /\ c = 0
    OBVIOUS
  <2>2. /\ a \in 0..Len(l) /\ c \in 0..Len(d) /\ q \in Nat /\ a + q = q + 1 /\ c + q = q
        /\ a + q <= Len(l) /\ c + q <= Len(d)
    BY <1>2, <1>15, <2>1
  <2>3. ASSUME NEW i \in 1..q
        PROVE  d[c + i] = l[a + i]
    <3>1. i \in 1..(n - 1) /\ c + i = i /\ a + i = i + 1
      BY <1>2, <2>1
    <3> QED BY <1>16, <3>1
  <2>4. SumOf(d, c + q) - SumOf(d, c) = SumOf(l, a + q) - SumOf(l, a)
    BY <1>2, <1>15, <2>2, <2>3, SumShift
  <2>5. SumOf(d, c) = 0
    BY <1>15, <2>1, SumSteps
  <2>6. SumOf(d, q) - 0 = SumOf(l, q + 1) - SumOf(l, 1)
    BY <2>1, <2>2, <2>4, <2>5
  <2>7. q \in 0..Len(d)
    BY <1>2, <1>15
  <2>8. SumOf(d, q) \in Int
    BY <1>15, <2>7, SumSteps
  <2> QED BY <2>6, <2>8
<1>18. ASSUME NEW q \in 1..Len(new)
       PROVE  SumOf(d, q) * TicksPerMs <= left'[new[q]]
  <2>1. q \in 1..(n - 1) /\ q + 1 \in 1..n /\ q \in DOMAIN new
    BY <1>2, <1>12
  <2>2. new[q] = list[q + 1] /\ new[q] \in Timer /\ new[q] \in ToSet(list')
    BY <1>3, <1>7, <1>10, <1>12, <2>1 DEF ToSet
  <2>3. left'[new[q]] = left[list[q + 1]] - s
    BY <1>7, <2>2
  <2> QED BY <1>6, <1>17, <2>1, <2>3
<1> QED
  BY <1>7, <1>9, <1>10, <1>11, <1>13, <1>14, <1>18, StepIInv
-----------------------------------------------------------------------------
LEMMA Invariance == Spec => []IInv
<1>1. IInv /\ [Next]_vars => IInv'
  <2> SUFFICES ASSUME IInv, [Next]_vars
               PROVE  IInv'
    OBVIOUS
  <2>1. CASE UNCHANGED vars
    BY <2>1 DEF vars, IInv, TypeOK, NeverLate, Sum, Delays
  <2>2. ASSUME NEW t \in Timer, Add(t)
        PROVE  IInv'
    BY <2>2, AddStep
  <2>3. ASSUME NEW t \in IoTimer, Del(t)
        PROVE  IInv'
    BY <2>3, DelStep DEF Timer
  <2>4. ASSUME NEW s \in Ticks, Wait(s)
        PROVE  IInv'
    BY <2>4, WaitStep
  <2>5. ASSUME NEW s \in Ticks, Expire(s)
        PROVE  IInv'
    BY <2>5, ExpireStep
  <2> QED BY <2>1, <2>2, <2>3, <2>4, <2>5 DEF Next
<1> QED BY InitIInv, <1>1, PTL DEF Spec

(***************************************************************************)
(* bano_timer_add, bano_timer_del and bano_timer_update never let the      *)
(* delays of the list add up to more than the time a timer was armed for:  *)
(* no io is retransmitted later than BANO_RETRY_MS after it was sent,      *)
(* whatever was inserted, deleted or rounded before it.                    *)
(***************************************************************************)
THEOREM NeverLateAlways == Spec => []NeverLate
<1>1. IInv => NeverLate
  BY DEF IInv
<1> QED BY <1>1, Invariance, PTL

(* Steps of the list are steps of the queue.                               *)
LEMMA QueueStep ==
  ASSUME IInv, Next
  PROVE  Queue!Next
<1>1. list \in Seq(Timer) /\ left \in [Timer -> Ticks]
  BY DEF IInv, TypeOK
<1>2. Queue!Timer = Timer /\ \A q : Queue!ToSet(q) = ToSet(q)
  BY DEF Queue!Timer, Timer, Queue!ToSet, ToSet
<1> /\ \A q, p : Queue!RemoveAt(q, p) = RemoveAt(q, p)
    /\ \A q, p, t : Queue!InsertAt(q, p, t) = InsertAt(q, p, t)
  BY DEF Queue!RemoveAt, RemoveAt, Queue!InsertAt, InsertAt
<1>3. ASSUME NEW t \in IoTimer, Add(t)
      PROVE  Queue!ArmIo(t)
  <2>1. PICK p : p = Place(RetryMs)
    OBVIOUS
  <2>2. Delay(t) = RetryMs /\ RetryMs \in Nat /\ t \in Timer
    BY DelayFacts, TimerConstantsOK DEF Timer
  <2>3. p = Len(list)
    BY <2>1, <2>2, PlaceFacts
  <2>4. /\ t \notin ToSet(list) /\ list' = InsertAt(list, p + 1, t)
        /\ left' = [left EXCEPT ![t] = RetryMs * TicksPerMs]
    BY <1>3, <2>1, <2>2 DEF Add
  <2>5. InsertAt(list, Len(list) + 1, t) = Append(list, t)
    <3>1. PICK T, s : T = Timer /\ s = list
      OBVIOUS
    <3>2. s \in Seq(T) /\ t \in T
      BY <1>1, <2>2, <3>1
    <3>3. InsertAt(s, Len(s) + 1, t) = Append(s, t)
      BY <3>2, InsertAtEnd
    <3> QED BY <3>1, <3>3
  <2> QED BY <1>2, <2>3, <2>4, <2>5 DEF Queue!ArmIo
<1>4. ASSUME Add(LoopTimer)
      PROVE  Queue!ArmLoop
  <2>1. PICK p : p = Place(LoopMs)
    OBVIOUS
  <2>2. Delay(LoopTimer) = LoopMs /\ LoopMs \in Nat /\ Len(list) \in Nat
    BY <1>1, TimerConstantsOK, LenProperties DEF Delay
  <2>3. p \in 0..Len(list)
    BY <2>1, <2>2, PlaceFacts
  <2>4. /\ LoopTimer \notin ToSet(list) /\ list' = InsertAt(list, p + 1, LoopTimer)
        /\ left' = [left EXCEPT ![LoopTimer] = LoopMs * TicksPerMs]
    BY <1>4, <2>1, <2>2 DEF Add
  <2>5. p + 1 \in 1..(Len(list) + 1)
    BY <2>2, <2>3
  <2> QED BY <1>2, <2>4, <2>5 DEF Queue!ArmLoop
<1>5. ASSUME NEW t \in IoTimer, Del(t)
      PROVE  Queue!Cancel(t)
  BY <1>5 DEF Del, Queue!Cancel
<1>6. ASSUME NEW s \in Ticks, Wait(s) \/ Expire(s)
      PROVE  Queue!Sleep(s)
  <2>1. MaySleep(s) /\ list # <<>>
    BY <1>6 DEF Wait, Expire, MaySleep
  <2>2. \A t \in ToSet(list) : s <= left[t]
    BY <2>1, SleepFacts, ListFacts DEF ToSet
  <2>3. list' \in {list, Tail(list)}
    BY <1>6 DEF Wait, Expire
  <2>4. left' = [t \in Timer |-> IF t \in ToSet(list') THEN left[t] - s ELSE 0]
    BY <1>6 DEF Wait, Expire
  <2> QED BY <1>2, <2>1, <2>2, <2>3, <2>4 DEF Queue!Sleep
<1>7. CASE \E t \in Timer : Add(t)
  BY <1>3, <1>4, <1>7 DEF Timer, Queue!Next
<1>8. CASE \E t \in IoTimer : Del(t)
  BY <1>5, <1>8 DEF Queue!Next
<1>9. CASE \E s \in Ticks : Wait(s) \/ Expire(s)
  BY <1>6, <1>9 DEF Ticks, Queue!Next
<1> QED BY <1>7, <1>8, <1>9 DEF Next

(***************************************************************************)
(* The timers implement TimerQueue: an io's timer goes last whatever the   *)
(* list holds, because no sum exceeds BANO_RETRY_MS, and select never      *)
(* sleeps past a timer, because the head's delay is the least of the sums. *)
(***************************************************************************)
THEOREM TimersImplementQueue == Spec => ImplementsQueue
<1>1. Init => Queue!Init
  BY DEF Init, Queue!Init, Queue!Timer, Timer
<1>2. IInv /\ [Next]_vars => [Queue!Next]_<<list, left>>
  BY QueueStep DEF vars
<1> QED BY <1>1, <1>2, Invariance, PTL DEF Spec, ImplementsQueue, Queue!Spec
-----------------------------------------------------------------------------
(* The pointers of the items of a list, from the first to the last: only   *)
(* the prev of the item that bano_list_add_before inserted may be missing. *)
Linked(q) ==
  \A k \in 1..Len(q) :
    /\ next[q[k]] = IF k < Len(q) THEN q[k + 1] ELSE Null
    /\ \/ prev[q[k]] = IF k > 1 THEN q[k - 1] ELSE Null
       \/ q[k] = LoopItem /\ prev[q[k]] = Null

(* The list holds q, and nothing else is allocated.                        *)
Holds(q) ==
  /\ next \in [Item -> Item \cup {Null, Freed}]
  /\ prev \in [Item -> Item \cup {Null, Freed}]
  /\ q \in Seq(Item) /\ IsInjective(q)
  /\ head = IF q = <<>> THEN Null ELSE q[1]
  /\ tail = IF q = <<>> THEN Null ELSE q[Len(q)]
  /\ \A i \in Item \ ToSet(q) : next[i] = Freed
  /\ Linked(q)

LEMMA HoldsFacts ==
  ASSUME NEW q, Holds(q)
  PROVE  /\ Len(q) \in Nat /\ DOMAIN q = 1..Len(q) /\ (q = <<>> <=> Len(q) = 0)
         /\ \A k \in 1..Len(q) : q[k] \in Item /\ q[k] # Null /\ q[k] # Freed
         /\ \A k, j \in 1..Len(q) : q[k] = q[j] => k = j
         /\ \A i \in Item : i \in Used <=> \E k \in 1..Len(q) : q[k] = i
         /\ Used = ToSet(q)
<1>1. q \in Seq(Item) /\ IsInjective(q)
  BY DEF Holds
<1>2. Len(q) \in Nat /\ DOMAIN q = 1..Len(q) /\ \A k \in 1..Len(q) : q[k] \in Item
  BY <1>1, LenProperties
<1>3. q = <<>> <=> Len(q) = 0
  BY <1>1, EmptySeq
<1>4. \A k \in 1..Len(q) : q[k] # Null /\ q[k] # Freed
  BY <1>2, ListConstantsOK
<1>5. \A k, j \in 1..Len(q) : q[k] = q[j] => k = j
  BY <1>1, <1>2 DEF IsInjective
<1>6. ASSUME NEW i \in Item, i \in ToSet(q)
      PROVE  i \in Used
  <2>1. PICK k \in 1..Len(q) : q[k] = i
    BY <1>2, <1>6 DEF ToSet
  <2>2. next[i] = IF k < Len(q) THEN q[k + 1] ELSE Null
    BY <2>1 DEF Holds, Linked
  <2>3. k < Len(q) => k + 1 \in 1..Len(q)
    BY <1>2
  <2> QED BY <1>4, <2>2, <2>3, ListConstantsOK DEF Used
<1>7. \A i \in Item : i \in Used <=> i \in ToSet(q)
  BY <1>6 DEF Holds, Used
<1>8. \A i \in Item : i \in ToSet(q) <=> \E k \in 1..Len(q) : q[k] = i
  BY <1>2 DEF ToSet
<1>9. Used \subseteq Item /\ ToSet(q) \subseteq Item
  BY <1>2 DEF Used, ToSet
<1> QED BY <1>2, <1>3, <1>4, <1>5, <1>7, <1>8, <1>9

(* bano_list_add_tail.                                                     *)
LEMMA AddTailStep ==
  ASSUME NEW q, Holds(q), NEW i \in Item, AddTail(i),
         NEW s, s = Append(q, i)
  PROVE  Holds(s)' /\ i \notin ToSet(q)
<1>1. PICK n : n = Len(q)
  OBVIOUS
<1>2. /\ n \in Nat /\ DOMAIN q = 1..n /\ (q = <<>> <=> n = 0)
      /\ \A k \in 1..n : q[k] \in Item /\ q[k] # Null /\ q[k] # Freed
      /\ \A k, j \in 1..n : q[k] = q[j] => k = j
  BY <1>1, HoldsFacts
<1>3. /\ next \in [Item -> Item \cup {Null, Freed}]
      /\ prev \in [Item -> Item \cup {Null, Freed}]
      /\ q \in Seq(Item) /\ IsInjective(q)
      /\ \A j \in Item \ ToSet(q) : next[j] = Freed
  BY DEF Holds
<1>4. head = (IF n = 0 THEN Null ELSE q[1]) /\ tail = (IF n = 0 THEN Null ELSE q[n])
  BY <1>1, <1>2 DEF Holds
<1>5. \A k \in 1..n : /\ next[q[k]] = IF k < n THEN q[k + 1] ELSE Null
                      /\ \/ prev[q[k]] = IF k > 1 THEN q[k - 1] ELSE Null
                         \/ q[k] = LoopItem /\ prev[q[k]] = Null
  BY <1>1 DEF Holds, Linked
<1>6. i \notin ToSet(q) /\ \A k \in 1..n : q[k] # i
  <2>1. next[i] = Freed
    BY DEF AddTail
  <2>2. i \notin Used
    BY <2>1 DEF Used
  <2> QED BY <1>1, <2>2, HoldsFacts
<1>7. /\ n = 0 => /\ tail = Null
                  /\ next' = [next EXCEPT ![i] = Null]
                  /\ head' = i
      /\ n > 0 => /\ tail = q[n] /\ tail # Null /\ tail \in Item /\ n \in 1..n
                  /\ next' = [[next EXCEPT ![i] = Null] EXCEPT ![tail] = i]
                  /\ head' = head
      /\ prev' = [prev EXCEPT ![i] = tail]
      /\ tail' = i
  BY <1>2, <1>4 DEF AddTail, Set
<1>8. /\ s \in Seq(Item) /\ IsInjective(s) /\ ToSet(s) = ToSet(q) \cup {i}
  BY <1>3, <1>6, AppendElements
<1>9. Len(s) = n + 1 /\ s[n + 1] = i /\ \A k \in 1..n : s[k] = q[k]
  BY <1>1, <1>3, AppendProperties
<1>10. s # <<>> /\ head' = s[1] /\ tail' = s[Len(s)]
  <2>1. s # <<>>
    BY <1>2, <1>8, <1>9, EmptySeq
  <2>2. n > 0 => 1 \in 1..n
    BY <1>2
  <2> QED BY <1>2, <1>4, <1>7, <1>9, <2>1, <2>2
<1>11. next' \in [Item -> Item \cup {Null, Freed}] /\ prev' \in [Item -> Item \cup {Null, Freed}]
  <2>1. tail \in Item \cup {Null}
    BY <1>2, <1>4, <1>7
  <2> QED BY <1>2, <1>3, <1>7, <2>1
<1>12. \A j \in Item \ ToSet(s) : next'[j] = Freed
  <2>1. SUFFICES ASSUME NEW j \in Item \ ToSet(s)
                 PROVE  next'[j] = Freed
    OBVIOUS
  <2>2. j # i /\ next[j] = Freed /\ j \notin ToSet(q)
    BY <1>3, <1>8
  <2>3. n > 0 => j # tail
    BY <1>2, <1>7, <2>2 DEF ToSet
  <2> QED BY <1>2, <1>3, <1>7, <2>2, <2>3
<1>13. next'[i] = Null
  BY <1>2, <1>3, <1>6, <1>7
<1>14. prev'[i] = tail
  BY <1>3, <1>7
<1>15. ASSUME NEW k \in 1..n
       PROVE  /\ next'[q[k]] = IF k < n THEN q[k + 1] ELSE i
              /\ prev'[q[k]] = prev[q[k]]
  <2>1. q[k] \in Item /\ q[k] # i /\ n > 0
    BY <1>2, <1>6
  <2>2. prev'[q[k]] = prev[q[k]]
    BY <1>3, <1>7, <2>1
  <2>3. CASE k < n
    <3>1. q[k] # tail
      BY <1>2, <1>7, <2>1, <2>3
    <3> QED BY <1>3, <1>5, <1>7, <2>1, <2>2, <2>3, <3>1
  <2>4. CASE k = n
    <3>1. next'[tail] = i
      BY <1>3, <1>7, <2>1
    <3> QED BY <1>7, <2>1, <2>2, <2>4, <3>1
  <2> QED BY <1>2, <2>3, <2>4
<1>16. ASSUME NEW k \in 1..Len(s)
       PROVE  /\ next'[s[k]] = IF k < Len(s) THEN s[k + 1] ELSE Null
              /\ \/ prev'[s[k]] = IF k > 1 THEN s[k - 1] ELSE Null
                 \/ s[k] = LoopItem /\ prev'[s[k]] = Null
  <2>1. CASE k = n + 1
    <3>1. n > 0 => n \in 1..n
      BY <1>2
    <3> QED BY <1>2, <1>4, <1>9, <1>13, <1>14, <2>1, <3>1
  <2>2. CASE k # n + 1
    <3>1. k \in 1..n /\ s[k] = q[k] /\ k < Len(s)
      BY <1>2, <1>9, <2>2
    <3>2. k < n => k + 1 \in 1..n /\ s[k + 1] = q[k + 1]
      BY <1>2, <1>9
    <3>3. k > 1 => k - 1 \in 1..n /\ s[k - 1] = q[k - 1]
      BY <1>2, <1>9, <3>1
    <3>4. next'[s[k]] = s[k + 1]
      BY <1>2, <1>9, <1>15, <3>1, <3>2
    <3> QED BY <1>5, <1>15, <3>1, <3>3, <3>4
  <2> QED BY <2>1, <2>2
<1> QED BY <1>6, <1>8, <1>10, <1>11, <1>12, <1>16 DEF Holds, Linked

(* bano_list_del, of any item but the loop timer's, or of the first.       *)
LEMMA ListDelStep ==
  ASSUME NEW q, Holds(q), NEW p \in 1..Len(q), ListDel(q[p]),
         q[p] = LoopItem => p = 1,
         NEW s, s = RemoveAt(q, p)
  PROVE  Holds(s)'
<1>1. PICK n, i : n = Len(q) /\ i = q[p]
  OBVIOUS
<1>2. /\ n \in Nat /\ DOMAIN q = 1..n /\ (q = <<>> <=> n = 0) /\ p \in 1..n
      /\ \A k \in 1..n : q[k] \in Item /\ q[k] # Null /\ q[k] # Freed
  BY <1>1, HoldsFacts
<1>3. \A k, j \in 1..n : q[k] = q[j] => k = j
  BY <1>1, HoldsFacts
<1>4. /\ next \in [Item -> Item \cup {Null, Freed}]
      /\ prev \in [Item -> Item \cup {Null, Freed}]
      /\ q \in Seq(Item) /\ IsInjective(q)
      /\ \A j \in Item \ ToSet(q) : next[j] = Freed
  BY DEF Holds
<1>5. head = q[1] /\ tail = q[n] /\ 1 \in 1..n /\ n \in 1..n
  BY <1>1, <1>2 DEF Holds
<1>6. \A k \in 1..n : /\ next[q[k]] = IF k < n THEN q[k + 1] ELSE Null
                      /\ \/ prev[q[k]] = IF k > 1 THEN q[k - 1] ELSE Null
                         \/ q[k] = LoopItem /\ prev[q[k]] = Null
  BY <1>1 DEF Holds, Linked
<1>7. /\ i \in Item /\ i # Null
      /\ next[i] = IF p < n THEN q[p + 1] ELSE Null
      /\ prev[i] = IF p > 1 THEN q[p - 1] ELSE Null
  <2>1. p = 1 => ~ (p > 1)
    BY <1>2
  <2> QED BY <1>1, <1>2, <1>6, <2>1
<1>8. /\ p < n => p + 1 \in 1..n /\ q[p + 1] \in Item /\ q[p + 1] # Null
      /\ p > 1 => p - 1 \in 1..n /\ q[p - 1] \in Item /\ q[p - 1] # Null
  BY <1>2
<1>9. /\ head' = IF p > 1 THEN head ELSE next[i]
      /\ tail' = IF p < n THEN tail ELSE prev[i]
  BY <1>1, <1>7, <1>8 DEF ListDel
<1>10. /\ next' = [IF p > 1 THEN [next EXCEPT ![q[p - 1]] = next[i]] ELSE next EXCEPT ![i] = Freed]
       /\ prev' = [IF p < n THEN [prev EXCEPT ![q[p + 1]] = prev[i]] ELSE prev EXCEPT ![i] = Freed]
  BY <1>1, <1>7, <1>8 DEF ListDel, Set
<1>11. /\ s \in Seq(Item) /\ IsInjective(s) /\ ToSet(s) = ToSet(q) \ {i}
  BY <1>1, <1>2, <1>4, RemoveAtInjective
<1>12. Len(s) = n - 1 /\ \A k \in 1..(n - 1) : s[k] = IF k < p THEN q[k] ELSE q[k + 1]
  BY <1>1, <1>2, <1>4, RemoveAtElements
<1>13. next' \in [Item -> Item \cup {Null, Freed}] /\ prev' \in [Item -> Item \cup {Null, Freed}]
  <2>1. next[i] \in Item \cup {Null, Freed} /\ prev[i] \in Item \cup {Null, Freed}
    BY <1>4, <1>7
  <2> QED BY <1>4, <1>10, <2>1
<1>14. ASSUME NEW j \in Item \ ToSet(s)
       PROVE  next'[j] = Freed
  <2>1. CASE j = i
    BY <1>4, <1>7, <1>10, <2>1
  <2>2. CASE j # i
    <3>1. next[j] = Freed /\ j \notin ToSet(q)
      BY <1>4, <1>11, <2>2
    <3>2. p > 1 => j # q[p - 1]
      BY <1>2, <1>8, <3>1 DEF ToSet
    <3> QED BY <1>4, <1>10, <2>2, <3>1, <3>2
  <2> QED BY <2>1, <2>2
<1>15. ASSUME NEW k \in 1..n, k # p
       PROVE  /\ next'[q[k]] = IF p > 1 /\ k = p - 1 THEN next[i] ELSE next[q[k]]
              /\ prev'[q[k]] = IF p < n /\ k = p + 1 THEN prev[i] ELSE prev[q[k]]
  <2>1. q[k] \in Item /\ q[k] # i
    BY <1>1, <1>2, <1>3, <1>15
  <2>2. /\ p > 1 => (q[k] = q[p - 1] <=> k = p - 1)
        /\ p < n => (q[k] = q[p + 1] <=> k = p + 1)
    BY <1>3, <1>8
  <2> QED BY <1>4, <1>10, <2>1, <2>2
<1>16. ASSUME NEW k \in 1..Len(s)
       PROVE  /\ next'[s[k]] = IF k < Len(s) THEN s[k + 1] ELSE Null
              /\ \/ prev'[s[k]] = IF k > 1 THEN s[k - 1] ELSE Null
                 \/ s[k] = LoopItem /\ prev'[s[k]] = Null
  <2>1. k \in 1..(n - 1) /\ k \in 1..n /\ k + 1 \in 1..n
    BY <1>2, <1>12
  <2>2. CASE k < p
    <3>1. s[k] = q[k] /\ k # p /\ ~ (k = p + 1)
      BY <1>2, <1>12, <2>1, <2>2
    <3>2. k > 1 => k - 1 \in 1..(n - 1) /\ k - 1 < p /\ s[k - 1] = q[k - 1]
      BY <1>2, <1>12, <2>1, <2>2
    <3>3. \/ prev'[s[k]] = IF k > 1 THEN s[k - 1] ELSE Null
          \/ s[k] = LoopItem /\ prev'[s[k]] = Null
      BY <1>6, <1>15, <2>1, <3>1, <3>2
    <3>4. CASE k = p - 1
      <4>1. p > 1 /\ next'[s[k]] = next[i]
        BY <1>2, <1>15, <2>1, <3>1, <3>4
      <4>2. k < Len(s) <=> p < n
        BY <1>2, <1>12, <3>4
      <4>3. p < n => k + 1 \in 1..(n - 1) /\ ~ (k + 1 < p) /\ (k + 1) + 1 = p + 1
        BY <1>2, <2>1, <3>4
      <4>4. p < n => s[k + 1] = q[p + 1]
        BY <1>12, <4>3
      <4> QED BY <1>7, <3>3, <4>1, <4>2, <4>4
    <3>5. CASE k # p - 1
      <4>1. k + 1 < p /\ k < Len(s) /\ k < n /\ k + 1 \in 1..(n - 1)
        BY <1>2, <1>12, <2>1, <2>2, <3>5
      <4>2. s[k + 1] = q[k + 1]
        BY <1>12, <4>1
      <4>3. next'[s[k]] = q[k + 1]
        BY <1>6, <1>15, <2>1, <3>1, <3>5, <4>1
      <4> QED BY <3>3, <4>1, <4>2, <4>3
    <3> QED BY <3>4, <3>5
  <2>3. CASE ~ (k < p)
    <3>1. s[k] = q[k + 1] /\ k + 1 # p /\ ~ (k + 1 = p - 1) /\ (k + 1) - 1 = k
      BY <1>2, <1>12, <2>1, <2>3
    <3>2. next'[s[k]] = IF k < Len(s) THEN s[k + 1] ELSE Null
      <4>1. next'[s[k]] = next[q[k + 1]]
        BY <1>15, <2>1, <3>1
      <4>2. k < Len(s) <=> k + 1 < n
        BY <1>2, <1>12
      <4>3. k < Len(s) => k + 1 \in 1..(n - 1) /\ ~ (k + 1 < p)
        BY <1>2, <1>12, <2>1, <2>3
      <4>4. k < Len(s) => s[k + 1] = q[(k + 1) + 1]
        BY <1>12, <4>3
      <4> QED BY <1>6, <2>1, <4>1, <4>2, <4>4
    <3>3. CASE k = p
      <4>1. prev'[s[k]] = prev[i] /\ p < n
        BY <1>2, <1>15, <2>1, <3>1, <3>3
      <4>2. k > 1 => k - 1 \in 1..(n - 1) /\ k - 1 < p
        BY <1>2, <2>1, <3>3
      <4>3. k > 1 => s[k - 1] = q[p - 1]
        BY <1>12, <3>3, <4>2
      <4>4. prev'[s[k]] = IF k > 1 THEN s[k - 1] ELSE Null
        BY <1>7, <3>3, <4>1, <4>3
      <4> QED BY <3>2, <4>4
    <3>4. CASE k # p
      <4>1. prev'[s[k]] = prev[q[k + 1]] /\ k > 1 /\ k + 1 > 1
        BY <1>2, <1>15, <2>1, <2>3, <3>1, <3>4
      <4>2. k - 1 \in 1..(n - 1) /\ ~ (k - 1 < p) /\ (k - 1) + 1 = k
        BY <1>2, <2>1, <2>3, <3>4
      <4>3. s[k - 1] = q[k]
        BY <1>12, <4>2
      <4>4. \/ prev[q[k + 1]] = q[k]
            \/ q[k + 1] = LoopItem /\ prev[q[k + 1]] = Null
        BY <1>6, <2>1, <3>1, <4>1
      <4> QED BY <3>1, <3>2, <4>1, <4>3, <4>4
    <3> QED BY <3>3, <3>4
  <2> QED BY <2>2, <2>3
<1>17. s = <<>> <=> n = 1
  BY <1>2, <1>11, <1>12, EmptySeq
<1>18. head' = IF s = <<>> THEN Null ELSE s[1]
  <2>1. n # 1 => 1 \in 1..(n - 1)
    BY <1>2
  <2>2. CASE p = 1
    <3>1. n # 1 => s[1] = q[2] /\ p < n /\ p + 1 = 2
      BY <1>2, <1>12, <2>1, <2>2
    <3> QED BY <1>2, <1>7, <1>9, <1>17, <2>2, <3>1
  <2>3. CASE p > 1
    <3>1. n # 1 /\ s[1] = q[1]
      BY <1>2, <1>12, <2>1, <2>3
    <3> QED BY <1>5, <1>9, <1>17, <2>3, <3>1
  <2> QED BY <1>2, <2>2, <2>3
<1>19. tail' = IF s = <<>> THEN Null ELSE s[Len(s)]
  <2>1. n # 1 => n - 1 \in 1..(n - 1)
    BY <1>2
  <2>2. CASE p < n
    <3>1. n # 1 /\ ~ (n - 1 < p) /\ (n - 1) + 1 = n
      BY <1>2, <2>2
    <3>2. s[n - 1] = q[n]
      BY <1>12, <2>1, <3>1
    <3> QED BY <1>5, <1>9, <1>12, <1>17, <2>2, <3>1, <3>2
  <2>3. CASE p = n
    <3>1. n # 1 => n - 1 < p /\ p > 1
      BY <1>2, <2>3
    <3>2. n # 1 => s[n - 1] = q[p - 1]
      BY <1>12, <2>1, <2>3, <3>1
    <3> QED BY <1>2, <1>7, <1>9, <1>12, <1>17, <2>3, <3>1, <3>2
  <2> QED BY <1>2, <2>2, <2>3
<1> QED BY <1>11, <1>13, <1>14, <1>16, <1>18, <1>19 DEF Holds, Linked

(* bano_list_add_before, for the item of the loop timer: its own prev is   *)
(* missing afterwards, and no other's.                                     *)
LEMMA AddBeforeStep ==
  ASSUME NEW q, Holds(q), NEW p \in 1..Len(q), AddBefore(LoopItem, q[p]),
         NEW s, s = InsertAt(q, p, LoopItem)
  PROVE  Holds(s)' /\ LoopItem \notin ToSet(q)
<1>1. PICK n, i : n = Len(q) /\ i = LoopItem
  OBVIOUS
<1>2. /\ n \in Nat /\ DOMAIN q = 1..n /\ (q = <<>> <=> n = 0) /\ p \in 1..n
      /\ \A k \in 1..n : q[k] \in Item /\ q[k] # Null /\ q[k] # Freed
  BY <1>1, HoldsFacts
<1>3. \A k, j \in 1..n : q[k] = q[j] => k = j
  BY <1>1, HoldsFacts
<1>4. /\ next \in [Item -> Item \cup {Null, Freed}]
      /\ prev \in [Item -> Item \cup {Null, Freed}]
      /\ q \in Seq(Item) /\ IsInjective(q)
      /\ \A j \in Item \ ToSet(q) : next[j] = Freed
  BY DEF Holds
<1>5. head = q[1] /\ tail = q[n] /\ 1 \in 1..n /\ n \in 1..n
  BY <1>1, <1>2 DEF Holds
<1>6. \A k \in 1..n : /\ next[q[k]] = IF k < n THEN q[k + 1] ELSE Null
                      /\ \/ prev[q[k]] = IF k > 1 THEN q[k - 1] ELSE Null
                         \/ q[k] = i /\ prev[q[k]] = Null
  BY <1>1 DEF Holds, Linked
<1>7. i \in Item /\ i # Null /\ i # Freed
  BY <1>1, ListConstantsOK
<1>8. i \notin ToSet(q) /\ \A k \in 1..n : q[k] # i
  <2>1. next[i] = Freed
    BY <1>1 DEF AddBefore
  <2>2. i \notin Used
    BY <2>1 DEF Used
  <2> QED BY <1>1, <1>7, <2>2, HoldsFacts
<1>9. p > 1 => p - 1 \in 1..n /\ prev[q[p]] = q[p - 1] /\ q[p - 1] \in Item
  BY <1>2, <1>6, <1>8
<1>10. q[p] = head <=> p = 1
  BY <1>2, <1>3, <1>5
<1>11. /\ p = 1 => head' = i /\ next' = [next EXCEPT ![i] = q[p]]
       /\ p > 1 => head' = head /\ next' = [[next EXCEPT ![i] = q[p]] EXCEPT ![q[p - 1]] = i]
       /\ prev' = [[prev EXCEPT ![i] = Null] EXCEPT ![q[p]] = i]
       /\ tail' = tail
  BY <1>1, <1>2, <1>9, <1>10 DEF AddBefore, Set
<1>12. /\ s \in Seq(Item) /\ IsInjective(s) /\ ToSet(s) = ToSet(q) \cup {i}
  <2>1. p \in 1..(Len(q) + 1) /\ i \in Item /\ q \in Seq(Item) /\ s = InsertAt(q, p, i)
    BY <1>1, <1>2, <1>4, <1>7
  <2> QED BY <1>4, <1>8, <2>1, InsertAtElements
<1>13. DOMAIN s = 1..(n + 1) /\ Len(s) = n + 1
  <2>1. p \in 1..(Len(q) + 1) /\ i \in Item /\ q \in Seq(Item) /\ s = InsertAt(q, p, i)
    BY <1>1, <1>2, <1>4, <1>7
  <2>2. DOMAIN s = 1..(n + 1)
    BY <1>1, <2>1, InsertAtIndex
  <2> QED BY <1>2, <1>12, <2>2, LenProperties
<1>14. \A k \in 1..(n + 1) : /\ k < p => s[k] = q[k]
                             /\ k = p => s[k] = i
                             /\ k > p => s[k] = q[k - 1]
  <2>1. p \in 1..(Len(q) + 1) /\ i \in Item /\ q \in Seq(Item) /\ s = InsertAt(q, p, i)
    BY <1>1, <1>2, <1>4, <1>7
  <2>2. \A k \in 1..(Len(q) + 1) : /\ k < p => InsertAt(q, p, i)[k] = q[k]
                                   /\ k = p => InsertAt(q, p, i)[k] = i
                                   /\ k > p => InsertAt(q, p, i)[k] = q[k - 1]
    BY ONLY <2>1, InsertAtIndex
  <2> QED BY <1>1, <2>1, <2>2
<1>15. next' \in [Item -> Item \cup {Null, Freed}] /\ prev' \in [Item -> Item \cup {Null, Freed}]
  <2>1. q[p] \in Item
    BY <1>2
  <2> QED BY <1>2, <1>4, <1>7, <1>11, <2>1
<1>16. ASSUME NEW j \in Item \ ToSet(s)
       PROVE  next'[j] = Freed
  <2>1. j # i /\ next[j] = Freed /\ j \notin ToSet(q)
    BY <1>4, <1>12
  <2>2. p > 1 => j # q[p - 1]
    BY <1>2, <1>9, <2>1 DEF ToSet
  <2> QED BY <1>2, <1>4, <1>11, <2>1, <2>2
<1>17. next'[i] = q[p] /\ prev'[i] = Null
  <2>1. q[p] # i /\ (p > 1 => q[p - 1] # i)
    BY <1>2, <1>8, <1>9
  <2> QED BY <1>2, <1>4, <1>7, <1>11, <2>1
<1>18. ASSUME NEW k \in 1..n
       PROVE  /\ next'[q[k]] = IF k = p - 1 THEN i ELSE next[q[k]]
              /\ prev'[q[k]] = IF k = p THEN i ELSE prev[q[k]]
  <2>1. q[k] \in Item /\ q[k] # i
    BY <1>2, <1>8
  <2>2. (p > 1 => (q[k] = q[p - 1] <=> k = p - 1)) /\ (q[k] = q[p] <=> k = p)
    BY <1>2, <1>3, <1>9
  <2>3. p = 1 => k # p - 1
    BY <1>2
  <2> QED BY <1>2, <1>4, <1>11, <2>1, <2>2, <2>3
<1>19. ASSUME NEW k \in 1..Len(s)
       PROVE  /\ next'[s[k]] = IF k < Len(s) THEN s[k + 1] ELSE Null
              /\ \/ prev'[s[k]] = IF k > 1 THEN s[k - 1] ELSE Null
                 \/ s[k] = LoopItem /\ prev'[s[k]] = Null
  <2>1. k \in 1..(n + 1)
    BY <1>13
  <2>2. CASE k < p
    <3>1. k \in 1..n /\ s[k] = q[k] /\ k # p /\ k < Len(s) /\ k + 1 \in 1..(n + 1) /\ k < n
      BY <1>2, <1>13, <1>14, <2>1, <2>2
    <3>2. k > 1 => k - 1 \in 1..(n + 1) /\ s[k - 1] = q[k - 1]
      BY <1>2, <1>14, <2>1, <2>2
    <3>3. prev'[s[k]] = prev[q[k]]
      BY <1>18, <3>1
    <3>4. next'[s[k]] = s[k + 1]
      <4>1. CASE k = p - 1
        <5>1. k + 1 = p
          BY <1>2, <2>1, <4>1
        <5> QED BY <1>14, <1>18, <3>1, <4>1, <5>1
      <4>2. CASE k # p - 1
        <5>1. k + 1 < p
          BY <1>2, <2>1, <2>2, <4>2
        <5> QED BY <1>6, <1>14, <1>18, <3>1, <4>2, <5>1
      <4> QED BY <4>1, <4>2
    <3> QED BY <1>1, <1>6, <3>1, <3>2, <3>3, <3>4
  <2>3. CASE k = p
    <3>1. s[k] = i /\ p + 1 \in 1..(n + 1) /\ k < Len(s) /\ (p + 1) - 1 = p /\ p + 1 > p
      BY <1>2, <1>13, <1>14, <2>1, <2>3
    <3>2. s[k + 1] = q[p]
      BY <1>14, <2>3, <3>1
    <3> QED BY <1>1, <1>17, <2>3, <3>1, <3>2
  <2>4. CASE k > p
    <3>1. PICK m \in 1..n : m = k - 1 /\ k = m + 1 /\ m # p - 1 /\ m >= p
      BY <1>2, <2>1, <2>4
    <3>2. s[k] = q[m]
      BY <1>14, <2>1, <2>4, <3>1
    <3>3. next'[s[k]] = next[q[m]]
      BY <1>18, <3>1, <3>2
    <3>4. k < Len(s) <=> m < n
      BY <1>2, <1>13, <3>1
    <3>5. m < n => k + 1 \in 1..(n + 1) /\ k + 1 > p /\ (k + 1) - 1 = m + 1
      BY <1>2, <2>1, <2>4, <3>1
    <3>6. m < n => s[k + 1] = q[m + 1]
      BY <1>14, <3>5
    <3>7. next'[s[k]] = IF k < Len(s) THEN s[k + 1] ELSE Null
      BY <1>6, <3>1, <3>3, <3>4, <3>6
    <3>8. prev'[s[k]] = s[k - 1] /\ k > 1
      <4>1. CASE m = p
        <5>1. s[k - 1] = i /\ k > 1
          BY <1>2, <1>14, <3>1, <4>1
        <5> QED BY <1>18, <3>1, <3>2, <4>1, <5>1
      <4>2. CASE m # p
        <5>1. m \in 1..(n + 1) /\ m > p /\ m > 1 /\ m - 1 \in 1..n /\ k > 1
          BY <1>2, <3>1, <4>2
        <5>2. s[k - 1] = q[m - 1]
          BY <1>14, <3>1, <5>1
        <5>3. prev'[s[k]] = q[m - 1]
          BY <1>6, <1>8, <1>18, <3>1, <3>2, <4>2, <5>1
        <5> QED BY <5>1, <5>2, <5>3
      <4> QED BY <4>1, <4>2
    <3> QED BY <3>7, <3>8
  <2> QED BY <1>2, <2>1, <2>2, <2>3, <2>4
<1>20. s # <<>> /\ head' = s[1] /\ tail' = s[Len(s)]
  <2>1. s # <<>>
    BY <1>2, <1>12, <1>13, EmptySeq
  <2>2. 1 \in 1..(n + 1) /\ n + 1 \in 1..(n + 1) /\ n + 1 > p /\ (n + 1) - 1 = n
    BY <1>2
  <2>3. s[n + 1] = q[n]
    BY <1>14, <2>2
  <2>4. s[1] = IF p = 1 THEN i ELSE q[1]
    BY <1>2, <1>14, <2>2
  <2> QED BY <1>2, <1>5, <1>11, <1>13, <2>1, <2>3, <2>4
<1> QED BY <1>1, <1>8, <1>12, <1>15, <1>16, <1>19, <1>20 DEF Holds, Linked
-----------------------------------------------------------------------------
(* The recursion of Walk defines a function.                               *)
LEMMA WalkExists ==
  ASSUME NEW n \in Nat, next \in [Item -> Item \cup {Null, Freed}],
         head \in Item \cup {Null}
  PROVE  \E g : g = [m \in 0..n |-> IF m = 0 THEN head
                                    ELSE IF g[m - 1] \in Item THEN next[g[m - 1]] ELSE Null]
<1> DEFINE S == Item \cup {Null, Freed}
           F == [m \in 1..n |-> [x \in S |-> IF x \in Item THEN next[x] ELSE Null]]
<1>1. F \in [1..n -> [S -> S]]
  OBVIOUS
<1>2. \A m \in 1..n, x \in S : F[m][x] = IF x \in Item THEN next[x] ELSE Null
  OBVIOUS
<1>3. PICK T, a, G : T = S /\ a = head /\ G = F
  OBVIOUS
<1>4. a \in T /\ G \in [1..n -> [T -> T]]
  BY <1>1, <1>3
<1>5. PICK g : g \in Chains(n, T, a, G)
  BY <1>4, ChainExists, Zenon
<1> HIDE DEF F, S
<1>6. g \in [0..n -> S] /\ g[0] = head /\ \A m \in 1..n : g[m] = F[m][g[m - 1]]
  BY <1>3, <1>5 DEF Chains
<1>7. ASSUME NEW m \in 1..n
      PROVE  g[m] = IF g[m - 1] \in Item THEN next[g[m - 1]] ELSE Null
  <2>1. m - 1 \in 0..n /\ g[m - 1] \in S
    BY <1>6
  <2> QED BY <1>2, <1>6, <2>1
<1>8. g = [m \in 0..n |-> IF m = 0 THEN head
                          ELSE IF g[m - 1] \in Item THEN next[g[m - 1]] ELSE Null]
  BY <1>6, <1>7
<1> QED BY <1>8

(* From the head, `next' leads through the items of the list, and no more. *)
LEMMA WalkIs ==
  ASSUME NEW q, Holds(q)
  PROVE  Walk = q
<1>1. PICK n, N : n = Len(q) /\ N = Cardinality(Item)
  OBVIOUS
<1>2. /\ n \in Nat /\ DOMAIN q = 1..n /\ (q = <<>> <=> n = 0)
      /\ \A k \in 1..n : q[k] \in Item /\ q[k] # Null
      /\ \A k, j \in 1..n : q[k] = q[j] => k = j
  BY <1>1, HoldsFacts
<1>3. /\ next \in [Item -> Item \cup {Null, Freed}] /\ q \in Seq(Item)
      /\ head = IF n = 0 THEN Null ELSE q[1]
      /\ \A k \in 1..n : next[q[k]] = IF k < n THEN q[k + 1] ELSE Null
  BY <1>1, <1>2 DEF Holds, Linked
<1>4. N \in Nat /\ n <= N
  <2>1. N \in Nat
    BY <1>1, ListConstantsOK, FS_CardinalityType
  <2>2. PICK S : S = 1..n
    OBVIOUS
  <2>3. q \in [S -> Item]
    BY <1>1, <1>3, <2>2, LenProperties
  <2>4. q \in Injection(S, Item)
    BY <1>2, <2>2, <2>3 DEF Injection, IsInjective
  <2>5. Cardinality(S) <= N
    BY <1>1, <2>4, ListConstantsOK, FS_Injection
  <2>6. Cardinality(S) = n
    BY <1>2, <2>2, FS_Interval
  <2> QED BY <2>1, <2>5, <2>6
<1>5. PICK at : at = CHOOSE g : g = [m \in 0..Cardinality(Item) |->
                       IF m = 0 THEN head ELSE IF g[m - 1] \in Item THEN next[g[m - 1]] ELSE Null]
  OBVIOUS
<1>6. Walk = [m \in 1..Cardinality({k \in 0..(Cardinality(Item) - 1) : at[k] # Null}) |-> at[m - 1]]
  BY <1>5 DEF Walk
<1>7. at = [m \in 0..N |->
              IF m = 0 THEN head ELSE IF at[m - 1] \in Item THEN next[at[m - 1]] ELSE Null]
  <2>1. head \in Item \cup {Null}
    BY <1>2, <1>3
  <2>2. \E g : g = [m \in 0..N |-> IF m = 0 THEN head
                                   ELSE IF g[m - 1] \in Item THEN next[g[m - 1]] ELSE Null]
    BY <1>3, <1>4, <2>1, WalkExists
  <2> QED BY <1>1, <1>5, <2>2
<1>8. \A m \in 0..N : at[m] = IF m = 0 THEN head
                              ELSE IF at[m - 1] \in Item THEN next[at[m - 1]] ELSE Null
  BY <1>7
<1>9. \A m \in 0..N : at[m] = IF m < n THEN q[m + 1] ELSE Null
  <2> DEFINE Follows(m) == at[m] = IF m < n THEN q[m + 1] ELSE Null
             T == {m \in Nat : m <= N => Follows(m)}
  <2>1. Follows(0)
    <3>1. at[0] = head
      BY <1>4, <1>8
    <3>2. 0 < n <=> n # 0
      BY <1>2
    <3> QED BY <1>3, <3>1, <3>2
  <2>2. ASSUME NEW m \in Nat, m + 1 <= N, Follows(m)
        PROVE  Follows(m + 1)
    <3>1. at[m + 1] = IF at[m] \in Item THEN next[at[m]] ELSE Null
      <4>1. PICK k \in 0..N : k = m + 1 /\ k - 1 = m /\ k # 0
        BY <1>4, <2>2
      <4> QED BY <1>8, <4>1
    <3>2. CASE m < n
      <4>1. m + 1 \in 1..n /\ at[m] = q[m + 1]
        BY <1>2, <2>2, <3>2
      <4> QED BY <1>2, <1>3, <3>1, <4>1
    <3>3. CASE ~ (m < n)
      <4>1. at[m] = Null /\ ~ (m + 1 < n)
        BY <1>2, <2>2, <3>3
      <4> QED BY <3>1, <4>1, ListConstantsOK
    <3> QED BY <3>2, <3>3
  <2>3. T = Nat
    <3> HIDE DEF Follows
    <3>1. 0 \in T /\ (\A m \in T : m + 1 \in T) /\ T \subseteq Nat
      BY <1>4, <2>1, <2>2
    <3> HIDE DEF T
    <3> QED BY <3>1, SetInduction
  <2> HIDE DEF Follows
  <2>4. \A m \in 0..N : Follows(m)
    BY <1>4, <2>3
  <2> QED BY <2>4 DEF Follows
<1>10. {k \in 0..(N - 1) : at[k] # Null} = 0..(n - 1)
  <2>1. ASSUME NEW k \in 0..(N - 1)
        PROVE  at[k] # Null <=> k < n
    <3>1. k \in 0..N /\ (k < n => k + 1 \in 1..n)
      BY <1>2, <1>4
    <3> QED BY <1>2, <1>9, <3>1
  <2> QED BY <1>2, <1>4, <2>1
<1>11. Cardinality(0..(n - 1)) = n
  <2>1. PICK a \in Int, b \in Int : a = 0 /\ b = n - 1
    BY <1>2
  <2>2. Cardinality(a..b) = IF a > b THEN 0 ELSE b - a + 1
    BY FS_Interval
  <2> QED BY <1>2, <2>1, <2>2
<1>12. Walk = [m \in 1..n |-> at[m - 1]]
  BY <1>1, <1>6, <1>10, <1>11
<1>13. ASSUME NEW m \in 1..n
       PROVE  at[m - 1] = q[m]
  <2>1. m - 1 \in 0..N /\ m - 1 < n /\ (m - 1) + 1 = m
    BY <1>2, <1>4
  <2> QED BY <1>9, <2>1
<1>14. q = [m \in 1..n |-> q[m]]
  BY <1>1, <1>3, LenProperties
<1> QED BY <1>12, <1>13, <1>14
-----------------------------------------------------------------------------
(* Where bano_list_foreach is: the item it read ahead is still the one     *)
(* after that which it visits, or there was none when it read it; and the  *)
(* items it has yet to visit are from there on.                            *)
IterOK(q) ==
  \/ pos = Null /\ ahead = Null /\ todo = {}
  \/ \E k \in 1..Len(q) :
       /\ pos = q[k] /\ (ahead = Null \/ (k < Len(q) /\ ahead = q[k + 1]))
       /\ todo \subseteq {q[j] : j \in k..Len(q)}
       /\ ahead = Null => todo \subseteq {pos}

ListIInv == \E q : Holds(q) /\ IterOK(q)

(* bano_list_foreach_at goes to an item, and reads ahead.                  *)
LEMMA GotoStep ==
  ASSUME NEW s, Holds(s)', NEW k \in 1..Len(s), Goto(s[k]),
         todo' \subseteq {s[j] : j \in k..Len(s)}
  PROVE  IterOK(s)'
<1>1. /\ s \in Seq(Item) /\ Linked(s)'
  BY DEF Holds
<1>2. /\ Len(s) \in Nat /\ \A j \in 1..Len(s) : s[j] \in Item /\ s[j] # Null
  BY <1>1, LenProperties, ListConstantsOK
<1>3. pos' = s[k] /\ ahead' = next'[s[k]]
  BY <1>2 DEF Goto
<1>4. next'[s[k]] = IF k < Len(s) THEN s[k + 1] ELSE Null
  BY <1>1 DEF Linked
<1>5. k < Len(s) => k + 1 \in 1..Len(s)
  BY <1>2
<1>6. ASSUME ahead' = Null
      PROVE  todo' \subseteq {pos'}
  <2>1. k = Len(s)
    BY <1>2, <1>3, <1>4, <1>5, <1>6
  <2>2. \A j \in k..Len(s) : j = k
    BY <1>2, <2>1
  <2> QED BY <1>3, <2>2
<1> QED BY <1>3, <1>4, <1>6 DEF IterOK

(* There is nothing to visit.                                              *)
LEMMA NotIterating ==
  ASSUME NEW q, Holds(q), IterOK(q)
  PROVE  /\ pos = Null => ahead = Null /\ todo = {}
         /\ pos # Null => \E k \in 1..Len(q) :
              /\ pos = q[k] /\ (ahead = Null \/ (k < Len(q) /\ ahead = q[k + 1]))
              /\ todo \subseteq {q[j] : j \in k..Len(q)}
              /\ ahead = Null => todo \subseteq {pos}
BY HoldsFacts DEF IterOK

(* What an operation does to the items.                                    *)
Moves(q, s) ==
  \/ \E i \in Item : i \notin ToSet(q) /\ s = Append(q, i)
  \/ \E p \in DOMAIN q : (q[p] = LoopItem => p = 1) /\ s = RemoveAt(q, p)
  \/ \E p \in 1..(Len(q) + 1) : LoopItem \notin ToSet(q) /\ s = InsertAt(q, p, LoopItem)

LEMMA AddsStep ==
  ASSUME NEW q, Holds(q), IterOK(q), NEW i \in Item, AddOne(i) \/ VisitAdd(i)
  PROVE  \E s : Holds(s)' /\ IterOK(s)' /\ Moves(q, s)
<1>1. PICK s : s = Append(q, i)
  OBVIOUS
<1>2. AddTail(i) /\ pos' = pos /\ ahead' = ahead /\ todo' = todo
  BY DEF AddOne, VisitAdd, iter
<1>3. Holds(s)' /\ i \notin ToSet(q)
  BY <1>1, <1>2, AddTailStep
<1>4. q \in Seq(Item) /\ Len(q) \in Nat
  BY HoldsFacts DEF Holds
<1>5. Len(s) = Len(q) + 1 /\ \A k \in 1..Len(q) : s[k] = q[k]
  BY <1>1, <1>4, AppendProperties
<1>6. IterOK(s)'
  <2>1. CASE pos = Null
    BY <1>2, <2>1, NotIterating DEF IterOK
  <2>2. CASE pos # Null
    <3>1. PICK k \in 1..Len(q) :
            /\ pos = q[k] /\ (ahead = Null \/ (k < Len(q) /\ ahead = q[k + 1]))
            /\ todo \subseteq {q[j] : j \in k..Len(q)}
            /\ ahead = Null => todo \subseteq {pos}
      BY <2>2, NotIterating
    <3>2. k \in 1..Len(s) /\ s[k] = q[k]
      BY <1>4, <1>5
    <3>3. k < Len(q) => k + 1 \in 1..Len(q) /\ s[k + 1] = q[k + 1] /\ k < Len(s)
      BY <1>4, <1>5
    <3>4. \A j \in k..Len(q) : j \in k..Len(s) /\ s[j] = q[j]
      BY <1>4, <1>5
    <3>5. todo \subseteq {s[j] : j \in k..Len(s)}
      BY <3>1, <3>4
    <3> QED BY <1>2, <3>1, <3>2, <3>3, <3>5 DEF IterOK
  <2> QED BY <2>1, <2>2
<1> QED BY <1>1, <1>3, <1>6 DEF Moves

LEMMA InsertStep ==
  ASSUME NEW q, Holds(q), IterOK(q), NEW i \in Item, InsertLoop(i)
  PROVE  \E s : Holds(s)' /\ IterOK(s)' /\ Moves(q, s)
<1>1. /\ pos = Null /\ AddBefore(LoopItem, i) /\ i \in Used
      /\ pos' = pos /\ ahead' = ahead /\ todo' = todo
  BY DEF InsertLoop, AddBefore, iter
<1>2. PICK p \in 1..Len(q) : q[p] = i
  BY <1>1, HoldsFacts
<1>3. PICK s : s = InsertAt(q, p, LoopItem)
  OBVIOUS
<1>4. Holds(s)' /\ LoopItem \notin ToSet(q)
  BY <1>1, <1>2, <1>3, AddBeforeStep
<1>5. IterOK(s)'
  BY <1>1, NotIterating DEF IterOK
<1>6. p \in 1..(Len(q) + 1)
  BY HoldsFacts
<1> QED BY <1>3, <1>4, <1>5, <1>6 DEF Moves

LEMMA DelOneStep ==
  ASSUME NEW q, Holds(q), IterOK(q), NEW i \in Item, DelOne(i)
  PROVE  \E s : Holds(s)' /\ IterOK(s)' /\ Moves(q, s)
<1>1. /\ pos = Null /\ ListDel(i) /\ i \in Used /\ (i = LoopItem => i = head)
      /\ pos' = pos /\ ahead' = ahead /\ todo' = todo
  BY DEF DelOne, ListDel, iter
<1>2. PICK p \in 1..Len(q) : q[p] = i
  BY <1>1, HoldsFacts
<1>3. PICK s : s = RemoveAt(q, p)
  OBVIOUS
<1>4. q[p] = LoopItem => p = 1
  <2>1. 1 \in 1..Len(q) /\ head = q[1]
    BY HoldsFacts DEF Holds
  <2> QED BY <1>1, <1>2, <2>1, HoldsFacts
<1>5. Holds(s)'
  BY <1>1, <1>2, <1>3, <1>4, ListDelStep
<1>6. IterOK(s)'
  BY <1>1, NotIterating DEF IterOK
<1>7. p \in DOMAIN q
  BY HoldsFacts
<1> QED BY <1>3, <1>4, <1>5, <1>6, <1>7 DEF Moves

(* The iteration starts, goes on, or is stopped, and fn deletes nothing.   *)
LEMMA KeptStep ==
  ASSUME NEW q, Holds(q), IterOK(q), Foreach \/ Visit \/ Stop, UNCHANGED pointers
  PROVE  Holds(q)' /\ IterOK(q)'
<1>1. Holds(q)'
  BY DEF Holds, Linked, pointers
<1>2. PICK n : n = Len(q)
  OBVIOUS
<1>3. /\ n \in Nat /\ DOMAIN q = 1..n /\ (q = <<>> <=> n = 0) /\ Used = ToSet(q)
      /\ \A k \in 1..n : q[k] \in Item /\ q[k] # Null
  BY <1>2, HoldsFacts
<1>4. CASE Stop
  BY <1>1, <1>4, ListConstantsOK DEF Stop, Goto, IterOK
<1>5. CASE Foreach
  <2>1. 1 \in 1..n /\ head = q[1]
    BY <1>3, <1>5 DEF Foreach, Holds
  <2>2. todo' \subseteq {q[j] : j \in 1..n}
    BY <1>3, <1>5 DEF Foreach, ToSet
  <2>3. Goto(q[1])
    BY <1>5, <2>1 DEF Foreach
  <2> QED BY <1>1, <1>2, <2>1, <2>2, <2>3, GotoStep
<1>6. CASE Visit
  <2>1. pos # Null /\ Goto(ahead) /\ todo' = todo \ {pos}
    BY <1>6 DEF Visit
  <2>2. PICK k \in 1..n :
          /\ pos = q[k] /\ (ahead = Null \/ (k < n /\ ahead = q[k + 1]))
          /\ todo \subseteq {q[j] : j \in k..n}
          /\ ahead = Null => todo \subseteq {pos}
    BY <1>2, <2>1, NotIterating
  <2>3. CASE ahead = Null
    BY <1>1, <2>1, <2>2, <2>3, ListConstantsOK DEF Goto, IterOK
  <2>4. CASE ahead # Null
    <3>1. PICK m \in 1..n : m = k + 1
      BY <1>3, <2>2, <2>4
    <3>2. \A j \in k..n : j = k \/ j \in m..n
      BY <1>3, <3>1
    <3>3. todo' \subseteq {q[j] : j \in m..n}
      BY <2>1, <2>2, <3>2
    <3>4. Goto(q[m])
      BY <2>1, <2>2, <2>4, <3>1
    <3> QED BY <1>1, <1>2, <3>3, <3>4, GotoStep
  <2> QED BY <2>3, <2>4
<1> QED BY <1>4, <1>5, <1>6

(* fn deletes the item it is given.                                        *)
LEMMA VisitDelStep ==
  ASSUME NEW q, Holds(q), IterOK(q), Visit, pos # LoopItem, ListDel(pos)
  PROVE  \E s : Holds(s)' /\ IterOK(s)' /\ Moves(q, s)
<1>1. PICK n : n = Len(q)
  OBVIOUS
<1>2. /\ n \in Nat /\ DOMAIN q = 1..n /\ q \in Seq(Item)
      /\ \A k \in 1..n : q[k] \in Item /\ q[k] # Null
  BY <1>1, HoldsFacts DEF Holds
<1>3. pos # Null /\ Goto(ahead) /\ todo' = todo \ {pos}
  BY DEF Visit
<1>4. PICK k \in 1..n :
        /\ pos = q[k] /\ (ahead = Null \/ (k < n /\ ahead = q[k + 1]))
        /\ todo \subseteq {q[j] : j \in k..n}
        /\ ahead = Null => todo \subseteq {pos}
  BY <1>1, <1>3, NotIterating
<1>5. PICK s : s = RemoveAt(q, k)
  OBVIOUS
<1>6. Holds(s)'
  BY <1>1, <1>4, <1>5, ListDelStep
<1>7. Len(s) = n - 1 /\ \A j \in 1..(n - 1) : s[j] = IF j < k THEN q[j] ELSE q[j + 1]
  BY <1>1, <1>2, <1>5, RemoveAtElements
<1>8. IterOK(s)'
  <2>1. CASE ahead = Null
    BY <1>3, <1>4, <2>1, ListConstantsOK DEF Goto, IterOK
  <2>2. CASE ahead # Null
    <3>1. k \in 1..Len(s) /\ s[k] = q[k + 1] /\ ahead = q[k + 1]
      BY <1>2, <1>4, <1>7, <2>2
    <3>2. ASSUME NEW x \in todo'
          PROVE  x \in {s[j] : j \in k..Len(s)}
      <4>1. PICK j \in k..n : x = q[j]
        BY <1>3, <1>4, <3>2
      <4>2. j # k
        BY <1>3, <1>4, <3>2, <4>1
      <4>3. PICK m \in k..Len(s) : m = j - 1 /\ m + 1 = j
        BY <1>2, <1>7, <4>2
      <4>4. s[m] = q[j]
        BY <1>2, <1>7, <4>3
      <4> QED BY <4>1, <4>4
    <3> QED BY <1>3, <1>6, <3>1, <3>2, GotoStep
  <2> QED BY <2>1, <2>2
<1> QED BY <1>2, <1>4, <1>5, <1>6, <1>8 DEF Moves

LEMMA ListStep ==
  ASSUME NEW q, Holds(q), IterOK(q), ListNext
  PROVE  \E s : Holds(s)' /\ IterOK(s)' /\ (s = q \/ Moves(q, s))
<1>1. ASSUME NEW i \in Item, AddOne(i) \/ VisitAdd(i)
      PROVE  \E s : Holds(s)' /\ IterOK(s)' /\ Moves(q, s)
  BY <1>1, AddsStep
<1>2. ASSUME NEW i \in Item, InsertLoop(i)
      PROVE  \E s : Holds(s)' /\ IterOK(s)' /\ Moves(q, s)
  BY <1>2, InsertStep
<1>3. ASSUME NEW i \in Item, DelOne(i)
      PROVE  \E s : Holds(s)' /\ IterOK(s)' /\ Moves(q, s)
  BY <1>3, DelOneStep
<1>4. CASE (Foreach \/ Visit \/ Stop) /\ UNCHANGED pointers
  BY <1>4, KeptStep
<1>5. CASE Visit /\ pos # LoopItem /\ ListDel(pos)
  BY <1>5, VisitDelStep
<1>6. Foreach \/ Visit \/ Stop => \/ (Foreach \/ Visit \/ Stop) /\ UNCHANGED pointers
                                  \/ Visit /\ pos # LoopItem /\ ListDel(pos)
  BY DEF Foreach, Visit, Stop
<1> QED BY <1>1, <1>2, <1>3, <1>4, <1>5, <1>6 DEF ListNext
-----------------------------------------------------------------------------
LEMMA ListInitIInv == ListInit => Holds(<<>>) /\ ListIInv
<1>1. <<>> \in Seq(Item) /\ IsInjective(<<>>) /\ ToSet(<<>>) = {} /\ Len(<<>>) = 0
  BY EmptySeq DEF IsInjective, ToSet
<1> SUFFICES ASSUME ListInit
             PROVE  Holds(<<>>) /\ ListIInv
  OBVIOUS
<1>2. PICK e : e = <<>>
  OBVIOUS
<1>3. /\ e \in Seq(Item) /\ IsInjective(e) /\ ToSet(e) = {} /\ Len(e) = 0
  BY <1>1, <1>2
<1>4. Linked(e)
  BY <1>3 DEF Linked
<1>5. next = [i \in Item |-> Freed] /\ prev = [i \in Item |-> Freed]
  BY DEF ListInit
<1>6. /\ next \in [Item -> Item \cup {Null, Freed}]
      /\ prev \in [Item -> Item \cup {Null, Freed}]
      /\ \A i \in Item \ ToSet(e) : next[i] = Freed
  BY <1>5
<1>7. head = Null /\ tail = Null
  BY DEF ListInit
<1>8. Holds(e)
  BY <1>2, <1>3, <1>4, <1>6, <1>7 DEF Holds
<1>9. IterOK(e)
  BY DEF ListInit, IterOK
<1> QED BY <1>2, <1>8, <1>9 DEF ListIInv

LEMMA ListInvariance == ListSpec => []ListIInv
<1>1. ListIInv /\ [ListNext]_listVars => ListIInv'
  <2> SUFFICES ASSUME ListIInv, [ListNext]_listVars
               PROVE  ListIInv'
    OBVIOUS
  <2>1. PICK q : Holds(q) /\ IterOK(q)
    BY DEF ListIInv
  <2>2. CASE ListNext
    BY <2>1, <2>2, ListStep DEF ListIInv
  <2>3. CASE UNCHANGED listVars
    <3>1. Holds(q)' /\ IterOK(q)'
      BY <2>1, <2>3 DEF listVars, pointers, iter, Holds, Linked, IterOK
    <3> QED BY <3>1 DEF ListIInv
  <2> QED BY <2>2, <2>3
<1> QED BY ListInitIInv, <1>1, PTL DEF ListSpec

(***************************************************************************)
(* bano_list_foreach never calls back with an item that was freed, nor     *)
(* reads one ahead, and when it ends there is no item left that it found   *)
(* in the list and did not visit, whatever fn deleted or added: the list   *)
(* may hold any number of items.                                           *)
(***************************************************************************)
THEOREM ForeachVisitsAllAlways == ListSpec => []ForeachVisitsAll
<1>1. ListIInv => ForeachVisitsAll
  <2> SUFFICES ASSUME ListIInv
               PROVE  ForeachVisitsAll
    OBVIOUS
  <2>1. PICK q : Holds(q) /\ IterOK(q)
    BY DEF ListIInv
  <2>2. Len(q) \in Nat /\ \A k \in 1..Len(q) : q[k] \in Used
    BY <2>1, HoldsFacts
  <2>3. \A k \in 1..Len(q) : k < Len(q) => k + 1 \in 1..Len(q)
    BY <2>2
  <2> QED BY <2>1, <2>2, <2>3, NotIterating DEF ForeachVisitsAll
<1> QED BY <1>1, ListInvariance, PTL

(* Operations are those of the queue.                                      *)
LEMMA MovesAreQueueSteps ==
  ASSUME ListIInv, ListNext, \A s : Holds(s)' => Walk' = s
  PROVE  [Items!Next]_Walk
<1>1. PICK q : Holds(q) /\ IterOK(q)
  BY DEF ListIInv
<1>2. PICK s : Holds(s)' /\ (s = q \/ Moves(q, s))
  BY <1>1, ListStep
<1>3. Walk = q /\ Walk' = s
  BY <1>1, <1>2, WalkIs
<1>4. \A x : Items!ToSet(x) = ToSet(x)
  BY DEF Items!ToSet, ToSet
<1>5. /\ \A x, p : Items!RemoveAt(x, p) = RemoveAt(x, p)
      /\ \A x, p, t : Items!InsertAt(x, p, t) = InsertAt(x, p, t)
  BY DEF Items!RemoveAt, RemoveAt, Items!InsertAt, InsertAt
<1>6. CASE s = q
  BY <1>3, <1>6
<1>7. ASSUME NEW i \in Item, i \notin ToSet(q), s = Append(q, i)
      PROVE  Items!Next
  BY <1>3, <1>4, <1>7 DEF Items!Next, Items!AddLast
<1>8. ASSUME NEW p \in DOMAIN q, q[p] = LoopItem => p = 1, s = RemoveAt(q, p)
      PROVE  Items!Next
  <2>1. PICK i \in Item : i = q[p]
    BY <1>1, HoldsFacts
  <2>2. Items!Delete(i)
    BY <1>3, <1>5, <1>8, <2>1 DEF Items!Delete
  <2> QED BY <2>2 DEF Items!Next
<1>9. ASSUME NEW p \in 1..(Len(q) + 1), LoopItem \notin ToSet(q), s = InsertAt(q, p, LoopItem)
      PROVE  Items!Next
  <2>1. Items!Insert(LoopItem)
    BY <1>3, <1>4, <1>5, <1>9 DEF Items!Insert
  <2> QED BY <2>1 DEF Items!Next
<1> QED BY <1>2, <1>6, <1>7, <1>8, <1>9 DEF Moves

(***************************************************************************)
(* The pointers of bano_list.c implement the queue that the timers and the *)
(* ios are taken to be in, for lists of any length: the prev pointer that  *)
(* bano_list_add_before leaves NULL is never missed, because only the item *)
(* of the loop timer lacks one, and is deleted when it is the first.       *)
(***************************************************************************)
THEOREM ListImplementsQueue == ListSpec => ImplementsItemQueue
<1>1. \A s : Holds(s) => Walk = s
  BY WalkIs
<1>2. (\A s : Holds(s) => Walk = s)'
  BY <1>1, PTL
<1>3. ListInit => Items!Init
  BY ListInitIInv, WalkIs DEF Items!Init
<1>4. ListIInv /\ [ListNext]_listVars => [Items!Next]_Walk
  <2> SUFFICES ASSUME ListIInv, [ListNext]_listVars
               PROVE  [Items!Next]_Walk
    OBVIOUS
  <2>1. CASE ListNext
    <3>1. \A s : Holds(s)' => Walk' = s
      BY <1>2
    <3> QED BY <2>1, <3>1, MovesAreQueueSteps
  <2>2. CASE UNCHANGED listVars
    BY <2>2 DEF listVars, pointers, Walk
  <2> QED BY <2>1, <2>2
<1> QED BY <1>3, <1>4, ListInvariance, PTL DEF ListSpec, ImplementsItemQueue, Items!Spec
==============================================================================
