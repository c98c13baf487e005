----------------------------- MODULE SeqLemmas ------------------------------
(***************************************************************************)
(* Facts about the sequences that stand for the lists of bano_list.c:      *)
(* which elements a list holds after an insertion or a removal, and that a *)
(* list without duplicates stays without; and about functions defined by   *)
(* recursion over a list, by induction over sets of numbers.               *)
(***************************************************************************)
EXTENDS SequencesExt, SequenceTheorems, WellFoundedInduction, Integers, TLAPS

(* bano_list_add_tail adds the element and nothing else.                   *)
LEMMA AppendElements ==
  ASSUME NEW S, NEW s \in Seq(S), NEW e \in S
  PROVE  /\ Append(s, e) \in Seq(S)
         /\ ToSet(Append(s, e)) = ToSet(s) \cup {e}
         /\ IsInjective(s) /\ e \notin ToSet(s) => IsInjective(Append(s, e))
<1> DEFINE t == Append(s, e)
<1>1. /\ t \in Seq(S) /\ Len(t) = Len(s) + 1
      /\ \A i \in 1..Len(s) : t[i] = s[i]
      /\ t[Len(s) + 1] = e
      /\ Len(s) \in Nat /\ DOMAIN s = 1..Len(s) /\ DOMAIN t = 1..Len(s) + 1
  BY AppendProperties, LenProperties
<1> HIDE DEF t
<1>2. ToSet(t) = ToSet(s) \cup {e}
  BY <1>1 DEF ToSet
<1>3. ASSUME IsInjective(s), e \notin ToSet(s)
      PROVE  IsInjective(t)
  BY <1>1, <1>3 DEF ToSet, IsInjective
<1> QED BY <1>1, <1>2, <1>3 DEF t

(* bano_list_del takes out the element at a position and keeps the others. *)
LEMMA RemoveAtElements ==
  ASSUME NEW S, NEW s \in Seq(S), NEW j \in DOMAIN s
  PROVE  /\ RemoveAt(s, j) \in Seq(S)
         /\ Len(RemoveAt(s, j)) = Len(s) - 1
         /\ \A i \in 1..(Len(s) - 1) :
              RemoveAt(s, j)[i] = IF i < j THEN s[i] ELSE s[i + 1]
<1>1. Len(s) \in Nat /\ DOMAIN s = 1..Len(s) /\ s \in [1..Len(s) -> S]
  BY LenProperties
<1> DEFINE l == SubSeq(s, 1, j - 1)
           r == SubSeq(s, j + 1, Len(s))
<1>2. /\ l \in Seq(S) /\ Len(l) = j - 1
      /\ \A i \in 1..(j - 1) : l[i] = s[i]
  <2>1. \A i \in 1..(j - 1) : s[i] \in S
    BY <1>1
  <2>2. /\ l \in Seq(S)
        /\ Len(l) = IF 1 <= j - 1 THEN (j - 1) - 1 + 1 ELSE 0
        /\ \A i \in 1..((j - 1) - 1 + 1) : l[i] = s[1 + i - 1]
    BY <2>1, <1>1, SubSeqProperties
  <2> QED BY <2>2, <1>1
<1>3. /\ r \in Seq(S) /\ Len(r) = Len(s) - j
      /\ \A i \in 1..(Len(s) - j) : r[i] = s[j + i]
  <2>1. \A i \in (j + 1)..Len(s) : s[i] \in S
    BY <1>1
  <2>2. /\ r \in Seq(S)
        /\ Len(r) = IF j + 1 <= Len(s) THEN Len(s) - (j + 1) + 1 ELSE 0
        /\ \A i \in 1..(Len(s) - (j + 1) + 1) : r[i] = s[(j + 1) + i - 1]
    BY <2>1, <1>1, SubSeqProperties
  <2> QED BY <2>2, <1>1
<1> HIDE DEF l, r
<1>4. /\ l \o r \in Seq(S)
      /\ Len(l \o r) = Len(l) + Len(r)
      /\ \A i \in 1..(Len(l) + Len(r)) :
           (l \o r)[i] = IF i <= Len(l) THEN l[i] ELSE r[i - Len(l)]
  BY <1>2, <1>3, ConcatProperties
<1>5. RemoveAt(s, j) = l \o r
  BY DEF RemoveAt, l, r
<1>6. ASSUME NEW i \in 1..(Len(s) - 1)
      PROVE  (l \o r)[i] = IF i < j THEN s[i] ELSE s[i + 1]
  <2>1. i \in 1..(Len(l) + Len(r)) /\ j \in Nat /\ i \in Nat
    BY <1>1, <1>2, <1>3
  <2>2. CASE i < j
    <3>1. (l \o r)[i] = l[i]
      BY <2>1, <2>2, <1>2, <1>4
    <3> QED BY <3>1, <2>1, <2>2, <1>2
  <2>3. CASE ~ (i < j)
    <3>1. i - (j - 1) \in 1..(Len(s) - j)
      BY <2>1, <2>3, <1>1
    <3>2. (l \o r)[i] = r[i - (j - 1)]
      BY <2>1, <2>3, <1>2, <1>4
    <3>3. j + (i - (j - 1)) = i + 1
      BY <2>1
    <3> QED BY <3>1, <3>2, <3>3, <1>3, <2>3
  <2> QED BY <2>2, <2>3
<1>7. Len(l) + Len(r) = Len(s) - 1
  BY <1>1, <1>2, <1>3
<1>8. Len(l \o r) = Len(s) - 1
  BY <1>4, <1>7
<1> QED BY <1>4, <1>5, <1>6, <1>8

(* Taking an element out of a list without duplicates.                     *)
LEMMA RemoveAtInjective ==
  ASSUME NEW S, NEW s \in Seq(S), NEW j \in DOMAIN s, IsInjective(s)
  PROVE  /\ RemoveAt(s, j) \in Seq(S)
         /\ ToSet(RemoveAt(s, j)) = ToSet(s) \ {s[j]}
         /\ IsInjective(RemoveAt(s, j))
<1> DEFINE t == RemoveAt(s, j)
<1>1. /\ t \in Seq(S)
      /\ Len(t) = Len(s) - 1
      /\ \A i \in 1..(Len(s) - 1) : t[i] = IF i < j THEN s[i] ELSE s[i + 1]
  BY RemoveAtElements
<1>2. /\ Len(s) \in Nat /\ DOMAIN s = 1..Len(s)
      /\ DOMAIN t = 1..(Len(s) - 1) /\ j \in 1..Len(s)
  BY <1>1, LenProperties
<1> HIDE DEF t
<1> USE <1>1, <1>2
<1>3. ASSUME NEW x \in DOMAIN s, x # j
      PROVE  s[x] \in ToSet(t)
  <2>1. CASE x < j
    <3>1. x \in DOMAIN t /\ t[x] = s[x]
      BY <2>1
    <3> QED BY <3>1 DEF ToSet
  <2>2. CASE x > j
    <3>1. x - 1 \in DOMAIN t /\ ~ (x - 1 < j) /\ (x - 1) + 1 = x
      BY <2>2
    <3>2. t[x - 1] = s[x]
      BY <3>1
    <3> QED BY <3>1, <3>2 DEF ToSet
  <2> QED BY <1>3, <2>1, <2>2
<1>4. ASSUME NEW i \in DOMAIN t
      PROVE  t[i] \in ToSet(s) \ {s[j]}
  <2>1. CASE i < j
    BY <2>1 DEF ToSet, IsInjective
  <2>2. CASE ~ (i < j)
    <3>1. t[i] = s[i + 1] /\ i + 1 \in DOMAIN s /\ i + 1 # j
      BY <2>2
    <3> QED BY <3>1 DEF ToSet, IsInjective
  <2> QED BY <2>1, <2>2
<1>5. ToSet(t) = ToSet(s) \ {s[j]}
  BY <1>3, <1>4 DEF ToSet
<1>6. IsInjective(t)
  <2>1. SUFFICES ASSUME NEW a \in DOMAIN t, NEW b \in DOMAIN t, t[a] = t[b]
                 PROVE  a = b
    BY DEF IsInjective
  <2>2. \A x, y \in DOMAIN s : s[x] = s[y] => x = y
    BY DEF IsInjective
  <2>3. CASE a < j /\ b < j
    BY <2>1, <2>2, <2>3
  <2>4. CASE a < j /\ ~ (b < j)
    <3>1. s[a] = s[b + 1] /\ b + 1 \in DOMAIN s /\ a \in DOMAIN s
      BY <2>1, <2>4
    <3> QED BY <2>2, <2>4, <3>1
  <2>5. CASE ~ (a < j) /\ b < j
    <3>1. s[b] = s[a + 1] /\ a + 1 \in DOMAIN s /\ b \in DOMAIN s
      BY <2>1, <2>5
    <3> QED BY <2>2, <2>5, <3>1
  <2>6. CASE ~ (a < j) /\ ~ (b < j)
    <3>1. s[a + 1] = s[b + 1] /\ a + 1 \in DOMAIN s /\ b + 1 \in DOMAIN s
      BY <2>1, <2>6
    <3>2. a + 1 = b + 1
      BY <2>2, <3>1
    <3> QED BY <3>2
  <2> QED BY <2>3, <2>4, <2>5, <2>6
<1> QED BY <1>5, <1>6 DEF t

(* The head of a list without duplicates is not among the rest.            *)
LEMMA TailElements ==
  ASSUME NEW S, NEW s \in Seq(S), s # <<>>, IsInjective(s)
  PROVE  /\ Head(s) \in S /\ Head(s) = s[1] /\ 1 \in DOMAIN s
         /\ Tail(s) \in Seq(S)
         /\ Head(s) \in ToSet(s)
         /\ ToSet(Tail(s)) = ToSet(s) \ {Head(s)}
         /\ IsInjective(Tail(s))
<1>1. Len(s) \in Nat \ {0} /\ DOMAIN s = 1..Len(s)
  BY LenProperties, EmptySeq
<1>2. 1 \in DOMAIN s /\ Head(s) = s[1] /\ Head(s) \in S /\ Tail(s) \in Seq(S)
  BY <1>1, HeadTailProperties
<1>3. /\ Len(Tail(s)) = Len(s) - 1
      /\ \A i \in 1..Len(Tail(s)) : Tail(s)[i] = s[i + 1]
  BY HeadTailProperties
<1>4. DOMAIN Tail(s) = 1..(Len(s) - 1)
  BY <1>2, <1>3, LenProperties
<1>5. /\ RemoveAt(s, 1) \in Seq(S)
      /\ Len(RemoveAt(s, 1)) = Len(s) - 1
      /\ \A i \in 1..(Len(s) - 1) :
           RemoveAt(s, 1)[i] = IF i < 1 THEN s[i] ELSE s[i + 1]
  BY <1>2, RemoveAtElements
<1>6. \A i \in 1..Len(Tail(s)) : Tail(s)[i] = RemoveAt(s, 1)[i]
  BY <1>1, <1>3, <1>5
<1>7. Tail(s) = RemoveAt(s, 1)
  BY <1>2, <1>3, <1>5, <1>6, SeqEqual
<1>8. /\ ToSet(Tail(s)) = ToSet(s) \ {s[1]}
      /\ IsInjective(Tail(s))
  <2>1. /\ ToSet(RemoveAt(s, 1)) = ToSet(s) \ {s[1]}
        /\ IsInjective(RemoveAt(s, 1))
    BY <1>2, RemoveAtInjective, Zenon
  <2> QED BY <1>7, <2>1
<1>9. s[1] \in ToSet(s)
  BY <1>2 DEF ToSet
<1> QED BY <1>2, <1>8, <1>9

(* bano_list_add_before puts the element somewhere among the others.       *)
LEMMA InsertAtIndex ==
  ASSUME NEW S, NEW s \in Seq(S), NEW e \in S, NEW p \in 1..(Len(s) + 1)
  PROVE  LET t == InsertAt(s, p, e) IN
         /\ t \in Seq(S) /\ DOMAIN t = 1..(Len(s) + 1)
         /\ \A i \in 1..(Len(s) + 1) :
              (i < p => t[i] = s[i]) /\ (i = p => t[i] = e) /\ (i > p => t[i] = s[i - 1])
<1> DEFINE l == SubSeq(s, 1, p - 1)
           r == SubSeq(s, p, Len(s))
           t == InsertAt(s, p, e)
<1>1. Len(s) \in Nat /\ DOMAIN s = 1..Len(s) /\ (\A i \in 1..Len(s) : s[i] \in S)
  BY LenProperties
<1>2. /\ l \in Seq(S) /\ Len(l) = p - 1
      /\ \A i \in 1..(p - 1) : l[i] = s[i]
  <2>1. /\ l \in Seq(S)
        /\ Len(l) = IF 1 <= p - 1 THEN (p - 1) - 1 + 1 ELSE 0
        /\ \A i \in 1..((p - 1) - 1 + 1) : l[i] = s[1 + i - 1]
    <3>1. \A i \in 1..(p - 1) : s[i] \in S
      BY <1>1
    <3> QED BY <3>1, <1>1, SubSeqProperties
  <2> QED BY <2>1, <1>1
<1>3. /\ r \in Seq(S) /\ Len(r) = Len(s) - p + 1
      /\ \A i \in 1..(Len(s) - p + 1) : r[i] = s[p + i - 1]
  <2>1. /\ r \in Seq(S)
        /\ Len(r) = IF p <= Len(s) THEN Len(s) - p + 1 ELSE 0
        /\ \A i \in 1..(Len(s) - p + 1) : r[i] = s[p + i - 1]
    <3>1. \A i \in p..Len(s) : s[i] \in S
      BY <1>1
    <3> QED BY <3>1, <1>1, SubSeqProperties
  <2> QED BY <2>1, <1>1
<1>4. t = (l \o <<e>>) \o r
  BY DEF InsertAt
<1> DEFINE le == l \o <<e>>
<1> HIDE DEF l, r, t
<1>5. <<e>> \in Seq(S) /\ Len(<<e>>) = 1 /\ <<e>>[1] = e
  OBVIOUS
<1>6. /\ le \in Seq(S)
      /\ Len(le) = Len(l) + 1
      /\ \A i \in 1..(Len(l) + 1) : le[i] = IF i <= Len(l) THEN l[i] ELSE <<e>>[i - Len(l)]
  BY <1>2, <1>5, ConcatProperties
<1>7. /\ Len(le) = p
      /\ \A i \in 1..(p - 1) : le[i] = s[i]
      /\ le[p] = e
  BY <1>1, <1>2, <1>5, <1>6
<1> HIDE DEF le
<1>8. /\ le \o r \in Seq(S)
      /\ Len(le \o r) = Len(le) + Len(r)
      /\ \A i \in 1..(Len(le) + Len(r)) :
           (le \o r)[i] = IF i <= Len(le) THEN le[i] ELSE r[i - Len(le)]
  BY <1>3, <1>6, ConcatProperties
<1>9. t = le \o r
  BY <1>4 DEF le
<1>10. t \in Seq(S) /\ Len(t) = Len(s) + 1 /\ DOMAIN t = 1..(Len(s) + 1)
  BY <1>1, <1>3, <1>7, <1>8, <1>9, LenProperties
<1>11. \A i \in 1..(Len(s) + 1) :
         (i < p => t[i] = s[i]) /\ (i = p => t[i] = e) /\ (i > p => t[i] = s[i - 1])
  <2>1. SUFFICES ASSUME NEW i \in 1..(Len(s) + 1)
                 PROVE  /\ i < p => t[i] = s[i]
                        /\ i = p => t[i] = e
                        /\ i > p => t[i] = s[i - 1]
    OBVIOUS
  <2>2. i \in 1..(Len(le) + Len(r))
    BY <1>1, <1>3, <1>7
  <2>3. t[i] = IF i <= p THEN le[i] ELSE r[i - p]
    BY <2>2, <1>7, <1>8, <1>9
  <2>4. i <= p => (i < p /\ i \in 1..(p - 1)) \/ i = p
    BY <1>1
  <2>5. i > p => /\ i - p \in 1..(Len(s) - p + 1)
                 /\ p + (i - p) - 1 = i - 1
    BY <1>1
  <2> QED BY <2>3, <2>4, <2>5, <1>1, <1>3, <1>7
<1> QED BY <1>10, <1>11 DEF t

LEMMA InsertAtElements ==
  ASSUME NEW S, NEW s \in Seq(S), NEW e \in S, NEW p \in 1..(Len(s) + 1)
  PROVE  /\ InsertAt(s, p, e) \in Seq(S)
         /\ ToSet(InsertAt(s, p, e)) = ToSet(s) \cup {e}
         /\ IsInjective(s) /\ e \notin ToSet(s) => IsInjective(InsertAt(s, p, e))
<1> DEFINE t == InsertAt(s, p, e)
<1>1. Len(s) \in Nat /\ DOMAIN s = 1..Len(s) /\ (\A i \in 1..Len(s) : s[i] \in S)
  BY LenProperties
<1>2. t \in Seq(S) /\ DOMAIN t = 1..(Len(s) + 1)
  BY InsertAtIndex
<1>3. \A i \in 1..(Len(s) + 1) :
         (i < p => t[i] = s[i]) /\ (i = p => t[i] = e) /\ (i > p => t[i] = s[i - 1])
  BY InsertAtIndex
<1> HIDE DEF t
<1>4. ToSet(t) = ToSet(s) \cup {e}
  <2>1. ASSUME NEW i \in DOMAIN t PROVE t[i] \in ToSet(s) \cup {e}
    <3>1. CASE i < p
      BY <3>1, <1>1, <1>2, <1>3 DEF ToSet
    <3>2. CASE i = p
      BY <3>2, <1>2, <1>3
    <3>3. CASE i > p
      <4>1. i - 1 \in DOMAIN s /\ t[i] = s[i - 1]
        BY <3>3, <1>1, <1>2, <1>3
      <4> QED BY <4>1 DEF ToSet
    <3> QED BY <3>1, <3>2, <3>3, <1>1, <1>2
  <2>2. e \in ToSet(t)
    <3>1. p \in DOMAIN t /\ t[p] = e
      BY <1>1, <1>2, <1>3
    <3> QED BY <3>1 DEF ToSet
  <2>3. ASSUME NEW i \in DOMAIN s PROVE s[i] \in ToSet(t)
    <3>1. CASE i < p
      <4>1. i \in DOMAIN t /\ t[i] = s[i]
        BY <3>1, <1>1, <1>2, <1>3
      <4> QED BY <4>1 DEF ToSet
    <3>2. CASE ~ (i < p)
      <4>1. i + 1 \in DOMAIN t /\ i + 1 > p /\ (i + 1) - 1 = i
        BY <3>2, <1>1, <1>2
      <4>2. t[i + 1] = s[i]
        BY <4>1, <1>2, <1>3
      <4> QED BY <4>1, <4>2 DEF ToSet
    <3> QED BY <3>1, <3>2
  <2> QED BY <2>1, <2>2, <2>3 DEF ToSet
<1>5. ASSUME IsInjective(s), e \notin ToSet(s)
       PROVE  IsInjective(t)
  <2>1. SUFFICES ASSUME NEW a \in DOMAIN t, NEW b \in DOMAIN t, a < b, t[a] = t[b]
                 PROVE  FALSE
    <3>1. \A a, b \in DOMAIN t : a \in Int /\ b \in Int
      BY <1>1, <1>2
    <3> QED BY <3>1 DEF IsInjective
  <2>2. \A x, y \in DOMAIN s : s[x] = s[y] => x = y
    BY <1>5 DEF IsInjective
  <2>3. \A x \in DOMAIN s : s[x] # e
    BY <1>5 DEF ToSet
  <2>4. CASE b < p
    BY <2>1, <2>2, <2>4, <1>1, <1>2, <1>3
  <2>5. CASE b = p
    <3>1. a \in DOMAIN s /\ t[a] = s[a] /\ t[b] = e
      BY <2>1, <2>5, <1>1, <1>2, <1>3
    <3> QED BY <3>1, <2>1, <2>3
  <2>6. CASE b > p
    <3>1. b - 1 \in DOMAIN s /\ t[b] = s[b - 1]
      BY <2>6, <1>1, <1>2, <1>3
    <3>2. CASE a < p
      <4>1. a \in DOMAIN s /\ t[a] = s[a]
        BY <3>2, <1>1, <1>2, <1>3
      <4>2. a = b - 1
        BY <4>1, <3>1, <2>1, <2>2
      <4> QED BY <4>2, <3>2, <2>6, <1>1, <1>2
    <3>3. CASE a = p
      BY <3>1, <3>3, <2>1, <2>3, <1>2, <1>3
    <3>4. CASE a > p
      <4>1. a - 1 \in DOMAIN s /\ t[a] = s[a - 1]
        BY <3>4, <1>1, <1>2, <1>3
      <4>2. a - 1 = b - 1
        BY <4>1, <3>1, <2>1, <2>2
      <4> QED BY <4>2, <2>1, <1>1, <1>2
    <3> QED BY <3>2, <3>3, <3>4, <1>1, <1>2
  <2> QED BY <2>4, <2>5, <2>6, <1>1, <1>2
<1> QED BY <1>2, <1>4, <1>5 DEF t

(* bano_list_add_before at the end of a list is bano_list_add_tail.        *)
LEMMA InsertAtEnd ==
  ASSUME NEW S, NEW s \in Seq(S), NEW e \in S
  PROVE  InsertAt(s, Len(s) + 1, e) = Append(s, e)
<1>1. PICK k, t, u : k = Len(s) + 1 /\ t = InsertAt(s, k, e) /\ u = Append(s, e)
  OBVIOUS
<1>2. Len(s) \in Nat /\ k \in 1..(Len(s) + 1) /\ DOMAIN s = 1..Len(s)
  BY <1>1, LenProperties
<1>3. /\ u \in Seq(S) /\ DOMAIN u = 1..k
      /\ \A i \in 1..Len(s) : u[i] = s[i]
      /\ u[k] = e
  BY <1>1, <1>2, AppendProperties, LenProperties
<1>4. t \in Seq(S) /\ DOMAIN t = 1..k
  BY <1>1, <1>2, InsertAtIndex
<1>5. \A i \in 1..k : (i < k => t[i] = s[i]) /\ (i = k => t[i] = e)
  <2>1. \A i \in 1..(Len(s) + 1) : /\ i < k => InsertAt(s, k, e)[i] = s[i]
                                   /\ i = k => InsertAt(s, k, e)[i] = e
    <3>1. k \in 1..(Len(s) + 1)
      BY <1>2
    <3>2. \A i \in 1..(Len(s) + 1) :
            /\ i < k => InsertAt(s, k, e)[i] = s[i]
            /\ i = k => InsertAt(s, k, e)[i] = e
            /\ i > k => InsertAt(s, k, e)[i] = s[i - 1]
      BY <3>1, InsertAtIndex
    <3> QED BY <3>2, Zenon
  <2> QED BY <1>1, <1>2, <2>1
<1>6. \A i \in 1..k : t[i] = u[i]
  <2>1. \A i \in 1..k : i = k \/ (i < k /\ i \in 1..Len(s))
    BY <1>1, <1>2
  <2> QED BY <1>3, <1>5, <2>1
<1>7. Len(t) = k /\ Len(u) = k
  BY <1>1, <1>2, <1>3, <1>4, LenProperties
<1>8. t = u
  BY <1>3, <1>4, <1>6, <1>7, SeqEqual
<1> QED BY <1>1, <1>8

(* The elements of two lists, one behind the other.                         *)
LEMMA ConcatElements ==
  ASSUME NEW S, NEW s \in Seq(S), NEW t \in Seq(S)
  PROVE  /\ ToSet(s \o t) = ToSet(s) \cup ToSet(t)
         /\ IsInjective(s) /\ IsInjective(t) /\ ToSet(s) \cap ToSet(t) = {}
              => IsInjective(s \o t)
<1> DEFINE u == s \o t
<1>1. /\ Len(s) \in Nat /\ Len(t) \in Nat /\ Len(u) = Len(s) + Len(t)
      /\ DOMAIN s = 1 .. Len(s) /\ DOMAIN t = 1 .. Len(t) /\ DOMAIN u = 1 .. Len(u)
      /\ \A i \in 1 .. Len(s) : u[i] = s[i]
      /\ \A i \in 1 .. Len(t) : u[Len(s) + i] = t[i]
  OBVIOUS
<1>2. \A i \in DOMAIN u : \/ i \in DOMAIN s /\ u[i] = s[i]
                          \/ /\ i - Len(s) \in DOMAIN t /\ i > Len(s)
                             /\ u[i] = t[i - Len(s)]
  <2> SUFFICES ASSUME NEW i \in DOMAIN u, i > Len(s)
               PROVE  i - Len(s) \in DOMAIN t /\ u[i] = t[i - Len(s)]
    BY <1>1
  <2>1. i - Len(s) \in 1 .. Len(t) /\ i = Len(s) + (i - Len(s))
    BY <1>1
  <2> QED BY <1>1, <2>1
<1> HIDE DEF u
<1>3. ToSet(u) = ToSet(s) \cup ToSet(t)
  <2>1. ToSet(u) \subseteq ToSet(s) \cup ToSet(t)
    BY <1>2 DEF ToSet
  <2>2. \A i \in DOMAIN s : s[i] \in ToSet(u)
    BY <1>1 DEF ToSet
  <2>3. \A i \in DOMAIN t : t[i] \in ToSet(u)
    <3> TAKE i \in DOMAIN t
    <3>1. Len(s) + i \in DOMAIN u
      BY <1>1
    <3> QED BY <1>1, <3>1 DEF ToSet
  <2> QED BY <2>1, <2>2, <2>3 DEF ToSet
<1>4. ASSUME IsInjective(s), IsInjective(t), ToSet(s) \cap ToSet(t) = {}
      PROVE  IsInjective(u)
  <2> SUFFICES ASSUME NEW i \in DOMAIN u, NEW j \in DOMAIN u, u[i] = u[j]
               PROVE  i = j
    BY DEF IsInjective
  <2>1. \A k \in DOMAIN s, l \in DOMAIN t : s[k] # t[l]
    BY <1>4 DEF ToSet
  <2>2. CASE i \in DOMAIN s /\ u[i] = s[i] /\ j \in DOMAIN s /\ u[j] = s[j]
    BY <1>4, <2>2 DEF IsInjective
  <2>3. CASE /\ i - Len(s) \in DOMAIN t /\ u[i] = t[i - Len(s)]
             /\ j - Len(s) \in DOMAIN t /\ u[j] = t[j - Len(s)]
    <3>1. i - Len(s) = j - Len(s)
      BY <1>4, <2>3 DEF IsInjective
    <3> QED BY <1>1, <3>1
  <2> QED BY <1>2, <2>1, <2>2, <2>3
<1> QED BY <1>3, <1>4 DEF u

(* What is left of a list behind its first n elements.                    *)
LEMMA RestOfSeq ==
  ASSUME NEW S, NEW s \in Seq(S), NEW n \in 0..Len(s)
  PROVE  /\ SubSeq(s, n + 1, Len(s)) \in Seq(S)
         /\ Len(SubSeq(s, n + 1, Len(s))) = Len(s) - n
         /\ \A i \in 1..(Len(s) - n) : SubSeq(s, n + 1, Len(s))[i] = s[n + i]
<1>1. Len(s) \in Nat /\ s \in [1..Len(s) -> S]
  BY LenProperties
<1>2. PICK m \in Nat : m = Len(s)
  BY <1>1
<1>3. n \in Nat /\ n <= m
  BY <1>2
<1>4. PICK k \in Nat : k = m - n
  BY <1>3
<1>5. PICK r : r = SubSeq(s, n + 1, m)
  OBVIOUS
<1>6. \A i \in (n + 1)..m : s[i] \in S
  BY <1>1, <1>2, <1>3
<1>7. /\ r \in Seq(S)
      /\ Len(r) = IF n + 1 <= m THEN m - (n + 1) + 1 ELSE 0
      /\ \A i \in 1..(m - (n + 1) + 1) : r[i] = s[(n + 1) + i - 1]
  BY <1>3, <1>5, <1>6, SubSeqProperties
<1>8. m - (n + 1) + 1 = k /\ (n + 1 <= m <=> k # 0)
  BY <1>3, <1>4
<1>9. Len(r) = k
  BY <1>7, <1>8
<1>10. ASSUME NEW i \in 1..k PROVE r[i] = s[n + i]
  <2>1. (n + 1) + i - 1 = n + i
    BY <1>3, <1>4
  <2>2. r[i] = s[(n + 1) + i - 1]
    BY <1>7, <1>8
  <2> QED BY <2>1, <2>2
<1> QED BY <1>2, <1>4, <1>5, <1>7, <1>9, <1>10

(* A list cut in two.                                                      *)
LEMMA SplitElements ==
  ASSUME NEW S, NEW s \in Seq(S), NEW n \in 0..Len(s)
  PROVE  /\ SubSeq(s, 1, n) \in Seq(S) /\ Len(SubSeq(s, 1, n)) = n
         /\ SubSeq(s, n + 1, Len(s)) \in Seq(S)
         /\ Len(SubSeq(s, n + 1, Len(s))) = Len(s) - n
         /\ ToSet(SubSeq(s, 1, n)) \cup ToSet(SubSeq(s, n + 1, Len(s))) = ToSet(s)
<1> DEFINE l == SubSeq(s, 1, n)
           r == SubSeq(s, n + 1, Len(s))
<1>1. Len(s) \in Nat /\ DOMAIN s = 1..Len(s) /\ s \in [1..Len(s) -> S]
  BY LenProperties
<1>2. /\ l \in Seq(S) /\ Len(l) = n
      /\ \A i \in 1..n : l[i] = s[i]
  <2>1. \A i \in 1..n : s[i] \in S
    BY <1>1
  <2>2. /\ l \in Seq(S)
        /\ Len(l) = IF 1 <= n THEN n - 1 + 1 ELSE 0
        /\ \A i \in 1..(n - 1 + 1) : l[i] = s[1 + i - 1]
    BY <2>1, <1>1, SubSeqProperties
  <2> QED BY <2>2, <1>1
<1>3. /\ r \in Seq(S) /\ Len(r) = Len(s) - n
      /\ \A i \in 1..(Len(s) - n) : r[i] = s[n + i]
  BY RestOfSeq
<1> HIDE DEF l, r
<1>4. DOMAIN l = 1..n /\ DOMAIN r = 1..(Len(s) - n)
  BY <1>2, <1>3, LenProperties
<1>5. ToSet(l) \subseteq ToSet(s)
  BY <1>1, <1>2, <1>4 DEF ToSet
<1>6. ToSet(r) \subseteq ToSet(s)
  <2>1. \A i \in DOMAIN r : n + i \in DOMAIN s /\ r[i] = s[n + i]
    BY <1>1, <1>3, <1>4
  <2> QED BY <2>1 DEF ToSet
<1>7. ASSUME NEW i \in DOMAIN s PROVE s[i] \in ToSet(l) \cup ToSet(r)
  <2>1. CASE i <= n
    <3>1. i \in DOMAIN l /\ l[i] = s[i]
      BY <1>1, <1>2, <1>4, <2>1
    <3> QED BY <3>1 DEF ToSet
  <2>2. CASE i > n
    <3>1. i - n \in 1..(Len(s) - n) /\ n + (i - n) = i
      BY <1>1, <2>2
    <3>2. i - n \in DOMAIN r /\ r[i - n] = s[i]
      BY <1>3, <1>4, <3>1
    <3> QED BY <3>2 DEF ToSet
  <2> QED BY <1>1, <2>1, <2>2
<1>8. ToSet(l) \cup ToSet(r) = ToSet(s)
  BY <1>5, <1>6, <1>7 DEF ToSet
<1> QED BY <1>2, <1>3, <1>8 DEF l, r
-----------------------------------------------------------------------------
(* The order of the elements of a list.                                     *)
Precedes(s, x, y) == \E u, v \in DOMAIN s : u < v /\ s[u] = x /\ s[v] = y

LEMMA RemoveAtPrecedes ==
  ASSUME NEW S, NEW s \in Seq(S), NEW j \in DOMAIN s, NEW x, NEW y,
         Precedes(RemoveAt(s, j), x, y)
  PROVE  Precedes(s, x, y)
<1> DEFINE t == RemoveAt(s, j)
<1>1. /\ Len(s) \in Nat /\ DOMAIN s = 1..Len(s) /\ DOMAIN t = 1..(Len(s) - 1)
      /\ \A i \in 1..(Len(s) - 1) : t[i] = IF i < j THEN s[i] ELSE s[i + 1]
  BY RemoveAtElements, LenProperties
<1>2. PICK u, v \in DOMAIN t : u < v /\ t[u] = x /\ t[v] = y
  BY DEF Precedes
<1> HIDE DEF t
<1> DEFINE old(i) == IF i < j THEN i ELSE i + 1
<1>3. /\ old(u) \in DOMAIN s /\ old(v) \in DOMAIN s /\ old(u) < old(v)
      /\ s[old(u)] = x /\ s[old(v)] = y
  BY <1>1, <1>2
<1> QED BY <1>3 DEF Precedes

LEMMA TailPrecedes ==
  ASSUME NEW S, NEW s \in Seq(S), s # <<>>, NEW x, NEW y, Precedes(Tail(s), x, y)
  PROVE  Precedes(s, x, y)
<1>1. /\ Len(s) \in Nat /\ DOMAIN s = 1..Len(s) /\ DOMAIN Tail(s) = 1..(Len(s) - 1)
      /\ \A i \in 1..(Len(s) - 1) : Tail(s)[i] = s[i + 1]
  BY HeadTailProperties, LenProperties
<1>2. PICK u, v \in DOMAIN Tail(s) : u < v /\ Tail(s)[u] = x /\ Tail(s)[v] = y
  BY DEF Precedes
<1>3. u + 1 \in DOMAIN s /\ v + 1 \in DOMAIN s /\ u + 1 < v + 1 /\ s[u + 1] = x /\ s[v + 1] = y
  BY <1>1, <1>2
<1> QED BY <1>3 DEF Precedes

LEMMA AppendPrecedes ==
  ASSUME NEW S, NEW s \in Seq(S), NEW e \in S, NEW x, NEW y, Precedes(Append(s, e), x, y)
  PROVE  Precedes(s, x, y) \/ (y = e /\ x \in ToSet(s))
<1> DEFINE t == Append(s, e)
<1>1. /\ Len(s) \in Nat /\ DOMAIN s = 1..Len(s) /\ DOMAIN t = 1..(Len(s) + 1)
      /\ \A i \in 1..Len(s) : t[i] = s[i]
      /\ t[Len(s) + 1] = e
  BY AppendProperties, LenProperties
<1>2. PICK u, v \in DOMAIN t : u < v /\ t[u] = x /\ t[v] = y
  BY DEF Precedes
<1> HIDE DEF t
<1>3. u \in DOMAIN s /\ s[u] = x
  BY <1>1, <1>2
<1>4. CASE v = Len(s) + 1
  BY <1>1, <1>2, <1>3, <1>4 DEF ToSet
<1>5. CASE v # Len(s) + 1
  <2>1. v \in DOMAIN s /\ s[v] = y
    BY <1>1, <1>2, <1>5
  <2> QED BY <2>1, <1>2, <1>3 DEF Precedes
<1> QED BY <1>4, <1>5

LEMMA InsertAtPrecedes ==
  ASSUME NEW S, NEW s \in Seq(S), NEW e \in S, NEW p \in 1..(Len(s) + 1), NEW x, NEW y,
         x # e, y # e, Precedes(InsertAt(s, p, e), x, y)
  PROVE  Precedes(s, x, y)
<1> DEFINE t == InsertAt(s, p, e)
<1>1. /\ Len(s) \in Nat /\ DOMAIN s = 1..Len(s) /\ DOMAIN t = 1..(Len(s) + 1)
      /\ \A i \in 1..(Len(s) + 1) :
           (i < p => t[i] = s[i]) /\ (i = p => t[i] = e) /\ (i > p => t[i] = s[i - 1])
  BY InsertAtIndex, LenProperties
<1>2. PICK u, v \in DOMAIN t : u < v /\ t[u] = x /\ t[v] = y
  BY DEF Precedes
<1> HIDE DEF t
<1> DEFINE old(i) == IF i < p THEN i ELSE i - 1
<1>3. u # p /\ v # p
  BY <1>1, <1>2
<1>4. /\ old(u) \in DOMAIN s /\ old(v) \in DOMAIN s /\ old(u) < old(v)
      /\ s[old(u)] = x /\ s[old(v)] = y
  BY <1>1, <1>2, <1>3
<1> QED BY <1>4 DEF Precedes

LEMMA PrecedesElements ==
  ASSUME NEW s, NEW x, NEW y, Precedes(s, x, y)
  PROVE  x \in ToSet(s) /\ y \in ToSet(s)
BY DEF Precedes, ToSet

(* Induction over the naturals, for a set of them.                         *)
LEMMA SetInduction ==
  ASSUME NEW T \in SUBSET Nat, 0 \in T, \A n \in T : n + 1 \in T
  PROVE  T = Nat
<1>1. SUFFICES ASSUME Nat \ T # {} PROVE FALSE
  OBVIOUS
<1>2. PICK R : R = {ss \in Nat \X Nat : ss[1] < ss[2]}
  OBVIOUS
<1>3. OpToRel(<, Nat) = {ss \in Nat \X Nat : ss[1] < ss[2]}
  BY Zenon DEF OpToRel
<1>4. IsWellFoundedOn(R, Nat)
  BY <1>2, <1>3, NatLessThanWellFounded, Zenon
<1>5. PICK x \in Nat \ T : \A y \in Nat \ T : ~ (<<y, x>> \in R)
  <2>1. Nat \ T \subseteq Nat
    OBVIOUS
  <2> QED BY <1>1, <1>4, <2>1, WFMin
<1>6. x # 0 /\ x - 1 \in Nat /\ x - 1 < x
  OBVIOUS
<1>7. x - 1 \in T
  <2>1. <<x - 1, x>> \in R
    BY <1>2, <1>6
  <2> QED BY <1>5, <1>6, <2>1
<1> QED BY <1>6, <1>7

(* The functions that start at a, and go on from each value to the next.   *)
Chains(n, S, a, F) ==
  {g \in [0 .. n -> S] : g[0] = a /\ \A q \in 1 .. n : g[q] = F[q][g[q - 1]]}

(* There is one.                                                           *)
LEMMA ChainExists ==
  ASSUME NEW n \in Nat, NEW S, NEW a \in S, NEW F \in [1 .. n -> [S -> S]]
  PROVE  \E g : g \in Chains(n, S, a, F)
<1> DEFINE T == {m \in Nat : m <= n => \E g : g \in Chains(m, S, a, F)}
<1>1. 0 \in T
  <2>1. [q \in 0 .. 0 |-> a] \in Chains(0, S, a, F)
    BY DEF Chains
  <2> QED BY <2>1
<1>2. ASSUME NEW m \in T
      PROVE  m + 1 \in T
  <2>1. SUFFICES ASSUME m + 1 <= n
                 PROVE  \E g : g \in Chains(m + 1, S, a, F)
    OBVIOUS
  <2>2. PICK g : g \in Chains(m, S, a, F)
    BY <2>1
  <2>3. g \in [0 .. m -> S] /\ g[0] = a /\ \A q \in 1 .. m : g[q] = F[q][g[q - 1]]
    BY <2>2 DEF Chains
  <2> DEFINE h == [q \in 0 .. m + 1 |-> IF q <= m THEN g[q] ELSE F[m + 1][g[m]]]
  <2>4. h \in [0 .. m + 1 -> S]
    <3>1. m \in 0 .. m /\ m + 1 \in 1 .. n
      BY <2>1
    <3>2. F[m + 1][g[m]] \in S
      BY <2>3, <3>1
    <3> QED BY <2>3, <3>2
  <2>5. h[0] = a
    BY <2>3
  <2>6. ASSUME NEW q \in 1 .. m + 1
        PROVE  h[q] = F[q][h[q - 1]]
    <3>1. CASE q <= m
      <4>1. h[q] = g[q] /\ h[q - 1] = g[q - 1] /\ q \in 1 .. m
        BY <3>1
      <4> QED BY <2>3, <4>1
    <3>2. CASE q = m + 1
      <4>1. h[q] = F[m + 1][g[m]] /\ h[q - 1] = g[m]
        BY <3>2
      <4> QED BY <3>2, <4>1
    <3> QED BY <3>1, <3>2
  <2> HIDE DEF h
  <2>7. h \in Chains(m + 1, S, a, F)
    BY <2>4, <2>5, <2>6 DEF Chains
  <2> QED BY <2>7
<1>3. n \in T
  <2> HIDE DEF T
  <2>1. T \subseteq Nat
    BY DEF T
  <2> QED BY <1>1, <1>2, <2>1, SetInduction
<1> QED BY <1>3

(* A function is defined by the recursion that sums the values of another, *)
LEMMA SumsExist ==
  ASSUME NEW n \in Nat, NEW f, \A q \in 1 .. n : f[q] \in Int
  PROVE  \E g : g = [q \in 0 .. n |-> IF q = 0 THEN 0 ELSE g[q - 1] + f[q]]
<1> DEFINE F == [q \in 1 .. n |-> [x \in Int |-> x + f[q]]]
<1>1. PICK g \in [0 .. n -> Int] : g[0] = 0 /\ \A q \in 1 .. n : g[q] = g[q - 1] + f[q]
  <2>1. F \in [1 .. n -> [Int -> Int]]
    OBVIOUS
  <2>2. \A q \in 1 .. n, x \in Int : F[q][x] = x + f[q]
    OBVIOUS
  <2> HIDE DEF F
  <2>3. PICK g \in [0 .. n -> Int] : g[0] = 0 /\ \A q \in 1 .. n : g[q] = F[q][g[q - 1]]
    <3>1. PICK S, a, G : S = Int /\ a = 0 /\ G = F
      OBVIOUS
    <3>2. a \in S /\ G \in [1 .. n -> [S -> S]]
      BY <2>1, <3>1
    <3>3. PICK g : g \in Chains(n, S, a, G)
      BY <3>2, ChainExists, Zenon
    <3>4. g \in Chains(n, Int, 0, F)
      BY <3>1, <3>3
    <3> QED BY <3>4 DEF Chains
  <2>4. ASSUME NEW q \in 1 .. n
        PROVE  g[q] = g[q - 1] + f[q]
    <3>1. q - 1 \in 0 .. n /\ g[q - 1] \in Int
      OBVIOUS
    <3> QED BY <2>2, <2>3, <3>1
  <2> QED BY <2>3, <2>4
<1>2. g = [q \in 0 .. n |-> IF q = 0 THEN 0 ELSE g[q - 1] + f[q]]
  BY <1>1
<1> QED BY <1>2

(* and its values are integers.                                            *)
LEMMA PrefixSums ==
  ASSUME NEW n \in Nat, NEW f, \A q \in 1 .. n : f[q] \in Int,
         NEW s, s[0] = 0, \A q \in 1 .. n : s[q] = s[q - 1] + f[q]
  PROVE  \A q \in 0 .. n : s[q] \in Int
<1> DEFINE T == {m \in Nat : m <= n => s[m] \in Int}
<1>1. 0 \in T
  OBVIOUS
<1>2. ASSUME NEW m \in T
      PROVE  m + 1 \in T
  <2>1. m + 1 <= n => m + 1 \in 1 .. n /\ s[m + 1] = s[m] + f[m + 1] /\ s[m] \in Int
    OBVIOUS
  <2> QED BY <2>1
<1>3. 0 .. n \subseteq T
  <2> HIDE DEF T
  <2> T \subseteq Nat
    BY DEF T
  <2> QED BY <1>1, <1>2, SetInduction
<1>4. \A m \in T : m <= n => s[m] \in Int
  OBVIOUS
<1> HIDE DEF T
<1> QED BY <1>3, <1>4

(* FlattenSeq puts one list after the other behind what it has.            *)
LEMMA FlattenSteps ==
  ASSUME NEW S, NEW ss \in Seq(Seq(S))
  PROVE  \E g \in [0 .. Len(ss) -> Seq(S)] :
            /\ g[0] = <<>> /\ \A i \in 1 .. Len(ss) : g[i] = g[i - 1] \o ss[i]
            /\ FlattenSeq(ss) = g[Len(ss)]
<1>1. PICK n \in Nat : n = Len(ss)
  BY LenProperties
<1>2. \A i \in 1 .. n : ss[i] \in Seq(S)
  BY <1>1
<1>3. <<>> \in Seq(S) /\ \A t \in Seq(S) : <<>> \o t = t
  OBVIOUS
<1> DEFINE F == [i \in 1 .. n |-> [x \in Seq(S) |-> x \o ss[i]]]
<1>4. PICK g \in [0 .. n -> Seq(S)] :
        g[0] = <<>> /\ \A i \in 1 .. n : g[i] = g[i - 1] \o ss[i]
  <2>1. F \in [1 .. n -> [Seq(S) -> Seq(S)]]
    <3> SUFFICES ASSUME NEW i \in 1 .. n, NEW x \in Seq(S)
                 PROVE  x \o ss[i] \in Seq(S)
      OBVIOUS
    <3> QED BY <1>2, ConcatProperties
  <2>2. \A i \in 1 .. n, x \in Seq(S) : F[i][x] = x \o ss[i]
    OBVIOUS
  <2> HIDE DEF F
  <2>3. PICK R, a, G : R = Seq(S) /\ a = <<>> /\ G = F
    OBVIOUS
  <2>4. a \in R /\ G \in [1 .. n -> [R -> R]]
    BY <1>3, <2>1, <2>3
  <2>5. PICK g : g \in Chains(n, R, a, G)
    BY <2>4, ChainExists, Zenon
  <2>6. g \in [0 .. n -> Seq(S)] /\ g[0] = <<>> /\ \A i \in 1 .. n : g[i] = F[i][g[i - 1]]
    BY <2>3, <2>5 DEF Chains
  <2>7. ASSUME NEW i \in 1 .. n
        PROVE  g[i] = g[i - 1] \o ss[i]
    <3>1. i - 1 \in 0 .. n /\ g[i - 1] \in Seq(S)
      BY <2>6
    <3> QED BY <2>2, <2>6, <3>1
  <2> QED BY <2>6, <2>7
<1>5. n # 0 => g[1] = ss[1]
  <2> SUFFICES ASSUME n # 0 PROVE g[1] = ss[1]
    OBVIOUS
  <2>1. 1 \in 1 .. n /\ 1 - 1 = 0
    OBVIOUS
  <2>2. g[1] = g[1 - 1] \o ss[1]
    BY <1>4, <2>1
  <2>3. g[1] = <<>> \o ss[1] /\ ss[1] \in Seq(S)
    BY <1>2, <1>4, <2>1, <2>2
  <2> QED BY <1>3, <2>3
<1>6. CASE n = 0
  <2>1. Len(ss) = 0 /\ ss = <<>>
    BY <1>1, <1>6, EmptySeq
  <2>2. FlattenSeq(ss) = ss
    BY <2>1, Zenon DEF FlattenSeq
  <2> QED BY <1>1, <1>4, <1>6, <2>1, <2>2
<1>7. CASE n # 0
  <2>1. PICK h : h = [i \in 1 .. n |-> IF i = 1 THEN ss[i] ELSE h[i - 1] \o ss[i]]
    <3>1. PICK h : h = [i \in 1 .. n |-> g[i]]
      OBVIOUS
    <3>2. ASSUME NEW i \in 1 .. n
          PROVE  h[i] = IF i = 1 THEN ss[i] ELSE h[i - 1] \o ss[i]
      <4>1. CASE i = 1
        <5> QED BY <1>5, <3>1, <4>1
      <4>2. CASE i # 1
        <5>1. i - 1 \in 1 .. n
          BY <4>2
        <5> QED BY <1>4, <3>1, <4>2, <5>1
      <4> QED BY <4>1, <4>2
    <3>3. h = [i \in 1 .. n |-> IF i = 1 THEN ss[i] ELSE h[i - 1] \o ss[i]]
      BY <3>1, <3>2
    <3> QED BY <3>3
  <2>2. PICK f : /\ f = [i \in 1 .. n |-> IF i = 1 THEN ss[i] ELSE f[i - 1] \o ss[i]]
                 /\ FlattenSeq(ss) = f[n]
    BY <1>1, <1>7, <2>1 DEF FlattenSeq
  <2>3. \A i \in 1 .. n : f[i] = IF i = 1 THEN ss[i] ELSE f[i - 1] \o ss[i]
    BY <2>2
  <2> DEFINE T == {m \in Nat : m \in 1 .. n => f[m] = g[m]}
  <2>4. ASSUME NEW m \in T
        PROVE  m + 1 \in T
    <3> SUFFICES ASSUME m + 1 \in 1 .. n
                 PROVE  f[m + 1] = g[m + 1]
      OBVIOUS
    <3>1. CASE m = 0
      <4> QED BY <1>5, <2>3, <3>1
    <3>2. CASE m # 0
      <4>1. m \in 1 .. n /\ (m + 1) - 1 = m /\ m + 1 # 1 /\ f[m] = g[m]
        BY <3>2
      <4>2. f[m + 1] = f[m] \o ss[m + 1]
        <5>1. f[m + 1] = f[(m + 1) - 1] \o ss[m + 1]
          BY <2>3, <4>1
        <5> QED BY <4>1, <5>1
      <4>3. g[m + 1] = g[m] \o ss[m + 1]
        <5>1. g[m + 1] = g[(m + 1) - 1] \o ss[m + 1]
          BY <1>4
        <5> QED BY <4>1, <5>1
      <4> QED BY <4>1, <4>2, <4>3
    <3> QED BY <3>1, <3>2
  <2>5. 0 \in T
    OBVIOUS
  <2>6. n \in T
    <3> HIDE DEF T
    <3> T \subseteq Nat
      BY DEF T
    <3> QED BY <2>4, <2>5, SetInduction
  <2>7. f[n] = g[n]
    BY <1>7, <2>6
  <2> QED BY <1>1, <1>4, <2>2, <2>7
<1> QED BY <1>6, <1>7

(* Whatever does that gives the same.                                      *)
LEMMA FlattenBy ==
  ASSUME NEW S, NEW ss \in Seq(Seq(S)), NEW f, f[0] = <<>>,
         \A i \in 1 .. Len(ss) : f[i] = f[i - 1] \o ss[i]
  PROVE  FlattenSeq(ss) = f[Len(ss)]
<1>1. PICK n \in Nat : n = Len(ss)
  BY LenProperties
<1>2. PICK g : /\ g[0] = <<>> /\ \A i \in 1 .. n : g[i] = g[i - 1] \o ss[i]
               /\ FlattenSeq(ss) = g[n]
  BY <1>1, FlattenSteps
<1> DEFINE T == {m \in Nat : m <= n => f[m] = g[m]}
<1>3. 0 \in T
  BY <1>2
<1>4. ASSUME NEW m \in T
      PROVE  m + 1 \in T
  <2> SUFFICES ASSUME m + 1 <= n
               PROVE  f[m + 1] = g[m + 1]
    OBVIOUS
  <2>1. m + 1 \in 1 .. n /\ (m + 1) - 1 = m /\ f[m] = g[m]
    OBVIOUS
  <2>2. f[m + 1] = f[(m + 1) - 1] \o ss[m + 1]
    BY <1>1, <2>1
  <2>3. g[m + 1] = g[(m + 1) - 1] \o ss[m + 1]
    BY <1>2, <2>1
  <2> QED BY <2>1, <2>2, <2>3
<1>5. n \in T
  <2> HIDE DEF T
  <2> T \subseteq Nat
    BY DEF T
  <2> QED BY <1>3, <1>4, SetInduction
<1> QED BY <1>1, <1>2, <1>5

(* The elements of a list of lists.                                        *)
LEMMA FlattenElements ==
  ASSUME NEW S, NEW ss \in Seq(Seq(S))
  PROVE  /\ FlattenSeq(ss) \in Seq(S)
         /\ ToSet(FlattenSeq(ss)) = UNION {ToSet(ss[i]) : i \in 1 .. Len(ss)}
<1>1. PICK n \in Nat : n = Len(ss)
  BY LenProperties
<1>2. PICK g \in [0 .. n -> Seq(S)] :
        /\ g[0] = <<>> /\ \A i \in 1 .. n : g[i] = g[i - 1] \o ss[i]
        /\ FlattenSeq(ss) = g[n]
  BY <1>1, FlattenSteps
<1>3. \A i \in 1 .. n : ss[i] \in Seq(S)
  BY <1>1
<1> DEFINE T == {m \in Nat : m <= n => ToSet(g[m]) = UNION {ToSet(ss[i]) : i \in 1 .. m}}
<1>4. 0 \in T
  <2>1. ToSet(g[0]) = {}
    BY <1>2 DEF ToSet
  <2> QED BY <2>1
<1>5. ASSUME NEW m \in T
      PROVE  m + 1 \in T
  <2> SUFFICES ASSUME m + 1 <= n
               PROVE  ToSet(g[m + 1]) = UNION {ToSet(ss[i]) : i \in 1 .. m + 1}
    OBVIOUS
  <2>1. PICK s \in Seq(S), t \in Seq(S) : s = g[m] /\ t = ss[m + 1]
    BY <1>2, <1>3
  <2>2. g[m + 1] = s \o t
    <3>1. m + 1 \in 1 .. n /\ (m + 1) - 1 = m
      OBVIOUS
    <3> QED BY <1>2, <2>1, <3>1
  <2>3. ToSet(s \o t) = ToSet(s) \cup ToSet(t)
    BY ConcatElements
  <2>4. ToSet(s) = UNION {ToSet(ss[i]) : i \in 1 .. m}
    BY <2>1
  <2>5. 1 .. m + 1 = 1 .. m \cup {m + 1}
    OBVIOUS
  <2> QED BY <2>1, <2>2, <2>3, <2>4, <2>5
<1>6. n \in T
  <2> HIDE DEF T
  <2> T \subseteq Nat
    BY DEF T
  <2> QED BY <1>4, <1>5, SetInduction
<1> QED BY <1>1, <1>2, <1>6

(* A set of naturals has a least one.                                      *)
LEMMA LeastExists ==
  ASSUME NEW T \in SUBSET Nat, T # {}
  PROVE  \E x \in T : \A y \in T : x <= y
<1>1. PICK R : R = {ss \in Nat \X Nat : ss[1] < ss[2]}
  OBVIOUS
<1>2. OpToRel(<, Nat) = {ss \in Nat \X Nat : ss[1] < ss[2]}
  BY Zenon DEF OpToRel
<1>3. IsWellFoundedOn(R, Nat)
  BY <1>1, <1>2, NatLessThanWellFounded, Zenon
<1>4. PICK x \in T : \A y \in T : ~ (<<y, x>> \in R)
  BY <1>3, WFMin
<1>5. ASSUME NEW y \in T
      PROVE  x <= y
  <2>1. y < x => <<y, x>> \in R
    BY <1>1
  <2> QED BY <1>4, <2>1
<1> QED BY <1>5

LEMMA FlattenAppend ==
  ASSUME NEW S, NEW ss \in Seq(Seq(S)), NEW t \in Seq(S)
  PROVE  FlattenSeq(Append(ss, t)) = FlattenSeq(ss) \o t
<1>1. PICK n \in Nat : n = Len(ss)
  BY LenProperties
<1>2. PICK g : /\ g[0] = <<>> /\ \A i \in 1 .. n : g[i] = g[i - 1] \o ss[i]
               /\ FlattenSeq(ss) = g[n]
  BY <1>1, FlattenSteps
<1>3. PICK Q : Q = Seq(S)
  OBVIOUS
<1>4. PICK u : u = Append(ss, t)
  OBVIOUS
<1>5. /\ u \in Seq(Q) /\ Len(u) = n + 1 /\ u[n + 1] = t
      /\ \A i \in 1 .. n : u[i] = ss[i]
  BY <1>1, <1>3, <1>4, AppendProperties
<1>6. PICK f : f = [i \in 0 .. n + 1 |-> IF i <= n THEN g[i] ELSE g[n] \o t]
  OBVIOUS
<1>7. f[0] = <<>> /\ f[n + 1] = g[n] \o t /\ f[n] = g[n]
  BY <1>2, <1>6
<1>8. ASSUME NEW i \in 1 .. n + 1
      PROVE  f[i] = f[i - 1] \o u[i]
  <2>1. CASE i \in 1 .. n
    <3>1. f[i] = g[i] /\ f[i - 1] = g[i - 1]
      BY <1>6, <2>1
    <3> QED BY <1>2, <1>5, <2>1, <3>1
  <2>2. CASE i = n + 1
    <3>1. i - 1 = n
      BY <2>2
    <3> QED BY <1>5, <1>7, <2>2, <3>1
  <2>3. i \in 1 .. n \/ i = n + 1
    OBVIOUS
  <2> QED BY <2>1, <2>2, <2>3
<1>9. u \in Seq(Seq(S)) /\ Len(u) = n + 1
  BY <1>3, <1>5
<1>10. FlattenSeq(u) = f[n + 1]
  BY <1>7, <1>8, <1>9, FlattenBy
<1> QED BY <1>2, <1>4, <1>7, <1>10

LEMMA FlattenEmpty == FlattenSeq(<<>>) = <<>>
<1>1. Len(<<>>) = 0
  OBVIOUS
<1> QED BY <1>1, Zenon DEF FlattenSeq

(* A part of a sequence that is one element longer.                        *)
LEMMA SubSeqAppend ==
  ASSUME NEW S, NEW s \in Seq(S), NEW i \in 1 .. Len(s), NEW m \in i .. Len(s), NEW l, l = m - 1
  PROVE  SubSeq(s, i, m) = SubSeq(s, i, l) \o <<s[m]>>
BY SubSeqRecursiveSecond

LEMMA SubSeqConcat ==
  ASSUME NEW S, NEW s \in Seq(S), NEW i \in 1 .. Len(s) + 1, NEW k \in i - 1 .. Len(s),
         NEW m \in k .. Len(s), NEW l, l = k + 1
  PROVE  SubSeq(s, i, k) \o SubSeq(s, l, m) = SubSeq(s, i, m)
BY ConcatAdjacentSubSeq

LEMMA SubSeqTwo ==
  ASSUME NEW S, NEW s \in Seq(S), NEW i \in 1 .. Len(s), NEW d \in 1 .. Len(s), d = i + 1
  PROVE  SubSeq(s, i, d) = <<s[i], s[d]>>
<1>1. PICK n \in Nat : n = Len(s) /\ \A q \in 1 .. n : s[q] \in S
  BY LenProperties, ElementOfSeq
<1>2. PICK e \in Int : e = i - 1 /\ i \in Nat
  BY <1>1
<1>3. SubSeq(s, i, e) = <<>>
  BY <1>2, SubSeqEmpty
<1>4. SubSeq(s, i, i) = <<>> \o <<s[i]>>
  <2>1. i \in i .. Len(s)
    BY <1>1
  <2>2. SubSeq(s, i, i) = SubSeq(s, i, e) \o <<s[i]>>
    BY <1>2, <2>1, SubSeqAppend, Zenon
  <2> QED BY <1>3, <2>2
<1>5. SubSeq(s, i, d) = (<<>> \o <<s[i]>>) \o <<s[d]>>
  <2>1. d \in i .. Len(s) /\ i = d - 1
    BY <1>1
  <2> QED BY <1>4, <2>1, SubSeqAppend
<1>6. s[i] \in S /\ s[d] \in S
  BY <1>1
<1>7. PICK u \in Seq(S) : u = <<s[i]>>
  <2>1. <<s[i]>> \in Seq(S)
    BY <1>6
  <2> QED BY <2>1
<1>8. <<>> \o u = u
  BY ConcatEmptySeq
<1>9. u \o <<s[d]>> = Append(u, s[d])
  BY <1>6, AppendIsConcat
<1>10. Append(u, s[d]) = <<s[i], s[d]>>
  <2>1. PICK w \in Seq(S) : w = Append(u, s[d])
    BY <1>6, AppendProperties
  <2>2. Len(u) = 1 /\ u[1] = s[i]
    BY <1>7
  <2>3. Len(w) = 2 /\ w[1] = s[i] /\ w[2] = s[d]
    <3>1. PICK x \in S : x = s[d]
      BY <1>6
    <3>2. /\ Len(Append(u, x)) = Len(u) + 1 /\ Append(u, x)[Len(u) + 1] = x
          /\ \A q \in 1 .. Len(u) : Append(u, x)[q] = u[q]
      BY AppendProperties
    <3>3. w = Append(u, x)
      BY <2>1, <3>1
    <3>4. 1 \in 1 .. Len(u) /\ Len(u) + 1 = 2
      BY <2>2
    <3> QED BY <2>2, <3>1, <3>2, <3>3, <3>4, Zenon
  <2>4. PICK v \in Seq(S) : v = <<s[i], s[d]>> /\ Len(v) = 2 /\ v[1] = s[i] /\ v[2] = s[d]
    <3>1. <<s[i], s[d]>> \in Seq(S)
      BY <1>6
    <3> QED BY <3>1
  <2>5. \A q \in 1 .. 2 : v[q] = w[q]
    BY <2>3, <2>4
  <2>6. v = w
    BY <2>3, <2>4, <2>5, SeqEqual
  <2> QED BY <2>1, <2>4, <2>6
<1> QED BY <1>5, <1>7, <1>8, <1>9, <1>10

(* What m has for the elements of a sequence, in a sequence of its own.    *)
LEMMA MapSeq ==
  ASSUME NEW A, NEW Q, NEW m \in [A -> Q], NEW s \in Seq(A), NEW n, n = Len(s),
         NEW t, t = [k \in 1 .. n |-> m[s[k]]]
  PROVE  t \in Seq(Q) /\ Len(t) = n /\ \A k \in 1 .. n : t[k] = m[s[k]]
<1>1. n \in Nat /\ \A k \in 1 .. n : s[k] \in A
  BY LenProperties, ElementOfSeq
<1>2. t \in [1 .. n -> Q]
  BY <1>1
<1>3. t \in Seq(Q) /\ Len(t) = n
  BY <1>1, <1>2
<1> QED BY <1>3

LEMMA FlattenLonger ==
  ASSUME NEW S, NEW t \in Seq(Seq(S)), NEW v \in Seq(Seq(S)), Len(v) = Len(t) + 1,
         \A k \in 1 .. Len(t) : v[k] = t[k]
  PROVE  FlattenSeq(v) = FlattenSeq(t) \o v[Len(t) + 1]
<1>1. PICK Q : Q = Seq(S)
  OBVIOUS
<1>2. PICK n \in Nat : n = Len(t) /\ Len(v) = n + 1 /\ n + 1 \in 1 .. n + 1
  BY LenProperties
<1>3. PICK y \in Q : y = v[n + 1]
  BY <1>1, <1>2, ElementOfSeq
<1>4. PICK u \in Seq(Q) : u = Append(t, y)
  BY <1>1, <1>3, AppendProperties
<1>5. Len(u) = n + 1 /\ u[n + 1] = y /\ \A k \in 1 .. n : u[k] = t[k]
  BY <1>1, <1>2, <1>3, <1>4, AppendProperties
<1>6. \A k \in 1 .. n + 1 : k \in 1 .. n \/ k = n + 1
  OBVIOUS
<1>7. \A k \in 1 .. n + 1 : v[k] = u[k]
  BY <1>2, <1>3, <1>5, <1>6
<1>8. v \in Seq(Q)
  BY <1>1
<1>9. v = u
  BY <1>2, <1>5, <1>7, <1>8, SeqEqual
<1>10. FlattenSeq(Append(t, y)) = FlattenSeq(t) \o y
  BY <1>1, <1>3, FlattenAppend
<1> QED BY <1>2, <1>3, <1>4, <1>9, <1>10

(* The pieces that m has for the elements of a sequence, one after another.*)
Pieces(m, s) == FlattenSeq([k \in DOMAIN s |-> m[s[k]]])
IsPieces(m, A, S) == m \in [A -> Seq(S)]

LEMMA PiecesAppend ==
  ASSUME NEW S, NEW A, NEW m, IsPieces(m, A, S), NEW s \in Seq(A), NEW x \in A
  PROVE  Pieces(m, s) \in Seq(S) /\ Pieces(m, Append(s, x)) = Pieces(m, s) \o m[x]
<1>1. PICK Q : Q = Seq(S)
  OBVIOUS
<1>2. m \in [A -> Q]
  BY <1>1 DEF IsPieces
<1>3. PICK n \in Nat : n = Len(s)
  BY LenProperties
<1>4. PICK t \in Seq(Q) : /\ t = [k \in DOMAIN s |-> m[s[k]]] /\ Len(t) = n
                          /\ \A k \in 1 .. n : t[k] = m[s[k]]
  <2>1. PICK t : t = [k \in 1 .. n |-> m[s[k]]]
    OBVIOUS
  <2>2. t \in Seq(Q) /\ Len(t) = n /\ \A k \in 1 .. n : t[k] = m[s[k]]
    BY <1>2, <1>3, <2>1, MapSeq
  <2>3. DOMAIN s = 1 .. n
    BY <1>3, LenProperties
  <2> QED BY <2>1, <2>2, <2>3, Zenon
<1>5. PICK r \in Seq(A), l \in Nat : r = Append(s, x) /\ l = n + 1
  <2>1. Append(s, x) \in Seq(A) /\ n + 1 \in Nat
    BY AppendProperties
  <2> QED BY <2>1
<1>6. Len(r) = l /\ DOMAIN r = 1 .. l /\ r[l] = x /\ \A k \in 1 .. n : r[k] = s[k]
  <2>1. Len(r) = l /\ r[l] = x /\ \A k \in 1 .. n : r[k] = s[k]
    BY <1>3, <1>5, AppendProperties
  <2> QED BY <2>1, LenProperties
<1>7. PICK v \in Seq(Q) : /\ v = [k \in DOMAIN r |-> m[r[k]]] /\ Len(v) = l
                          /\ \A k \in 1 .. l : v[k] = m[r[k]]
  <2>1. PICK v : v = [k \in 1 .. l |-> m[r[k]]]
    OBVIOUS
  <2>2. v \in Seq(Q) /\ Len(v) = l /\ \A k \in 1 .. l : v[k] = m[r[k]]
    BY <1>2, <1>6, <2>1, MapSeq
  <2> QED BY <1>6, <2>1, <2>2, Zenon
<1>8. l \in 1 .. l /\ \A k \in 1 .. n : k \in 1 .. l
  BY <1>5
<1>9. v[l] = m[x] /\ \A k \in 1 .. n : v[k] = t[k]
  <2>1. v[l] = m[x]
    BY <1>6, <1>7, <1>8
  <2>2. ASSUME NEW k \in 1 .. n
        PROVE  v[k] = t[k]
    <3>1. v[k] = m[r[k]] /\ r[k] = s[k] /\ t[k] = m[s[k]]
      BY <1>4, <1>6, <1>7, <1>8, Zenon
    <3> QED BY <3>1
  <2> QED BY <2>1, <2>2
<1>10. FlattenSeq(v) = FlattenSeq(t) \o v[l]
  <2>1. t \in Seq(Seq(S)) /\ v \in Seq(Seq(S)) /\ Len(v) = Len(t) + 1 /\ l = Len(t) + 1
    BY <1>1, <1>4, <1>5, <1>7
  <2>2. \A k \in 1 .. Len(t) : v[k] = t[k]
    BY <1>4, <1>9
  <2> QED BY <2>1, <2>2, FlattenLonger
<1>11. FlattenSeq(t) \in Seq(S)
  BY <1>1, FlattenElements
<1>12. Pieces(m, s) = FlattenSeq(t) /\ Pieces(m, r) = FlattenSeq(v)
  BY <1>4, <1>7, Zenon DEF Pieces
<1>13. m[x] \in Seq(S)
  BY DEF IsPieces
<1> QED BY <1>2, <1>5, <1>9, <1>10, <1>11, <1>12, <1>13

(* A sequence without the element that was appended to it.                 *)
LEMMA SubSeqOfAppend ==
  ASSUME NEW S, NEW s \in Seq(S), NEW x \in S, NEW n, n = Len(s)
  PROVE  SubSeq(Append(s, x), 1, n) = s
<1>1. n \in Nat /\ \A k \in 1 .. n : s[k] \in S
  BY LenProperties, ElementOfSeq
<1>2. PICK r \in Seq(S) : r = Append(s, x)
  BY AppendProperties
<1>3. \A k \in 1 .. n : r[k] = s[k]
  BY <1>2, AppendProperties
<1>4. 1 \in Int /\ n \in Int /\ \A k \in 1 .. n : r[k] \in S
  BY <1>1, <1>3
<1>5. PICK q : q = SubSeq(r, 1, n)
  OBVIOUS
<1>6. /\ q \in Seq(S) /\ Len(q) = IF 1 <= n THEN n - 1 + 1 ELSE 0
      /\ \A k \in 1 .. n - 1 + 1 : q[k] = r[1 + k - 1]
  BY <1>4, <1>5, SubSeqProperties
<1>7. n - 1 + 1 = n /\ \A k \in 1 .. n : 1 + k - 1 = k
  BY <1>1
<1>8. Len(q) = n
  BY <1>1, <1>6, <1>7
<1>9. \A k \in 1 .. n : q[k] = s[k]
  BY <1>3, <1>6, <1>7
<1>10. q = s
  BY <1>6, <1>8, <1>9, SeqEqual
<1> QED BY <1>2, <1>5, <1>10
==============================================================================
