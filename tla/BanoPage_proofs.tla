-------------------------- MODULE BanoPage_proofs --------------------------
(***************************************************************************)
(* The buffer of a page holds what was appended to it and nothing is       *)
(* written past its end, for any size of block and any lengths of text.    *)
(* What is appended is what the dictionaries hold, and they hold what was  *)
(* last set, for any keys, hash and descriptions.                          *)
(***************************************************************************)
EXTENDS BanoPage, SeqLemmas

(* A buffer over the cells S.                                              *)
Buffer(S) == [data : Seq(S), size : Nat, off : Nat, err : BOOLEAN]
Within(h) == Len(h.data) = h.size /\ h.off <= h.size

(* What is in the buffer below off is d.                                   *)
Holds(h, d) == Len(d) = h.off /\ \A i \in 1 .. h.off : h.data[i] = d[i]

IInv ==
  /\ Within(html)
  /\ \E S : html \in Buffer(S) /\ due \in Seq(S)
  /\ IF html.err THEN html.off = 0 /\ due = <<>> ELSE Holds(html, due)
-----------------------------------------------------------------------------
(* Sequences                                                               *)

(* A function on 1 .. n is a sequence.                                     *)
LEMMA Listing ==
  ASSUME NEW S, NEW n \in Nat, NEW f \in [1 .. n -> S]
  PROVE  f \in Seq(S) /\ Len(f) = n
OBVIOUS

LEMMA Wider ==
  ASSUME NEW S, NEW T, S \subseteq T, NEW s \in Seq(S)
  PROVE  s \in Seq(T)
<1>1. Len(s) \in Nat /\ s \in [1 .. Len(s) -> S]
  BY LenProperties
<1>2. s \in [1 .. Len(s) -> T]
  BY <1>1
<1> QED BY <1>1, <1>2, Listing

(* realloc rounds up to blocks, and always leaves room for one cell more.  *)
LEMMA Rounded ==
  ASSUME NEW n \in Nat
  PROVE  ((n + Block) \div Block) * Block \in Nat /\ ((n + Block) \div Block) * Block > n
<1>1. Block \in Nat \ {0}
  BY PageAssumption
<1>2. ASSUME NEW a \in Nat, NEW b \in Nat \ {0}
      PROVE  /\ a \div b \in Nat /\ a % b \in 0 .. b - 1
             /\ a = b * (a \div b) + (a % b)
  BY <1>2
<1>3. PICK a \in Nat : a = n + Block
  BY <1>1
<1> DEFINE q == a \div Block
           m == a % Block
<1>4. q \in Nat /\ m \in 0 .. Block - 1 /\ a = Block * q + m
  BY <1>1, <1>2
<1> HIDE DEF q, m
<1>5. PICK z \in Nat : z = Block * q /\ z = q * Block
  BY <1>1, <1>4
<1>6. z > n
  BY <1>1, <1>3, <1>4, <1>5
<1> QED BY <1>3, <1>5, <1>6 DEF q
-----------------------------------------------------------------------------
(* The buffer                                                              *)

LEMMA PutHolds ==
  ASSUME NEW S, NEW h \in Buffer(S), Within(h), NEW cells \in Seq(S),
         h.off + Len(cells) <= h.size
  PROVE  /\ Put(h, cells) \in Buffer(S) /\ Within(Put(h, cells))
         /\ Put(h, cells).off = h.off /\ Put(h, cells).size = h.size
         /\ Put(h, cells).err = h.err
         /\ \A i \in 1 .. h.off : Put(h, cells).data[i] = h.data[i]
         /\ \A i \in h.off + 1 .. h.off + Len(cells) :
              Put(h, cells).data[i] = cells[i - h.off]
<1>1. /\ h.data \in Seq(S) /\ h.size \in Nat /\ h.off \in Nat /\ h.err \in BOOLEAN
      /\ Len(h.data) = h.size
  BY DEF Buffer, Within
<1>2. PICK n \in Nat : n = Len(cells)
  BY LenProperties
<1>3. PICK data : data = [i \in 1 .. h.size |->
                            IF i \in h.off + 1 .. h.off + n THEN cells[i - h.off] ELSE h.data[i]]
  OBVIOUS
<1>4. Put(h, cells) = [h EXCEPT !.data = data]
  <2>1. (IF h.off + Len(cells) > Len(h.data) THEN h.off + Len(cells) ELSE Len(h.data)) = h.size
    BY <1>1, <1>2
  <2> QED BY <1>2, <1>3, <2>1 DEF Put
<1>5. \A i \in 1 .. h.size : h.data[i] \in S
  BY <1>1, LenProperties
<1>6. \A i \in h.off + 1 .. h.off + n : i - h.off \in 1 .. n /\ cells[i - h.off] \in S
  BY <1>1, <1>2, LenProperties
<1>7. data \in [1 .. h.size -> S]
  BY <1>3, <1>5, <1>6
<1>8. data \in Seq(S) /\ Len(data) = h.size
  BY <1>1, <1>7, Listing
<1>9. Put(h, cells) = [data |-> data, size |-> h.size, off |-> h.off, err |-> h.err]
  BY <1>4 DEF Buffer
<1>10. /\ \A i \in 1 .. h.off : data[i] = h.data[i]
       /\ \A i \in h.off + 1 .. h.off + n : data[i] = cells[i - h.off]
  BY <1>1, <1>2, <1>3 DEF Within
<1> QED BY <1>1, <1>2, <1>8, <1>9, <1>10 DEF Buffer, Within

(* The buffer h, without what it holds from off on, is kept in g.          *)
Keeps(h, g) ==
  /\ g.off = h.off /\ g.err = h.err
  /\ \A i \in 1 .. h.off : g.data[i] = h.data[i]

LEMMA ResizedHolds ==
  ASSUME NEW S, Garbage \in S, NEW h \in Buffer(S), Within(h), NEW n \in Nat, n >= h.off
  PROVE  /\ Resized(h, n) \in Buffer(S) /\ Within(Resized(h, n))
         /\ Resized(h, n).size > n
         /\ Keeps(h, Resized(h, n))
<1>1. /\ h.data \in Seq(S) /\ h.size \in Nat /\ h.off \in Nat /\ h.err \in BOOLEAN
      /\ Len(h.data) = h.size /\ h.off <= h.size
  BY DEF Buffer, Within
<1>2. PICK z \in Nat : z = ((n + Block) \div Block) * Block /\ z > n
  BY Rounded
<1> DEFINE t == Times(Garbage, z)
           d == h.data
           u == d \o t
<1>3. t \in Seq(S) /\ Len(t) = z
  BY DEF Times
<1> HIDE DEF t, d
<1>4. /\ u \in Seq(S) /\ Len(u) = Len(d) + Len(t)
      /\ \A i \in 1 .. Len(d) : u[i] = d[i]
  <2>1. d \in Seq(S)
    BY <1>1 DEF d
  <2> QED BY <1>3, <2>1
<1> HIDE DEF u
<1>5. PICK data \in Seq(S) : /\ data = SubSeq(u, 1, z) /\ Len(data) = z
                            /\ \A i \in 1 .. z : data[i] = u[i]
  <2>0. Len(u) = h.size + z
    BY <1>1, <1>3, <1>4 DEF d
  <2>1. z >= 1 /\ z <= Len(u) /\ z - 1 + 1 = z /\ \A i \in 1 .. z : 1 + i - 1 = i
    BY <1>1, <1>2, <2>0
  <2>2. \A i \in 1 .. z : u[i] \in S
    BY <1>4, <2>1, LenProperties
  <2>3. /\ SubSeq(u, 1, z) \in Seq(S)
        /\ Len(SubSeq(u, 1, z)) = IF 1 <= z THEN z - 1 + 1 ELSE 0
        /\ \A i \in 1 .. z - 1 + 1 : SubSeq(u, 1, z)[i] = u[1 + i - 1]
    BY <2>2, SubSeqProperties
  <2> QED BY <2>1, <2>3
<1>6. Resized(h, n) = [data |-> data, size |-> z, off |-> h.off, err |-> h.err]
  <2>1. Resized(h, n) = [h EXCEPT !.size = z, !.data = SubSeq(h.data \o Times(Garbage, z), 1, z)]
    BY <1>2 DEF Resized
  <2>2. SubSeq(h.data \o Times(Garbage, z), 1, z) = data
    BY <1>5 DEF u, t, d
  <2>3. Resized(h, n) = [h EXCEPT !.size = z, !.data = data]
    BY <2>1, <2>2
  <2> QED BY <2>3 DEF Buffer
<1>7. \A i \in 1 .. h.off : data[i] = h.data[i]
  BY <1>1, <1>2, <1>4, <1>5 DEF d
<1> QED BY <1>1, <1>2, <1>5, <1>6, <1>7 DEF Buffer, Within, Keeps

(* What the formatting of len cells of p in the buffer h leaves in g.      *)
Formats(S, h, g, p, len) ==
  /\ g \in Buffer(S) /\ Within(g) /\ g.size = h.size /\ Keeps(h, g)
  /\ Fits(h, len) => \A i \in h.off + 1 .. h.off + len : g.data[i] = p

LEMMA FormattedHolds ==
  ASSUME NEW S, Nul \in S, NEW p \in S, NEW len \in Nat, NEW h \in Buffer(S), Within(h)
  PROVE  Formats(S, h, Formatted(h, p, len), p, len)
<1>1. h.size \in Nat /\ h.off \in Nat /\ h.off <= h.size
  BY DEF Buffer, Within
<1>2. CASE Room(h) = 0
  BY <1>1, <1>2 DEF Formatted, Keeps, Fits, Formats
<1>3. CASE Room(h) # 0
  <2>1. PICK k \in Nat : /\ k = (IF len < Room(h) THEN len ELSE Room(h) - 1)
                        /\ k + 1 <= Room(h) /\ (len < Room(h) => k = len)
    BY <1>1, <1>3 DEF Room
  <2> DEFINE t == Times(p, k)
             c == t \o <<Nul>>
  <2>2. t \in Seq(S) /\ Len(t) = k /\ \A i \in 1 .. k : t[i] = p
    BY DEF Times
  <2> HIDE DEF t
  <2>3. <<Nul>> \in Seq(S) /\ Len(<<Nul>>) = 1
    OBVIOUS
  <2>4. c \in Seq(S) /\ Len(c) = k + 1 /\ \A i \in 1 .. k : c[i] = t[i]
    BY <2>2, <2>3
  <2> HIDE DEF c
  <2>5. Formatted(h, p, len) = Put(h, c)
    BY <1>3, <2>1 DEF Formatted, c, t
  <2>6. h.off + Len(c) <= h.size
    BY <1>1, <2>1, <2>4 DEF Room
  <2>7. /\ Put(h, c) \in Buffer(S) /\ Within(Put(h, c))
        /\ Put(h, c).off = h.off /\ Put(h, c).size = h.size /\ Put(h, c).err = h.err
        /\ \A i \in 1 .. h.off : Put(h, c).data[i] = h.data[i]
        /\ \A i \in h.off + 1 .. h.off + Len(c) : Put(h, c).data[i] = c[i - h.off]
    BY <2>4, <2>6, PutHolds
  <2>8. ASSUME Fits(h, len), NEW i \in h.off + 1 .. h.off + len
        PROVE  Put(h, c).data[i] = p
    <3>1. k = len /\ i - h.off \in 1 .. k /\ i \in h.off + 1 .. h.off + Len(c)
      BY <1>1, <2>1, <2>4, <2>8 DEF Fits
    <3> QED BY <2>2, <2>4, <2>7, <3>1
  <2> QED BY <2>5, <2>7, <2>8 DEF Keeps, Formats
<1> QED BY <1>2, <1>3

(* A buffer that keeps what h holds, and holds len cells of p behind it.   *)
LEMMA HoldsMore ==
  ASSUME NEW S, NEW p \in S, NEW len \in Nat, NEW h \in Buffer(S), NEW g \in Buffer(S),
         NEW d \in Seq(S), Holds(h, d), Within(g), Keeps(h, g), h.off + len <= g.size,
         \A i \in h.off + 1 .. h.off + len : g.data[i] = p
  PROVE  /\ [g EXCEPT !.off = @ + len] \in Buffer(S)
         /\ Within([g EXCEPT !.off = @ + len])
         /\ [g EXCEPT !.off = @ + len].err = h.err
         /\ Holds([g EXCEPT !.off = @ + len], d \o Times(p, len))
         /\ d \o Times(p, len) \in Seq(S)
<1>1. /\ g.data \in Seq(S) /\ g.size \in Nat /\ h.off \in Nat /\ g.off = h.off
      /\ g.err = h.err /\ g.err \in BOOLEAN /\ Len(g.data) = g.size
  BY DEF Buffer, Within, Keeps
<1>2. PICK r : r = [g EXCEPT !.off = @ + len]
  OBVIOUS
<1>3. r = [data |-> g.data, size |-> g.size, off |-> h.off + len, err |-> g.err]
  BY <1>1, <1>2 DEF Buffer
<1>4. r \in Buffer(S) /\ Within(r) /\ r.err = h.err
  BY <1>1, <1>3 DEF Buffer, Within
<1> DEFINE t == Times(p, len)
           u == d \o t
<1>5. t \in Seq(S) /\ Len(t) = len /\ \A i \in 1 .. len : t[i] = p
  BY DEF Times
<1> HIDE DEF t
<1>6. Len(d) = h.off /\ \A i \in 1 .. h.off : h.data[i] = d[i]
  BY DEF Holds
<1>7. /\ u \in Seq(S) /\ Len(u) = Len(d) + Len(t)
      /\ \A i \in 1 .. Len(d) : u[i] = d[i]
      /\ \A i \in 1 .. Len(t) : u[Len(d) + i] = t[i]
  BY <1>5
<1> HIDE DEF u
<1>8. ASSUME NEW i \in 1 .. h.off + len PROVE g.data[i] = u[i]
  <2>1. CASE i <= h.off
    <3>1. i \in 1 .. h.off
      BY <1>1, <2>1
    <3> QED BY <1>6, <1>7, <3>1 DEF Keeps
  <2>2. CASE i > h.off
    <3> DEFINE j == i - h.off
    <3>1. j \in 1 .. len /\ i = h.off + j
      BY <1>1, <2>2
    <3> HIDE DEF j
    <3>2. u[i] = p
      BY <1>5, <1>6, <1>7, <3>1
    <3>3. i \in h.off + 1 .. h.off + len
      BY <1>1, <2>2
    <3> QED BY <3>2, <3>3
  <2> QED BY <1>1, <2>1, <2>2
<1>9. Holds(r, u)
  <2>1. Len(u) = h.off + len
    BY <1>5, <1>6, <1>7
  <2> QED BY <1>3, <1>8, <2>1 DEF Holds
<1> QED BY <1>2, <1>4, <1>7, <1>9 DEF u, t

(* bano_html_printf.                                                       *)
LEMMA PrintedHolds ==
  ASSUME NEW S, Nul \in S, Garbage \in S, NEW p \in S, NEW len \in Nat,
         NEW h \in Buffer(S), Within(h), NEW d \in Seq(S), Holds(h, d)
  PROVE  /\ Printed(h, p, len) \in Buffer(S) /\ Within(Printed(h, p, len))
         /\ Printed(h, p, len).err = h.err
         /\ Holds(Printed(h, p, len), d \o Times(p, len))
         /\ d \o Times(p, len) \in Seq(S)
<1> DEFINE f == Formatted(h, p, len)
           again == Resized(f, h.off + len + 1)
           g == Formatted(again, p, len)
<1>1. h.off \in Nat /\ h.size \in Nat /\ h.off <= h.size
  BY DEF Buffer, Within
<1>2. /\ f \in Buffer(S) /\ Within(f) /\ f.size = h.size /\ Keeps(h, f)
      /\ Fits(h, len) => \A i \in h.off + 1 .. h.off + len : f.data[i] = p
  <2>1. Formats(S, h, f, p, len)
    BY FormattedHolds
  <2> QED BY <2>1 DEF Formats
<1> HIDE DEF f
<1>3. CASE Fits(h, len)
  <2>1. h.off + len <= f.size
    BY <1>1, <1>2, <1>3 DEF Fits, Room
  <2>2. Printed(h, p, len) = [f EXCEPT !.off = @ + len]
    BY <1>3 DEF Printed, f
  <2> QED BY <1>2, <1>3, <2>1, <2>2, HoldsMore
<1>4. CASE ~ Fits(h, len)
  <2>1. f.off = h.off /\ h.off + len + 1 \in Nat /\ h.off + len + 1 >= f.off
    BY <1>1, <1>2 DEF Keeps
  <2>2. /\ again \in Buffer(S) /\ Within(again) /\ again.size > h.off + len + 1
        /\ Keeps(f, again)
    BY <1>2, <2>1, ResizedHolds
  <2> HIDE DEF again
  <2>3. again.off = h.off /\ again.size \in Nat
    BY <2>1, <2>2 DEF Keeps, Buffer
  <2>4. Fits(again, len)
    BY <1>1, <2>2, <2>3 DEF Fits, Room
  <2>5. /\ g \in Buffer(S) /\ Within(g) /\ g.size = again.size /\ Keeps(again, g)
        /\ \A i \in again.off + 1 .. again.off + len : g.data[i] = p
    <3>1. Formats(S, again, g, p, len)
      BY <2>2, FormattedHolds
    <3> QED BY <2>4, <3>1 DEF Formats
  <2>6. Printed(h, p, len) = [g EXCEPT !.off = @ + len]
    BY <1>4, <2>4 DEF Printed, again, f
  <2> HIDE DEF g
  <2>7. Keeps(h, g)
    BY <1>2, <2>1, <2>2, <2>3, <2>5 DEF Keeps
  <2>8. h.off + len <= g.size
    BY <1>1, <2>2, <2>3, <2>5
  <2> QED BY <2>3, <2>5, <2>6, <2>7, <2>8, HoldsMore
<1> QED BY <1>3, <1>4

(* bano_html_include.                                                      *)
LEMMA IncludedHolds ==
  ASSUME NEW S, Garbage \in S, NEW p \in S, NEW len \in Nat,
         NEW h \in Buffer(S), Within(h), NEW d \in Seq(S), Holds(h, d)
  PROVE  /\ Included(h, p, len) \in Buffer(S) /\ Within(Included(h, p, len))
         /\ Included(h, p, len).err = h.err
         /\ Holds(Included(h, p, len), d \o Times(p, len))
         /\ d \o Times(p, len) \in Seq(S)
<1> DEFINE e == Enlarged(h, len)
           t == Times(p, len)
           g == Put(e, t)
<1>1. h.off \in Nat /\ h.size \in Nat /\ h.off <= h.size
  BY DEF Buffer, Within
<1>2. e \in Buffer(S) /\ Within(e) /\ h.off + len <= e.size /\ Keeps(h, e)
  <2>1. CASE h.off + len > h.size
    <3>1. h.off + len \in Nat /\ h.off + len >= h.off
      BY <1>1
    <3> DEFINE r == Resized(h, h.off + len)
    <3>2. r \in Buffer(S) /\ Within(r) /\ r.size > h.off + len /\ Keeps(h, r)
      BY <3>1, ResizedHolds
    <3>3. e = r
      BY <2>1 DEF Enlarged
    <3> HIDE DEF r, e
    <3>4. r.size \in Nat
      BY <3>2 DEF Buffer
    <3> QED BY <1>1, <3>2, <3>3, <3>4
  <2>2. CASE ~ (h.off + len > h.size)
    BY <1>1, <2>2 DEF Enlarged, Keeps
  <2> QED BY <2>1, <2>2
<1> HIDE DEF e
<1>3. t \in Seq(S) /\ Len(t) = len /\ \A i \in 1 .. len : t[i] = p
  BY DEF Times
<1> HIDE DEF t
<1>4. e.off = h.off /\ e.off + Len(t) <= e.size
  BY <1>2, <1>3 DEF Keeps
<1>5. /\ g \in Buffer(S) /\ Within(g)
      /\ g.off = e.off /\ g.size = e.size /\ g.err = e.err
      /\ \A i \in 1 .. e.off : g.data[i] = e.data[i]
      /\ \A i \in e.off + 1 .. e.off + Len(t) : g.data[i] = t[i - e.off]
  BY <1>2, <1>3, <1>4, PutHolds
<1>6. Included(h, p, len) = [g EXCEPT !.off = @ + len]
  BY DEF Included, e, t
<1> HIDE DEF g
<1>7. ASSUME NEW i \in h.off + 1 .. h.off + len PROVE g.data[i] = p
  <2>1. i - h.off \in 1 .. len
    BY <1>1
  <2> QED BY <1>3, <1>4, <1>5, <2>1
<1>8. Keeps(h, g)
  BY <1>2, <1>4, <1>5 DEF Keeps
<1> QED BY <1>2, <1>5, <1>6, <1>7, <1>8, HoldsMore
-----------------------------------------------------------------------------
(* The steps                                                               *)

(* An empty buffer, whether it has failed or is not yet used.              *)
LEMMA EmptyBuffer ==
  ASSUME NEW e \in BOOLEAN, html' = [data |-> <<>>, size |-> 0, off |-> 0, err |-> e],
         due' = <<>>
  PROVE  IInv'
<1>1. <<>> \in Seq({}) /\ Len(<<>>) = 0
  OBVIOUS
<1>2. html' \in Buffer({}) /\ Within(html')
  BY <1>1 DEF Buffer, Within
<1>3. Holds(html', due')
  BY <1>1 DEF Holds
<1> QED BY <1>1, <1>2, <1>3 DEF IInv

LEMMA InitIInv == Init => IInv
<1> SUFFICES ASSUME Init PROVE IInv
  OBVIOUS
<1>1. html = [data |-> <<>>, size |-> 0, off |-> 0, err |-> FALSE] /\ due = <<>>
  BY DEF Init, NoHtml
<1>2. <<>> \in Seq({}) /\ Len(<<>>) = 0
  OBVIOUS
<1>3. html \in Buffer({}) /\ Within(html)
  BY <1>1, <1>2 DEF Buffer, Within
<1>4. Holds(html, due)
  BY <1>1, <1>2 DEF Holds
<1> QED BY <1>1, <1>2, <1>3, <1>4 DEF IInv

(* The cells of the buffer, of the next piece, and those that bano_html.c  *)
(* puts there itself.                                                      *)
LEMMA Cells ==
  ASSUME IInv, ~ html.err, NEW p
  PROVE  \E T : /\ html \in Buffer(T) /\ due \in Seq(T)
                /\ p \in T /\ Nul \in T /\ Garbage \in T
<1>1. PICK S : html \in Buffer(S) /\ due \in Seq(S)
  BY DEF IInv
<1> DEFINE T == S \cup {p, Nul, Garbage}
<1>2. S \subseteq T /\ p \in T /\ Nul \in T /\ Garbage \in T
  OBVIOUS
<1> HIDE DEF T
<1>3. due \in Seq(T)
  BY <1>1, <1>2, Wider
<1>4. html.data \in Seq(S)
  BY <1>1 DEF Buffer
<1>5. html.data \in Seq(T)
  BY <1>2, <1>4, Wider
<1>6. html \in Buffer(T)
  BY <1>1, <1>5 DEF Buffer
<1> QED BY <1>2, <1>3, <1>6

LEMMA PrintPieceStep == IInv /\ PrintPiece => IInv'
<1> SUFFICES ASSUME IInv, PrintPiece PROVE IInv'
  OBVIOUS
<1> DEFINE p == Head(pieces)
<1>1. PICK len \in Length : AppendPiece(Printed(html, p, len), len)
  BY DEF PrintPiece
<1>2. ~ html.err /\ len \in Nat
  BY PageAssumption DEF PrintPiece
<1>3. PICK T : /\ html \in Buffer(T) /\ due \in Seq(T)
              /\ p \in T /\ Nul \in T /\ Garbage \in T
  BY <1>2, Cells
<1>4. Within(html) /\ Holds(html, due)
  BY <1>2 DEF IInv
<1> DEFINE g == Printed(html, p, len)
<1>5. /\ g \in Buffer(T) /\ Within(g) /\ g.err = html.err
      /\ Holds(g, due \o Times(p, len))
      /\ due \o Times(p, len) \in Seq(T)
  BY <1>2, <1>3, <1>4, PrintedHolds
<1>6. html' = g /\ due' = IF g.err THEN <<>> ELSE due \o Times(p, len)
  BY <1>1 DEF AppendPiece
<1> HIDE DEF g
<1>7. ~ html'.err /\ due' = due \o Times(p, len)
  BY <1>2, <1>5, <1>6
<1> HIDE DEF p
<1>8. html' \in Buffer(T) /\ due' \in Seq(T) /\ Within(html') /\ Holds(html', due')
  BY <1>5, <1>6, <1>7
<1> QED BY <1>7, <1>8 DEF IInv

LEMMA IncludeCssStep == IInv /\ IncludeCss => IInv'
<1> SUFFICES ASSUME IInv, IncludeCss PROVE IInv'
  OBVIOUS
<1> DEFINE p == Head(pieces)
<1>1. PICK len \in Length : AppendPiece(Included(html, p, len), len)
  BY DEF IncludeCss
<1>2. ~ html.err /\ len \in Nat
  BY PageAssumption DEF IncludeCss
<1>3. PICK T : /\ html \in Buffer(T) /\ due \in Seq(T)
              /\ p \in T /\ Nul \in T /\ Garbage \in T
  BY <1>2, Cells
<1>4. Within(html) /\ Holds(html, due)
  BY <1>2 DEF IInv
<1> DEFINE g == Included(html, p, len)
<1>5. /\ g \in Buffer(T) /\ Within(g) /\ g.err = html.err
      /\ Holds(g, due \o Times(p, len))
      /\ due \o Times(p, len) \in Seq(T)
  BY <1>2, <1>3, <1>4, IncludedHolds
<1>6. html' = g /\ due' = IF g.err THEN <<>> ELSE due \o Times(p, len)
  BY <1>1 DEF AppendPiece
<1> HIDE DEF g
<1>7. ~ html'.err /\ due' = due \o Times(p, len)
  BY <1>2, <1>5, <1>6
<1> HIDE DEF p
<1>8. html' \in Buffer(T) /\ due' \in Seq(T) /\ Within(html') /\ Holds(html', due')
  BY <1>5, <1>6, <1>7
<1> QED BY <1>7, <1>8 DEF IInv

LEMMA Step == IInv /\ [Next]_vars => IInv'
<1> SUFFICES ASSUME IInv, [Next]_vars PROVE IInv'
  OBVIOUS
<1>1. CASE PrintPiece \/ IncludeCss
  BY <1>1, PrintPieceStep, IncludeCssStep
<1>2. CASE AppendFails
  <2>1. html' = Failed /\ due' = <<>>
    BY <1>2 DEF AppendFails, AppendPiece, Failed, NoHtml
  <2> QED BY <2>1, EmptyBuffer DEF Failed, NoHtml
<1>3. CASE Complete
  BY <1>3, EmptyBuffer DEF Complete, NoHtml
<1>4. CASE UNCHANGED <<html, due>>
  BY <1>4 DEF IInv
<1>5. CASE StartPage \/ \E n \in Nodes, k \in DictKey, v \in Val : SetVal(n, k, v)
  BY <1>4, <1>5 DEF StartPage, SetVal
<1> QED BY <1>1, <1>2, <1>3, <1>4, <1>5 DEF Next, vars
-----------------------------------------------------------------------------
(* The dictionaries                                                        *)

Pair(V) == [key : DictKey, val : V]
Dict(V) == [Bucket -> Seq(Pair(V))]

DictVal(d, k) == IF HasKey(d, k) THEN DictGet(d, k) ELSE NoVal

(* All the keys in it, whatever list they are in.                          *)
Keys(d) == {p.key : p \in UNION {ToSet(d[b]) : b \in Bucket}}

LEMMA FindPairIs ==
  ASSUME NEW V, NEW d \in Dict(V), NEW k \in DictKey, HasKey(d, k)
  PROVE  FindPair(d, k) \in PlacesOf(d, k)
<1>1. PlacesOf(d, k) \subseteq Nat
  <2>1. d[Hash[k]] \in Seq(Pair(V))
    BY HashAssumption DEF Dict
  <2>2. DOMAIN d[Hash[k]] \subseteq Nat
    BY <2>1, LenProperties
  <2> QED BY <2>2 DEF PlacesOf
<1>2. \E i \in PlacesOf(d, k) : \A j \in PlacesOf(d, k) : i <= j
  BY <1>1, LeastExists DEF HasKey
<1> QED BY <1>2 DEF FindPair

(* bano_dict_add puts the pair last in its list.                           *)
LEMMA DictAddFacts ==
  ASSUME NEW V, NEW d \in Dict(V), NEW k \in DictKey, NEW v \in V
  PROVE  /\ DictAdd(d, k, v) \in Dict(V)
         /\ DictAdd(d, k, v)[Hash[k]] = Append(d[Hash[k]], [key |-> k, val |-> v])
         /\ \A b \in Bucket \ {Hash[k]} : DictAdd(d, k, v)[b] = d[b]
<1>1. PICK h \in Bucket : h = Hash[k]
  BY HashAssumption
<1>2. PICK l \in Seq(Pair(V)) : l = d[h]
  BY DEF Dict
<1>3. PICK p \in Pair(V) : p = [key |-> k, val |-> v]
  BY DEF Pair
<1>4. PICK e : e = DictAdd(d, k, v)
  OBVIOUS
<1>5. e = [d EXCEPT ![h] = Append(l, p)]
  BY <1>1, <1>2, <1>3, <1>4 DEF DictAdd
<1>6. Append(l, p) \in Seq(Pair(V))
  BY AppendProperties
<1>7. e \in Dict(V) /\ e[h] = Append(l, p) /\ \A b \in Bucket \ {h} : e[b] = d[b]
  BY <1>5, <1>6 DEF Dict
<1> QED BY <1>1, <1>2, <1>3, <1>4, <1>7

LEMMA DictAddKeys ==
  ASSUME NEW V, NEW d \in Dict(V), NEW k \in DictKey, NEW v \in V
  PROVE  Keys(DictAdd(d, k, v)) = Keys(d) \cup {k}
<1>1. PICK h \in Bucket : h = Hash[k]
  BY HashAssumption
<1>2. PICK l \in Seq(Pair(V)) : l = d[h]
  BY DEF Dict
<1>3. PICK p \in Pair(V) : p = [key |-> k, val |-> v]
  BY DEF Pair
<1>4. PICK e : e = DictAdd(d, k, v)
  OBVIOUS
<1>5. e[h] = Append(l, p) /\ \A b \in Bucket \ {h} : e[b] = d[b]
  BY <1>1, <1>2, <1>3, <1>4, DictAddFacts
<1>6. ToSet(e[h]) = ToSet(l) \cup {p}
  BY <1>5, AppendElements
<1>7. UNION {ToSet(e[b]) : b \in Bucket} = (UNION {ToSet(d[b]) : b \in Bucket}) \cup {p}
  BY <1>2, <1>5, <1>6
<1>8. Keys(e) = Keys(d) \cup {p.key}
  BY <1>7 DEF Keys
<1> QED BY <1>3, <1>4, <1>8

LEMMA DictAddItself ==
  ASSUME NEW d \in Dict(DictKey), NEW k \in DictKey
  PROVE  /\ DictAdd(d, k, k) \in Dict(DictKey)
         /\ Keys(DictAdd(d, k, k)) = Keys(d) \cup {k}
<1>1. PICK V : V = DictKey
  OBVIOUS
<1>2. d \in Dict(V) /\ k \in V
  BY <1>1
<1>3. DictAdd(d, k, k) \in Dict(V)
  BY <1>2, DictAddFacts
<1>4. Keys(DictAdd(d, k, k)) = Keys(d) \cup {k}
  BY <1>2, DictAddKeys
<1> QED BY <1>1, <1>3, <1>4

(***************************************************************************)
(* bano_dict_set_or_add and bano_dict_get are those of a finite map: the   *)
(* key has the new value, and each other key has the value that it had, if *)
(* any, those of the same list included, for any number of lists and any   *)
(* function get_hash.                                                      *)
(***************************************************************************)
THEOREM DictIsMap ==
  ASSUME NEW V, NEW d \in Dict(V), NEW k \in DictKey, NEW v \in V
  PROVE  /\ DictSetOrAdd(d, k, v) \in Dict(V)
         /\ \A j \in DictKey :
              DictVal(DictSetOrAdd(d, k, v), j) = IF j = k THEN v ELSE DictVal(d, j)
<1>1. PICK h \in Bucket : h = Hash[k]
  BY HashAssumption
<1>2. PICK l \in Seq(Pair(V)) : l = d[h]
  BY DEF Dict
<1>3. PICK n \in Nat : n = Len(l) /\ DOMAIN l = 1 .. n /\ \A i \in 1 .. n : l[i] \in Pair(V)
  BY LenProperties
<1>4. PICK e : e = DictSetOrAdd(d, k, v)
  OBVIOUS
<1>5. CASE ~ HasKey(d, k)
  <2>1. e = DictAdd(d, k, v)
    BY <1>4, <1>5 DEF DictSetOrAdd
  <2>2. /\ e \in Dict(V) /\ e[h] = Append(l, [key |-> k, val |-> v])
        /\ \A b \in Bucket \ {h} : e[b] = d[b]
    BY <1>1, <1>2, <2>1, DictAddFacts
  <2>3. /\ DOMAIN e[h] = 1 .. n + 1 /\ e[h][n + 1] = [key |-> k, val |-> v]
        /\ \A i \in 1 .. n : e[h][i] = l[i]
    BY <1>3, <2>2, AppendProperties
  <2>4. \A i \in 1 .. n : l[i].key # k
    BY <1>1, <1>2, <1>3, <1>5 DEF HasKey, PlacesOf
  <2>5. ASSUME NEW j \in DictKey
        PROVE  DictVal(e, j) = IF j = k THEN v ELSE DictVal(d, j)
    <3>1. CASE j = k
      <4>1. PlacesOf(e, j) = {n + 1}
        <5>1. \A i \in 1 .. n + 1 : e[h][i].key = k <=> i = n + 1
          <6>1. e[h][n + 1].key = k
            BY <2>3
          <6>2. \A i \in 1 .. n : e[h][i].key # k
            BY <2>3, <2>4
          <6>3. \A i \in 1 .. n + 1 : i \in 1 .. n \/ i = n + 1
            OBVIOUS
          <6>4. n + 1 \notin 1 .. n
            OBVIOUS
          <6> QED BY <6>1, <6>2, <6>3, <6>4
        <5>2. \A i : i \in PlacesOf(e, j) <=> i \in 1 .. n + 1 /\ e[h][i].key = k
          BY <1>1, <2>3, <3>1 DEF PlacesOf
        <5>3. n + 1 \in 1 .. n + 1
          OBVIOUS
        <5>4. \A i : i \in PlacesOf(e, j) <=> i = n + 1
          BY <5>1, <5>2, <5>3, Zenon
        <5> QED BY <5>4
      <4>2. HasKey(e, j) /\ FindPair(e, j) = n + 1
        BY <2>2, <4>1, FindPairIs DEF HasKey
      <4> QED BY <1>1, <2>3, <3>1, <4>2 DEF DictVal, DictGet
    <3>2. CASE j # k /\ Hash[j] = h
      <4>1. PlacesOf(e, j) = PlacesOf(d, j)
        BY <1>2, <1>3, <2>3, <3>2 DEF PlacesOf
      <4>2. FindPair(e, j) = FindPair(d, j) /\ (HasKey(e, j) <=> HasKey(d, j))
        BY <4>1 DEF FindPair, HasKey
      <4>3. HasKey(d, j) => FindPair(d, j) \in 1 .. n
        BY <1>2, <1>3, <3>2, FindPairIs DEF PlacesOf
      <4> QED BY <1>2, <2>3, <3>2, <4>2, <4>3 DEF DictVal, DictGet
    <3>3. CASE j # k /\ Hash[j] # h
      <4>1. e[Hash[j]] = d[Hash[j]]
        BY <2>2, <3>3, HashAssumption
      <4>2. PlacesOf(e, j) = PlacesOf(d, j)
        BY <4>1 DEF PlacesOf
      <4> QED BY <3>3, <4>1, <4>2 DEF DictVal, DictGet, FindPair, HasKey
    <3> QED BY <3>1, <3>2, <3>3
  <2> QED BY <1>4, <2>2, <2>5
<1>6. CASE HasKey(d, k)
  <2>1. PICK i \in 1 .. n : i = FindPair(d, k) /\ l[i].key = k
    BY <1>1, <1>2, <1>3, <1>6, FindPairIs DEF PlacesOf
  <2>2. PICK m : m = [l EXCEPT ![i] = [l[i] EXCEPT !.val = v]]
    OBVIOUS
  <2>3. e = [d EXCEPT ![h] = m]
    BY <1>1, <1>2, <1>4, <1>6, <2>1, <2>2 DEF DictSetOrAdd, DictSet
  <2>4. /\ DOMAIN m = 1 .. n /\ \A q \in 1 .. n : q # i => m[q] = l[q]
        /\ m[i].key = k /\ m[i].val = v /\ m[i] \in Pair(V)
    BY <1>3, <2>1, <2>2 DEF Pair
  <2>5. m \in Seq(Pair(V))
    <3>1. m \in [1 .. n -> Pair(V)]
      BY <1>3, <2>2, <2>4
    <3> QED BY <3>1, Listing
  <2>6. e \in Dict(V) /\ e[h] = m /\ \A b \in Bucket \ {h} : e[b] = d[b]
    BY <2>3, <2>5 DEF Dict
  <2>7. ASSUME NEW j \in DictKey
        PROVE  DictVal(e, j) = IF j = k THEN v ELSE DictVal(d, j)
    <3>1. CASE Hash[j] = h
      <4>1. PlacesOf(e, j) = PlacesOf(d, j)
        BY <1>2, <1>3, <2>1, <2>4, <2>6, <3>1 DEF PlacesOf
      <4>2. FindPair(e, j) = FindPair(d, j) /\ (HasKey(e, j) <=> HasKey(d, j))
        BY <4>1 DEF FindPair, HasKey
      <4>3. HasKey(d, j) => FindPair(d, j) \in 1 .. n /\ l[FindPair(d, j)].key = j
        BY <1>2, <1>3, <3>1, FindPairIs DEF PlacesOf
      <4>4. CASE j = k
        BY <1>6, <2>1, <2>4, <2>6, <3>1, <4>2, <4>4 DEF DictVal, DictGet
      <4>5. CASE j # k
        <5>1. HasKey(d, j) => FindPair(d, j) # i
          BY <2>1, <4>3, <4>5
        <5> QED BY <1>2, <2>4, <2>6, <3>1, <4>2, <4>3, <4>5, <5>1 DEF DictVal, DictGet
      <4> QED BY <4>4, <4>5
    <3>2. CASE Hash[j] # h
      <4>1. e[Hash[j]] = d[Hash[j]] /\ j # k
        BY <1>1, <2>6, <3>2, HashAssumption
      <4>2. PlacesOf(e, j) = PlacesOf(d, j)
        BY <4>1 DEF PlacesOf
      <4> QED BY <4>1, <4>2 DEF DictVal, DictGet, FindPair, HasKey
    <3> QED BY <3>1, <3>2
  <2> QED BY <1>4, <2>6, <2>7
<1> QED BY <1>5, <1>6

LEMMA EmptyDictFacts ==
  ASSUME NEW V
  PROVE  /\ EmptyDict \in Dict(V) /\ Keys(EmptyDict) = {}
         /\ \A k \in DictKey : DictVal(EmptyDict, k) = NoVal
<1>1. <<>> \in Seq(Pair(V)) /\ ToSet(<<>>) = {} /\ DOMAIN <<>> = {}
  BY DEF ToSet
<1>2. EmptyDict \in Dict(V) /\ \A b \in Bucket : EmptyDict[b] = <<>>
  BY <1>1 DEF EmptyDict, Dict
<1>3. Keys(EmptyDict) = {}
  BY <1>1, <1>2 DEF Keys
<1>4. ASSUME NEW k \in DictKey PROVE ~ HasKey(EmptyDict, k)
  BY <1>1, <1>2, HashAssumption DEF HasKey, PlacesOf
<1> QED BY <1>2, <1>3, <1>4 DEF DictVal

(* bano_dict_foreach goes through all the lists.                           *)
LEMMA DictPairsElements ==
  ASSUME NEW V, NEW d \in Dict(V)
  PROVE  /\ DictPairs(d) \in Seq(Pair(V))
         /\ {p.key : p \in ToSet(DictPairs(d))} = Keys(d)
<1>1. NList \in Nat /\ Bucket = 0 .. NList - 1
  BY HashAssumption DEF Bucket
<1>2. PICK R : R = Pair(V)
  OBVIOUS
<1>3. PICK ss : ss = [i \in 1 .. NList |-> d[i - 1]]
  OBVIOUS
<1>4. \A i \in 1 .. NList : ss[i] = d[i - 1] /\ ss[i] \in Seq(R)
  BY <1>1, <1>2, <1>3 DEF Dict
<1>5. ss \in Seq(Seq(R)) /\ Len(ss) = NList
  <2>1. PICK Q : Q = Seq(R)
    OBVIOUS
  <2>2. ss \in [1 .. NList -> Q]
    BY <1>3, <1>4, <2>1
  <2> QED BY <1>1, <2>1, <2>2, Listing
<1>6. /\ FlattenSeq(ss) \in Seq(R)
      /\ ToSet(FlattenSeq(ss)) = UNION {ToSet(ss[i]) : i \in 1 .. NList}
  BY <1>5, FlattenElements
<1>7. DictPairs(d) = FlattenSeq(ss)
  BY <1>3 DEF DictPairs
<1>8. UNION {ToSet(ss[i]) : i \in 1 .. NList} = UNION {ToSet(d[b]) : b \in Bucket}
  <2>1. \A b \in Bucket : b + 1 \in 1 .. NList /\ ss[b + 1] = d[b]
    BY <1>1, <1>4
  <2>2. \A i \in 1 .. NList : i - 1 \in Bucket /\ ss[i] = d[i - 1]
    BY <1>1, <1>4
  <2> QED BY <2>1, <2>2
<1> QED BY <1>2, <1>6, <1>7, <1>8 DEF Keys

(* The keys of the description are those that were added, one by one.      *)
LEMMA NodlDictKeys ==
  ASSUME NEW n \in Nodes
  PROVE  NodlDict(n) \in Dict(DictKey) /\ Keys(NodlDict(n)) = ToSet(Listed[n])
<1>1. PICK l \in Seq(DictKey) : l = Listed[n]
  BY PageAssumption
<1>2. PICK m \in Nat : m = Len(l) /\ DOMAIN l = 1 .. m /\ \A i \in 1 .. m : l[i] \in DictKey
  BY LenProperties
<1> DEFINE F == [i \in 1 .. m |-> [d \in Dict(DictKey) |-> DictAdd(d, l[i], l[i])]]
<1>3. PICK g : g = [i \in 0 .. m |-> IF i = 0 THEN EmptyDict ELSE DictAdd(g[i - 1], l[i], l[i])]
  <2>1. F \in [1 .. m -> [Dict(DictKey) -> Dict(DictKey)]]
    BY <1>2, DictAddFacts
  <2>2. \A i \in 1 .. m, d \in Dict(DictKey) : F[i][d] = DictAdd(d, l[i], l[i])
    OBVIOUS
  <2> HIDE DEF F
  <2>3. PICK R, a, G : R = Dict(DictKey) /\ a = EmptyDict /\ G = F
    OBVIOUS
  <2>4. a \in R /\ G \in [1 .. m -> [R -> R]]
    BY <2>1, <2>3, EmptyDictFacts
  <2>5. PICK g : g \in Chains(m, R, a, G)
    BY <2>4, ChainExists, Zenon
  <2>6. g \in [0 .. m -> Dict(DictKey)] /\ g[0] = EmptyDict /\ \A i \in 1 .. m : g[i] = F[i][g[i - 1]]
    BY <2>3, <2>5 DEF Chains
  <2>7. ASSUME NEW i \in 1 .. m
        PROVE  g[i] = DictAdd(g[i - 1], l[i], l[i])
    <3>1. i - 1 \in 0 .. m /\ g[i - 1] \in Dict(DictKey)
      BY <2>6
    <3> QED BY <2>2, <2>6, <3>1
  <2>8. \A i \in 0 .. m : g[i] = IF i = 0 THEN EmptyDict ELSE DictAdd(g[i - 1], l[i], l[i])
    BY <2>6, <2>7
  <2>9. g = [i \in 0 .. m |-> g[i]]
    BY <2>6
  <2>10. g = [i \in 0 .. m |-> IF i = 0 THEN EmptyDict ELSE DictAdd(g[i - 1], l[i], l[i])]
    BY <2>8, <2>9
  <2> QED BY <2>10
<1>4. PICK f : /\ f = [i \in 0 .. m |-> IF i = 0 THEN EmptyDict ELSE DictAdd(f[i - 1], l[i], l[i])]
               /\ NodlDict(n) = f[m]
  BY <1>1, <1>2, <1>3 DEF NodlDict
<1>5. f[0] = EmptyDict /\ \A i \in 1 .. m : f[i] = DictAdd(f[i - 1], l[i], l[i])
  BY <1>4
<1> DEFINE T == {i \in Nat : i <= m => f[i] \in Dict(DictKey) /\ Keys(f[i]) = {l[j] : j \in 1 .. i}}
<1>6. 0 \in T
  BY <1>5, EmptyDictFacts
<1>7. ASSUME NEW i \in T
      PROVE  i + 1 \in T
  <2> SUFFICES ASSUME i + 1 <= m
               PROVE  f[i + 1] \in Dict(DictKey) /\ Keys(f[i + 1]) = {l[j] : j \in 1 .. i + 1}
    OBVIOUS
  <2>1. i + 1 \in 1 .. m /\ (i + 1) - 1 = i /\ 1 .. i + 1 = 1 .. i \cup {i + 1}
    OBVIOUS
  <2>2. PICK d \in Dict(DictKey), k \in DictKey : d = f[i] /\ k = l[i + 1]
    BY <1>2, <2>1
  <2>3. f[i + 1] = DictAdd(d, k, k)
    BY <1>5, <2>1, <2>2
  <2>4. DictAdd(d, k, k) \in Dict(DictKey) /\ Keys(DictAdd(d, k, k)) = Keys(d) \cup {k}
    <3> HIDE DEF T, F
    <3> QED BY DictAddItself
  <2>5. Keys(d) = {l[j] : j \in 1 .. i}
    BY <2>2
  <2> QED BY <2>1, <2>2, <2>3, <2>4, <2>5
<1>8. m \in T
  <2> HIDE DEF T
  <2> T \subseteq Nat
    BY DEF T
  <2> QED BY <1>6, <1>7, SetInduction
<1>9. f[m] \in Dict(DictKey) /\ Keys(f[m]) = {l[j] : j \in 1 .. m}
  BY <1>8
<1> HIDE DEF T, F
<1>10. NodlDict(n) \in Dict(DictKey) /\ Keys(NodlDict(n)) = {l[j] : j \in 1 .. m}
  BY <1>4, <1>9
<1>11. ToSet(Listed[n]) = {l[j] : j \in 1 .. m}
  BY <1>1, <1>2 DEF ToSet
<1> QED BY <1>10, <1>11
-----------------------------------------------------------------------------
(* What the page shows                                                     *)

AnyVal == Val \cup {NoVal}
VariableSet == {Variable(n, k, v) : n \in Nodes, k \in DictKey, v \in AnyVal}
PieceSet == VariableSet \cup {Piece("head"), Piece("css"), Piece("end"), Piece("complete")}

(* What a set of pieces says of one key of one node.                       *)
SaysOf(P, n, k) == {p \in P : p.what = "variable" /\ p.node = n /\ p.key = k}

(* Each dictionary gives the value that was last set.                      *)
ValsShown ==
  /\ vals \in [Nodes -> Dict(Val)]
  /\ last \in [Nodes -> [DictKey -> AnyVal]]
  /\ \A n \in Nodes, k \in DictKey : DictVal(vals[n], k) = last[n][k]

(* Of the page that is due, a part was appended, and the rest is pending.  *)
Pending ==
  /\ pieces \in Seq(PieceSet) /\ due \in Seq(PieceSet)
  /\ pieces = <<>> => due = <<>>
  /\ pieces # <<>> =>
       /\ pieces[Len(pieces)] = Piece("complete")
       /\ \A i \in 1 .. Len(pieces) - 1 : pieces[i].what # "complete"
       /\ ~ html.err => ToSet(due) \cup ToSet(pieces) = ToSet(PagePieces)

LEMMA NodePiecesElements ==
  ASSUME ValsShown, NEW n \in Nodes
  PROVE  /\ NodePieces(n) \in Seq(VariableSet)
         /\ ToSet(NodePieces(n)) = {Variable(n, k, last[n][k]) : k \in ToSet(Listed[n])}
<1>1. \A k \in DictKey : Shown(n, k) = Variable(n, k, last[n][k]) /\ Shown(n, k) \in VariableSet
  <2> TAKE k \in DictKey
  <2>1. Shown(n, k) = Variable(n, k, last[n][k])
    BY DEF ValsShown, DictVal, Shown
  <2>2. last[n][k] \in AnyVal
    BY DEF ValsShown
  <2> QED BY <2>1, <2>2 DEF VariableSet
<1>2. PICK d \in Dict(DictKey) : d = NodlDict(n) /\ Keys(d) = ToSet(Listed[n])
  BY NodlDictKeys
<1>3. PICK l \in Seq(Pair(DictKey)) : l = DictPairs(d) /\ {p.key : p \in ToSet(l)} = Keys(d)
  BY DictPairsElements
<1>4. PICK m \in Nat : m = Len(l) /\ DOMAIN l = 1 .. m /\ \A i \in 1 .. m : l[i].key \in DictKey
  <2>1. Len(l) \in Nat /\ \A i \in 1 .. Len(l) : l[i] \in Pair(DictKey)
    BY LenProperties
  <2> QED BY <2>1, LenProperties DEF Pair
<1>5. PICK s : s = [i \in 1 .. m |-> Shown(n, l[i].key)]
  OBVIOUS
<1>6. NodePieces(n) = s
  BY <1>2, <1>3, <1>4, <1>5 DEF NodePieces
<1>7. s \in [1 .. m -> VariableSet]
  BY <1>1, <1>4, <1>5
<1>8. s \in Seq(VariableSet) /\ DOMAIN s = 1 .. m
  BY <1>7, Listing
<1>9. ToSet(s) = {Shown(n, k) : k \in {p.key : p \in ToSet(l)}}
  BY <1>4, <1>5, <1>8 DEF ToSet
<1>10. ToSet(Listed[n]) \subseteq DictKey
  <2>1. Listed[n] \in Seq(DictKey)
    BY PageAssumption
  <2> QED BY <2>1, LenProperties DEF ToSet
<1>11. ToSet(s) = {Shown(n, k) : k \in ToSet(Listed[n])}
  BY <1>2, <1>3, <1>9
<1>12. ToSet(s) = {Variable(n, k, last[n][k]) : k \in ToSet(Listed[n])}
  BY <1>1, <1>10, <1>11
<1> QED BY <1>6, <1>8, <1>12

(* The pieces of a page: the variables of all the nodes, and the call that *)
(* completes it at the end and nowhere else.                               *)
LEMMA PageText ==
  ASSUME ValsShown
  PROVE  /\ PagePieces \in Seq(PieceSet) /\ PagePieces # <<>>
         /\ PagePieces[Len(PagePieces)] = Piece("complete")
         /\ \A i \in 1 .. Len(PagePieces) - 1 : PagePieces[i].what # "complete"
         /\ ToSet(PagePieces) \cap VariableSet =
              UNION {{Variable(n, k, last[n][k]) : k \in ToSet(Listed[n])} : n \in Nodes}
<1>1. PICK m \in Nat : /\ m = Len(NodeSeq) /\ DOMAIN NodeSeq = 1 .. m
                       /\ \A i \in 1 .. m : NodeSeq[i] \in Nodes
  BY PageAssumption, LenProperties
<1>2. PICK ss : ss = [i \in 1 .. m |-> NodePieces(NodeSeq[i])]
  OBVIOUS
<1>3. ss \in Seq(Seq(VariableSet)) /\ Len(ss) = m
  <2>1. PICK Q : Q = Seq(VariableSet)
    OBVIOUS
  <2>2. ss \in [1 .. m -> Q]
    BY <1>1, <1>2, <2>1, NodePiecesElements
  <2> QED BY <2>1, <2>2, Listing
<1>4. PICK body \in Seq(VariableSet) :
        body = FlattenSeq(ss) /\ ToSet(body) = UNION {ToSet(ss[i]) : i \in 1 .. m}
  BY <1>3, FlattenElements
<1>5. ToSet(body) = UNION {{Variable(n, k, last[n][k]) : k \in ToSet(Listed[n])} : n \in Nodes}
  <2>1. UNION {ToSet(ss[i]) : i \in 1 .. m} = UNION {ToSet(NodePieces(n)) : n \in Nodes}
    <3>1. Nodes = {NodeSeq[i] : i \in 1 .. m}
      BY <1>1 DEF Nodes, ToSet
    <3> QED BY <1>2, <3>1
  <2>2. \A n \in Nodes :
          ToSet(NodePieces(n)) = {Variable(n, k, last[n][k]) : k \in ToSet(Listed[n])}
    BY NodePiecesElements
  <2>3. {ToSet(NodePieces(n)) : n \in Nodes}
          = {{Variable(n, k, last[n][k]) : k \in ToSet(Listed[n])} : n \in Nodes}
    <3> DEFINE Part(n) == ToSet(NodePieces(n))
               Said(n) == {Variable(n, k, last[n][k]) : k \in ToSet(Listed[n])}
    <3>1. \A n \in Nodes : Part(n) = Said(n)
      BY <2>2
    <3> HIDE DEF Part, Said
    <3>2. {Part(n) : n \in Nodes} = {Said(n) : n \in Nodes}
      BY ONLY <3>1
    <3> QED BY <3>2 DEF Part, Said
  <2> QED BY <1>4, <2>1, <2>3
<1>6. PICK a, b, c, e : /\ a = Piece("head") /\ b = Piece("css")
                        /\ c = Piece("end") /\ e = Piece("complete")
  OBVIOUS
<1>7. PagePieces = <<a, b>> \o body \o <<c, e>>
  BY <1>1, <1>2, <1>4, <1>6 DEF PagePieces
<1>8. /\ a \in PieceSet /\ b \in PieceSet /\ c \in PieceSet /\ e \in PieceSet
      /\ a.what # "complete" /\ b.what # "complete" /\ c.what # "complete"
      /\ a.what # "variable" /\ b.what # "variable" /\ c.what # "variable" /\ e.what # "variable"
  BY <1>6 DEF PieceSet, Piece
<1>9. \A v \in VariableSet : v \in PieceSet /\ v.what = "variable"
  BY DEF VariableSet, Variable, PieceSet
<1>10. PICK w \in Nat : /\ w = Len(body) /\ DOMAIN body = 1 .. w
                        /\ \A i \in 1 .. w : body[i] \in VariableSet
  BY LenProperties
<1>11. PICK page : page = <<a, b>> \o body \o <<c, e>>
  OBVIOUS
<1>12. /\ page \in Seq(PieceSet) /\ Len(page) = w + 4
       /\ page[1] = a /\ page[2] = b /\ page[w + 3] = c /\ page[w + 4] = e
       /\ \A i \in 1 .. w : page[i + 2] = body[i]
  <2>1. body \in Seq(PieceSet)
    BY <1>9, Wider
  <2>2. PICK front : front = <<a, b>> \o body
    OBVIOUS
  <2>3. /\ front \in Seq(PieceSet) /\ Len(front) = w + 2 /\ front[1] = a /\ front[2] = b
        /\ \A i \in 1 .. w : front[i + 2] = body[i]
    BY <1>8, <1>10, <2>1, <2>2
  <2>4. page = front \o <<c, e>>
    BY <1>11, <2>2
  <2>5. /\ page \in Seq(PieceSet) /\ Len(page) = w + 4
        /\ \A i \in 1 .. w + 2 : page[i] = front[i]
        /\ page[w + 3] = c /\ page[w + 4] = e
    BY <1>8, <2>3, <2>4
  <2> QED BY <2>3, <2>5
<1>13. \A i \in 1 .. w + 4 : \/ i \in {1, 2, w + 3, w + 4}
                             \/ i - 2 \in 1 .. w /\ page[i] = body[i - 2]
  <2> SUFFICES ASSUME NEW i \in 1 .. w + 4, i \notin {1, 2, w + 3, w + 4}
               PROVE  i - 2 \in 1 .. w /\ page[i] = body[i - 2]
    OBVIOUS
  <2>1. i - 2 \in 1 .. w /\ (i - 2) + 2 = i
    OBVIOUS
  <2> QED BY <1>12, <2>1
<1>14. ASSUME NEW i \in 1 .. Len(page) - 1
       PROVE  page[i].what # "complete"
  <2>1. i \in 1 .. w + 4 /\ i # w + 4
    BY <1>12
  <2>2. CASE i \in {1, 2, w + 3}
    BY <1>8, <1>12, <2>2
  <2>3. CASE i - 2 \in 1 .. w /\ page[i] = body[i - 2]
    BY <1>9, <1>10, <2>3
  <2> QED BY <1>13, <2>1, <2>2, <2>3
<1>15. ToSet(page) = {page[i] : i \in 1 .. w + 4}
  BY <1>12, LenProperties DEF ToSet
<1>16. ToSet(body) = {body[i] : i \in 1 .. w}
  BY <1>10 DEF ToSet
<1>17. ToSet(page) \cap VariableSet = ToSet(body)
  <2>1. ASSUME NEW v \in VariableSet, v \in ToSet(page)
        PROVE  v \in ToSet(body)
    <3>1. PICK i \in 1 .. w + 4 : v = page[i]
      BY <1>15, <2>1
    <3>2. i \notin {1, 2, w + 3, w + 4}
      BY <1>8, <1>9, <1>12, <3>1
    <3> QED BY <1>13, <1>16, <3>1, <3>2
  <2>2. ASSUME NEW v \in ToSet(body)
        PROVE  v \in VariableSet /\ v \in ToSet(page)
    <3>1. PICK i \in 1 .. w : v = body[i]
      BY <1>16
    <3>2. i + 2 \in 1 .. w + 4
      OBVIOUS
    <3> QED BY <1>10, <1>12, <1>15, <3>1, <3>2
  <2> QED BY <2>1, <2>2
<1>18. page # <<>> /\ page[Len(page)] = Piece("complete")
  BY <1>6, <1>12
<1> QED BY <1>5, <1>7, <1>11, <1>12, <1>14, <1>17, <1>18

(* Of a key of the description the page says the last value, of another    *)
(* nothing.                                                                *)
LEMMA PageSays ==
  ASSUME ValsShown, NEW n \in Nodes, NEW k \in DictKey,
         NEW P, P \subseteq PieceSet, P \cap VariableSet = ToSet(PagePieces) \cap VariableSet
  PROVE  SaysOf(P, n, k) = IF k \in ToSet(Listed[n]) THEN {Variable(n, k, last[n][k])} ELSE {}
<1>1. \A p \in P : p.what = "variable" => p \in VariableSet
  BY DEF PieceSet, Piece
<1>2. SaysOf(P, n, k) = {p \in P \cap VariableSet : p.node = n /\ p.key = k}
  <2>1. \A v \in VariableSet : v.what = "variable"
    BY DEF VariableSet, Variable
  <2> QED BY <1>1, <2>1 DEF SaysOf
<1>3. P \cap VariableSet
        = UNION {{Variable(m, j, last[m][j]) : j \in ToSet(Listed[m])} : m \in Nodes}
  BY PageText
<1>4. \A m, j, v : Variable(m, j, v).node = m /\ Variable(m, j, v).key = j
  BY DEF Variable
<1>5. ASSUME NEW p \in SaysOf(P, n, k)
      PROVE  k \in ToSet(Listed[n]) /\ p = Variable(n, k, last[n][k])
  <2>1. p \in P \cap VariableSet /\ p.node = n /\ p.key = k
    BY <1>2, <1>5
  <2>2. PICK m \in Nodes : p \in {Variable(m, j, last[m][j]) : j \in ToSet(Listed[m])}
    BY <1>3, <2>1
  <2>3. PICK j \in ToSet(Listed[m]) : p = Variable(m, j, last[m][j])
    BY <2>2
  <2>4. m = n /\ j = k
    BY <1>4, <2>1, <2>3
  <2> QED BY <2>3, <2>4
<1>6. ASSUME k \in ToSet(Listed[n])
      PROVE  Variable(n, k, last[n][k]) \in SaysOf(P, n, k)
  <2>1. Variable(n, k, last[n][k]) \in P \cap VariableSet
    BY <1>3, <1>6
  <2> QED BY <1>2, <1>4, <2>1
<1> QED BY <1>5, <1>6

(* A piece that is appended is no longer pending, but in the text.         *)
LEMMA AppendedStep ==
  ASSUME ValsShown, Pending, Doing, Head(pieces).what # "complete",
         pieces' = Tail(pieces), UNCHANGED <<vals, last>>,
         \/ html'.err /\ due' = <<>>
         \/ /\ ~ html.err
            /\ \E len \in Length : due' = due \o Times(Head(pieces), len)
  PROVE  ValsShown' /\ Pending'
<1>1. ValsShown'
  BY DEF ValsShown
<1>2. PagePieces' = PagePieces
  BY DEF PagePieces, NodePieces, Shown
<1> DEFINE R == PieceSet
<1> HIDE DEF R
<1>3. PICK s \in Seq(R) : s = pieces /\ s # <<>>
  BY DEF Pending, Doing, R
<1>4. PICK p \in R, q \in Seq(R) :
        p = Head(pieces) /\ q = Tail(pieces) /\ p = s[1] /\ pieces' = q
  BY <1>3, HeadTailProperties
<1>5. PICK m \in Nat : m = Len(q) /\ Len(s) = m + 1 /\ \A i \in 1 .. m : q[i] = s[i + 1]
  <2>1. Len(s) \in Nat /\ Len(s) # 0
    BY <1>3, LenProperties, EmptySeq
  <2>2. Len(q) = Len(s) - 1 /\ \A i \in 1 .. Len(q) : q[i] = s[i + 1]
    BY <1>4, <1>3, HeadTailProperties
  <2> QED BY <2>1, <2>2
<1>6. p.what # "complete" /\ Piece("complete").what = "complete"
  BY <1>4 DEF Piece
<1>7. m # 0
  BY <1>4, <1>5, <1>6, <1>3 DEF Pending
<1>8. q # <<>> /\ q[m] = Piece("complete")
  <2>1. s[m + 1] = Piece("complete")
    BY <1>5, <1>3 DEF Pending
  <2> QED BY <1>5, <1>7, <2>1
<1>9. ASSUME NEW i \in 1 .. m - 1
      PROVE  q[i].what # "complete"
  <2>1. i + 1 \in 1 .. Len(s) - 1 /\ i \in 1 .. m
    BY <1>5
  <2> QED BY <1>5, <1>3, <2>1 DEF Pending
<1>10. CASE html'.err /\ due' = <<>>
  <2>1. <<>> \in Seq(R)
    OBVIOUS
  <2> QED BY <1>1, <1>4, <1>5, <1>8, <1>9, <1>10, <2>1 DEF Pending, R
<1>11. ASSUME ~ html.err, NEW len \in Length, due' = due \o Times(p, len)
       PROVE  Pending'
  <2>1. PICK d \in Seq(R) : d = due
    BY DEF Pending, R
  <2>2. PICK t \in Seq(R) : t = Times(p, len) /\ ToSet(t) = {p}
    <3>1. len \in Nat /\ len # 0
      BY PageAssumption
    <3>2. Times(p, len) \in [1 .. len -> R]
      BY DEF Times
    <3>3. Times(p, len) \in Seq(R) /\ DOMAIN Times(p, len) = 1 .. len
      BY <3>1, <3>2, Listing
    <3>4. ToSet(Times(p, len)) = {p}
      <4>1. \A i \in 1 .. len : Times(p, len)[i] = p
        BY DEF Times
      <4>2. 1 \in 1 .. len
        BY <3>1
      <4> QED BY <3>3, <4>1, <4>2 DEF ToSet
    <3> QED BY <3>3, <3>4
  <2>3. due' = d \o t
    BY <1>11, <2>1, <2>2
  <2>4. d \o t \in Seq(R) /\ ToSet(d \o t) = ToSet(d) \cup {p}
    BY <2>2, ConcatElements, ConcatProperties
  <2>5. ToSet(pieces) = {p} \cup ToSet(q)
    <3>1. DOMAIN s = 1 .. m + 1 /\ DOMAIN q = 1 .. m
      BY <1>5, LenProperties
    <3>2. \A i \in 1 .. m + 1 : i = 1 \/ (i - 1 \in 1 .. m /\ (i - 1) + 1 = i)
      OBVIOUS
    <3>3. \A i \in 1 .. m : i + 1 \in 1 .. m + 1
      OBVIOUS
    <3>4. ToSet(s) = {s[i] : i \in 1 .. m + 1} /\ ToSet(q) = {q[i] : i \in 1 .. m}
      BY <3>1 DEF ToSet
    <3>5. \A i \in 1 .. m + 1 : i = 1 \/ (i - 1 \in 1 .. m /\ s[i] = q[i - 1])
      BY <1>5, <3>2
    <3>6. \A i \in 1 .. m + 1 : s[i] \in {p} \cup ToSet(q)
      BY <1>4, <3>4, <3>5
    <3>7. p \in ToSet(s) /\ \A i \in 1 .. m : q[i] \in ToSet(s)
      <4>1. 1 \in 1 .. m + 1
        OBVIOUS
      <4> QED BY <1>4, <1>5, <3>3, <3>4, <4>1
    <3> QED BY <1>3, <3>4, <3>6, <3>7
  <2>6. ToSet(d) \cup ToSet(pieces) = ToSet(PagePieces)
    BY <1>11, <1>3, <2>1 DEF Pending
  <2>7. ToSet(d \o t) \cup ToSet(q) = ToSet(PagePieces)
    BY <2>4, <2>5, <2>6
  <2> QED BY <1>2, <1>4, <1>5, <1>8, <1>9, <2>3, <2>4, <2>7 DEF Pending, R
<1>12. CASE ~ html.err /\ \E len \in Length : due' = due \o Times(Head(pieces), len)
  BY <1>1, <1>4, <1>11, <1>12
<1> QED BY <1>1, <1>10, <1>12

LEMMA ShownInit == Init => ValsShown /\ Pending
<1> SUFFICES ASSUME Init PROVE ValsShown /\ Pending
  OBVIOUS
<1>1. vals = [n \in Nodes |-> EmptyDict] /\ last = [n \in Nodes |-> [k \in DictKey |-> NoVal]]
  BY DEF Init
<1>2. EmptyDict \in Dict(Val) /\ \A k \in DictKey : DictVal(EmptyDict, k) = NoVal
  BY EmptyDictFacts
<1>3. ValsShown
  BY <1>1, <1>2 DEF ValsShown, AnyVal
<1>4. Pending
  BY DEF Init, Pending
<1> QED BY <1>3, <1>4

LEMMA SetValStep ==
  ASSUME ValsShown, Pending, NEW n \in Nodes, NEW k \in DictKey, NEW v \in Val, SetVal(n, k, v)
  PROVE  ValsShown' /\ Pending'
<1>1. /\ vals' = [vals EXCEPT ![n] = DictSetOrAdd(vals[n], k, v)]
      /\ last' = [last EXCEPT ![n][k] = v]
      /\ pieces = <<>> /\ UNCHANGED <<html, due, pieces>>
  BY DEF SetVal, Idle
<1>7. PICK e : e = DictSetOrAdd(vals[n], k, v)
  OBVIOUS
<1>2. PICK d \in Dict(Val) : d = vals[n] /\ e = DictSetOrAdd(d, k, v)
  BY <1>7 DEF ValsShown
<1>3. e \in Dict(Val) /\ \A j \in DictKey : DictVal(e, j) = IF j = k THEN v ELSE DictVal(d, j)
  BY <1>2, DictIsMap
<1>4. vals' \in [Nodes -> Dict(Val)] /\ last' \in [Nodes -> [DictKey -> AnyVal]]
  BY <1>1, <1>2, <1>3 DEF ValsShown, AnyVal
<1>5. ASSUME NEW m \in Nodes, NEW j \in DictKey
      PROVE  DictVal(vals'[m], j) = last'[m][j]
  <2>1. CASE m = n
    <3>1. vals'[m] = e /\ last'[m][j] = IF j = k THEN v ELSE last[n][j]
      BY <1>1, <1>2, <2>1 DEF ValsShown
    <3>2. DictVal(d, j) = last[n][j]
      BY <1>2 DEF ValsShown
    <3> QED BY <1>3, <3>1, <3>2
  <2>2. CASE m # n
    <3>1. vals'[m] = vals[m] /\ last'[m] = last[m]
      BY <1>1, <2>2 DEF ValsShown
    <3> QED BY <3>1 DEF ValsShown
  <2> QED BY <2>1, <2>2
<1>6. ValsShown'
  BY <1>4, <1>5 DEF ValsShown
<1> QED BY <1>1, <1>6 DEF Pending

LEMMA StartPageStep == ValsShown /\ Pending /\ StartPage => ValsShown' /\ Pending'
<1> SUFFICES ASSUME ValsShown, Pending, StartPage PROVE ValsShown' /\ Pending'
  OBVIOUS
<1>1. pieces = <<>> /\ pieces' = PagePieces /\ UNCHANGED <<vals, last, html, due>>
  BY DEF StartPage, Idle
<1>2. ValsShown' /\ PagePieces' = PagePieces
  BY <1>1 DEF ValsShown, PagePieces, NodePieces, Shown
<1>3. due' = <<>> /\ due' \in Seq(PieceSet)
  BY <1>1 DEF Pending
<1>4. ToSet(<<>>) = {}
  BY DEF ToSet
<1> QED BY <1>1, <1>2, <1>3, <1>4, PageText DEF Pending

(* When the page is completed, nothing else is pending.                    *)
LEMMA CompleteIsLast ==
  ASSUME Pending, Complete
  PROVE  Tail(pieces) = <<>> /\ ToSet(pieces) = {Piece("complete")}
<1> DEFINE R == PieceSet
<1> HIDE DEF R
<1>1. PICK s \in Seq(R) : s = pieces /\ s # <<>>
  BY DEF Pending, Complete, Doing, R
<1>2. Len(s) \in Nat /\ Len(s) # 0 /\ DOMAIN s = 1 .. Len(s) /\ Head(s) = s[1]
  BY <1>1, LenProperties, EmptySeq
<1>3. s[1].what = "complete"
  BY <1>1, <1>2 DEF Complete
<1>4. Len(s) = 1
  <2>1. Len(s) # 1 => 1 \in 1 .. Len(s) - 1
    BY <1>2
  <2> QED BY <1>1, <1>3, <2>1 DEF Pending
<1>5. s[1] = Piece("complete")
  BY <1>1, <1>4 DEF Pending
<1>6. Tail(s) \in Seq(R) /\ Len(Tail(s)) = 0
  BY <1>1, <1>4, HeadTailProperties
<1>7. Tail(s) = <<>>
  BY <1>6, EmptySeq
<1>8. ToSet(s) = {s[1]}
  BY <1>2, <1>4 DEF ToSet
<1> QED BY <1>1, <1>5, <1>7, <1>8

LEMMA ShownStep == ValsShown /\ Pending /\ [Next]_vars => ValsShown' /\ Pending'
<1> SUFFICES ASSUME ValsShown, Pending, [Next]_vars PROVE ValsShown' /\ Pending'
  OBVIOUS
<1>1. CASE \E n \in Nodes, k \in DictKey, v \in Val : SetVal(n, k, v)
  BY <1>1, SetValStep
<1>2. CASE StartPage
  BY <1>2, StartPageStep
<1>3. CASE PrintPiece \/ IncludeCss
  <2>1. PICK len \in Length : \E h : AppendPiece(h, len)
    BY <1>3, Zenon DEF PrintPiece, IncludeCss
  <2>2. Doing /\ Head(pieces).what # "complete" /\ ~ html.err
    BY <1>3 DEF PrintPiece, IncludeCss
  <2>3. /\ pieces' = Tail(pieces) /\ UNCHANGED <<vals, last>>
        /\ due' = IF html'.err THEN <<>> ELSE due \o Times(Head(pieces), len)
    BY <2>1 DEF AppendPiece
  <2> QED BY <2>2, <2>3, AppendedStep
<1>4. CASE AppendFails
  <2>1. /\ Doing /\ Head(pieces).what # "complete"
        /\ pieces' = Tail(pieces) /\ UNCHANGED <<vals, last>>
        /\ html'.err /\ due' = <<>>
    BY <1>4 DEF AppendFails, AppendPiece, Failed, NoHtml
  <2> QED BY <2>1, AppendedStep
<1>5. CASE Complete
  <2>1. pieces' = <<>> /\ due' = <<>> /\ UNCHANGED <<vals, last>>
    BY <1>5, CompleteIsLast DEF Complete
  <2> QED BY <2>1 DEF ValsShown, Pending
<1>6. CASE UNCHANGED vars
  BY <1>6 DEF vars, ValsShown, Pending, PagePieces, NodePieces, Shown
<1> QED BY <1>1, <1>2, <1>3, <1>4, <1>5, <1>6 DEF Next

LEMMA ShownInvariance == Spec => [](ValsShown /\ Pending)
BY ShownInit, ShownStep, PTL DEF Spec
-----------------------------------------------------------------------------
(* The theorems                                                            *)

(* The strengthened invariant of the buffer of a page.                     *)
THEOREM Invariance == Spec => []IInv
BY InitIInv, Step, PTL DEF Spec

(* Whatever the size of a block and the lengths of what is formatted and   *)
(* included, bano_html.c never writes past the end of its buffer, and cuts *)
(* or overwrites nothing that was appended.                                *)
THEOREM PageWholeAlways == Spec => []PageWhole
<1>1. IInv => PageWhole
  <2> SUFFICES ASSUME IInv PROVE PageWhole
    OBVIOUS
  <2>1. PICK S : html \in Buffer(S) /\ due \in Seq(S)
    BY DEF IInv
  <2>2. /\ html.data \in Seq(S) /\ html.size \in Nat /\ html.off \in Nat
        /\ Len(html.data) = html.size /\ html.off <= html.size
    BY <2>1 DEF IInv, Within, Buffer
  <2>3. ASSUME ~ html.err PROVE SubSeq(html.data, 1, html.off) = due
    <3> DEFINE l == SubSeq(html.data, 1, html.off)
    <3>1. l \in Seq(S) /\ Len(l) = html.off /\ \A i \in 1 .. html.off : l[i] = html.data[i]
      <4>1. \A i \in 1 .. html.off : html.data[i] \in S
        BY <2>2, LenProperties
      <4>2. /\ l \in Seq(S)
            /\ Len(l) = IF 1 <= html.off THEN html.off - 1 + 1 ELSE 0
            /\ \A i \in 1 .. html.off - 1 + 1 : l[i] = html.data[1 + i - 1]
        BY <2>2, <4>1, SubSeqProperties
      <4> QED BY <2>2, <4>2
    <3> HIDE DEF l
    <3>2. Len(due) = html.off /\ \A i \in 1 .. html.off : html.data[i] = due[i]
      BY <2>3 DEF IInv, Holds
    <3>3. l = due
      BY <2>1, <3>1, <3>2, SeqEqual
    <3> QED BY <3>3 DEF l
  <2> QED BY <2>2, <2>3 DEF PageWhole, WithinBuffer
<1> QED BY <1>1, Invariance, PTL

(* A page that is sent says of each key of each node's description the     *)
(* value that was last set, which bano_dict.c must find in the list that   *)
(* other keys share, and says nothing of other keys: for any nodes, keys,  *)
(* hash and lengths of text, whatever failed and was repeated before.      *)
THEOREM PageShowsLastAlways == Spec => PageShowsLast
<1>1. PageWhole /\ ValsShown /\ Pending /\ [Next]_vars =>
        [answer' # answer /\ answer'.fmt = "html" =>
           \A n \in Nodes, k \in DictKey :
             {p \in ToSet(answer'.text) : p.what = "variable" /\ p.node = n /\ p.key = k}
               = IF k \in ToSet(Listed[n]) THEN {Variable(n, k, last[n][k])} ELSE {}]_vars
  <2> SUFFICES ASSUME PageWhole, ValsShown, Pending, Next,
                      answer' # answer, answer'.fmt = "html",
                      NEW n \in Nodes, NEW k \in DictKey
               PROVE  SaysOf(ToSet(answer'.text), n, k)
                        = IF k \in ToSet(Listed[n]) THEN {Variable(n, k, last[n][k])} ELSE {}
    BY DEF SaysOf
  <2>1. Complete
    BY DEF Next, SetVal, StartPage, PrintPiece, IncludeCss, AppendFails, AppendPiece, NoAnswer
  <2>2. ~ html.err /\ answer'.text = due
    BY <2>1 DEF Complete, PageWhole
  <2>3. PICK P : P = ToSet(answer'.text)
    OBVIOUS
  <2>4. P = ToSet(due) /\ P \cup {Piece("complete")} = ToSet(PagePieces)
    BY <2>1, <2>2, <2>3, CompleteIsLast DEF Pending, Complete, Doing
  <2>5. P \subseteq PieceSet
    <3>1. due \in Seq(PieceSet)
      BY DEF Pending
    <3> QED BY <2>4, <3>1, LenProperties DEF ToSet
  <2>6. Piece("complete") \notin VariableSet
    <3>1. \A v \in VariableSet : v.what = "variable"
      BY DEF VariableSet, Variable
    <3>2. Piece("complete").what = "complete"
      BY DEF Piece
    <3> QED BY <3>1, <3>2
  <2>7. P \cap VariableSet = ToSet(PagePieces) \cap VariableSet
    BY <2>4, <2>6
  <2> QED BY <2>3, <2>5, <2>7, PageSays
<1> QED BY <1>1, PageWholeAlways, ShownInvariance, PTL DEF Spec, PageShowsLast
==============================================================================
