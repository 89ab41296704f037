------------------------- MODULE PacketCodecProofs -------------------------
(***************************************************************************)
(* Proofs about PacketCodec, for every query, every answer and every way   *)
(* to compress it.                                                         *)
(***************************************************************************)
EXTENDS PacketCodec, Induction, SequenceTheorems

USE DEF A, NS, CNAME, MX, HeaderLen, DOT
----------------------------------------------------------------------------
(* Least and greatest *)

\* A set of natural numbers that is not empty has the minimum MinOf chooses.
LEMMA MinOfIs ==
  ASSUME NEW S \in SUBSET Nat, S # {}
  PROVE  MinOf(S) \in S /\ \A y \in S : MinOf(S) <= y
<1>1. \E x \in S : \A y \in S : x <= y BY Least
<1> QED BY <1>1 DEF MinOf

\* An element no other is less than is the minimum.
LEMMA MinOfEq ==
  ASSUME NEW S \in SUBSET Nat, NEW x \in S, \A y \in S : x <= y
  PROVE  MinOf(S) = x
<1>1. S # {} OBVIOUS
<1>2. MinOf(S) \in S /\ \A y \in S : MinOf(S) <= y BY <1>1, MinOfIs
<1>3. MinOf(S) \in Nat /\ x \in Nat /\ MinOf(S) <= x /\ x <= MinOf(S) BY <1>2
<1> QED BY ONLY <1>3

\* An element no other exceeds is the maximum.
LEMMA MaxOfEq ==
  ASSUME NEW S \in SUBSET Int, NEW x \in S, \A y \in S : x >= y
  PROVE  MaxOf(S) = x
<1>1. \E z \in S : \A y \in S : z >= y OBVIOUS
<1>2. MaxOf(S) \in S /\ \A y \in S : MaxOf(S) >= y BY <1>1 DEF MaxOf
<1>3. MaxOf(S) \in Int /\ x \in Int /\ MaxOf(S) <= x /\ x <= MaxOf(S) BY <1>2
<1> QED BY ONLY <1>3

\* So has a set with a bound the maximum MaxOf chooses.
LEMMA MaxOfIs ==
  ASSUME NEW n \in Nat, NEW S, S \subseteq 0 .. n, S # {}
  PROVE  MaxOf(S) \in S /\ \A y \in S : MaxOf(S) >= y
<1>1. \E x \in S : \A y \in S : x >= y BY Greatest
<1> QED BY <1>1 DEF MaxOf
----------------------------------------------------------------------------
(* Sequences of numbers *)

\* A part of a sequence.
LEMMA Part ==
  ASSUME NEW S, NEW s \in Seq(S), NEW i \in Int, i >= 1, NEW j \in Int,
         i <= j + 1, j <= Len(s)
  PROVE  /\ SubSeq(s, i, j) \in Seq(S)
         /\ Len(SubSeq(s, i, j)) = j - i + 1
         /\ \A k \in 1 .. j - i + 1 : SubSeq(s, i, j)[k] = s[i + k - 1]
<1>1. Len(s) \in Nat /\ \A k \in 1 .. Len(s) : s[k] \in S OBVIOUS
<1>2. \A k \in i .. j : s[k] \in S BY <1>1
<1>3. /\ SubSeq(s, i, j) \in Seq(S)
      /\ Len(SubSeq(s, i, j)) = IF i <= j THEN j - i + 1 ELSE 0
      /\ \A k \in 1 .. j - i + 1 : SubSeq(s, i, j)[k] = s[i + k - 1]
  BY <1>2, SubSeqProperties
<1>4. Len(SubSeq(s, i, j)) = j - i + 1 BY <1>3
<1> QED BY <1>3, <1>4

\* The l elements behind the a-th of m are those behind the c-th of u.
Agree(m, a, u, c, l) == \A i \in 1 .. l : m[a + i] = u[c + i]

\* Two sequences that agree over a stretch have the same part there.
LEMMA SameParts ==
  ASSUME NEW m \in Seq(Int), NEW u \in Seq(Int), NEW a \in Nat, NEW c \in Nat, NEW l \in Nat,
         a + l <= Len(m), c + l <= Len(u), Agree(m, a, u, c, l)
  PROVE  SubSeq(m, a + 1, a + l) = SubSeq(u, c + 1, c + l)
<1> DEFINE Is(x, v, n) == /\ x \in Seq(Int) /\ Len(x) = l
                          /\ \A k \in 1 .. l : x[k] = v[n + k]
<1>1. ASSUME NEW v \in Seq(Int), NEW n \in Nat, n + l <= Len(v)
      PROVE  Is(SubSeq(v, n + 1, n + l), v, n)
  <2> DEFINE i == n + 1
             j == n + l
  <2>1. /\ i \in Int /\ i >= 1 /\ j \in Int /\ i <= j + 1 /\ j <= Len(v) /\ j - i + 1 = l
        /\ \A k \in 1 .. l : i + k - 1 = n + k
    BY <1>1
  <2> HIDE DEF i, j
  <2>2. /\ SubSeq(v, i, j) \in Seq(Int) /\ Len(SubSeq(v, i, j)) = j - i + 1
        /\ \A k \in 1 .. j - i + 1 : SubSeq(v, i, j)[k] = v[i + k - 1]
    BY ONLY <2>1, v \in Seq(Int), Part
  <2> DEFINE x == SubSeq(v, i, j)
  <2> HIDE DEF x
  <2>3. x \in Seq(Int) /\ Len(x) = l /\ \A k \in 1 .. l : x[k] = v[i + k - 1]
    BY <2>1, <2>2 DEF x
  <2>4. \A k \in 1 .. l : x[k] = v[n + k] BY <2>1, <2>3
  <2>5. Is(x, v, n) BY <2>3, <2>4
  <2> QED BY <2>5 DEF x, i, j
<1> DEFINE x == SubSeq(m, a + 1, a + l)
           y == SubSeq(u, c + 1, c + l)
<1>2. Is(x, m, a) BY <1>1
<1>3. Is(y, u, c) BY <1>1
<1> HIDE DEF x, y
<1>4. \A k \in 1 .. l : x[k] = y[k] BY <1>2, <1>3 DEF Agree
<1>5. x = y
  <2>1. x \in Seq(Int) /\ y \in Seq(Int) /\ Len(x) = Len(y) /\ \A k \in 1 .. Len(x) : x[k] = y[k]
    BY <1>2, <1>3, <1>4
  <2> QED BY ONLY <2>1, SeqEqual
<1> QED BY <1>5 DEF x, y

\* The same when one of them starts there.
LEMMA SamePart ==
  ASSUME NEW m \in Seq(Int), NEW t \in Seq(Int), NEW a \in Nat, NEW l \in Nat,
         a + l <= Len(m), l <= Len(t), \A i \in 1 .. l : m[a + i] = t[i]
  PROVE  SubSeq(m, a + 1, a + l) = SubSeq(t, 1, l)
<1>1. 0 \in Nat /\ 0 + l <= Len(t) /\ 0 + 1 = 1 /\ 0 + l = l OBVIOUS
<1>2. Agree(m, a, t, 0, l)
  <2>1. \A i \in 1 .. l : 0 + i = i OBVIOUS
  <2>2. \A i \in 1 .. l : m[a + i] = t[0 + i] BY <2>1
  <2> QED BY ONLY <2>2 DEF Agree
<1>3. SubSeq(m, a + 1, a + l) = SubSeq(t, 0 + 1, 0 + l) BY <1>1, <1>2, SameParts
<1> QED BY <1>1, <1>3
----------------------------------------------------------------------------
(* Names and their labels *)

\* A label ends at the next dot or at the end of the name.
LEMMA LabelLenIs ==
  ASSUME NEW t \in Seq(Int), NEW k \in 1 .. Len(t) + 1
  PROVE  /\ LabelLen(t, k) \in 0 .. Len(t) + 1 - k
         /\ k + LabelLen(t, k) = Len(t) + 1 \/ t[k + LabelLen(t, k)] = DOT
         /\ \A j \in k .. k + LabelLen(t, k) - 1 : t[j] # DOT
<1> DEFINE S == {j \in k .. Len(t) + 1 : j = Len(t) + 1 \/ t[j] = DOT}
           m == MinOf(S)
<1>1. Len(t) \in Nat OBVIOUS
<1>2. S \in SUBSET Nat /\ Len(t) + 1 \in S BY <1>1
<1>3. m \in S /\ \A y \in S : m <= y
  <2> HIDE DEF S
  <2> QED BY <1>2, MinOfIs
<1>4. LabelLen(t, k) = m - k BY DEF LabelLen
<1> HIDE DEF m
<1>5. m \in k .. Len(t) + 1 /\ (m = Len(t) + 1 \/ t[m] = DOT) BY <1>3
<1>6. ASSUME NEW j \in k .. m - 1 PROVE t[j] # DOT
  <2>1. j \in k .. Len(t) + 1 /\ j < m BY <1>5, <1>1
  <2>2. j \notin S BY <2>1, <1>3
  <2> QED BY <2>1, <2>2
<1>7. k + LabelLen(t, k) = m BY <1>4, <1>5
<1> QED BY <1>4, <1>5, <1>6, <1>7

\* The places at which the labels of a name start, and that of its end, counted
\* on the wire, where the length of a label comes before its characters.
Marks(t) == {k \in 1 .. Len(t) + 1 : k = 1 \/ t[k - 1] = DOT} \cup {Len(t) + 2}

\* A name is a sequence of numbers.
LEMMA NameSeq ==
  ASSUME NEW t, IsName(t)
  PROVE  /\ t \in Seq(1 .. 191) /\ t \in Seq(Int) /\ Len(t) \in Nat
         /\ \A i \in 1 .. Len(t) : t[i] \in 1 .. 191
<1>1. t \in Seq(1 .. 191) BY DEF IsName
<1>2. t \in Seq(Int)
  <2> DEFINE S == 1 .. 191
  <2>1. t \in Seq(S) /\ S \subseteq Int BY <1>1
  <2> HIDE DEF S
  <2> QED BY ONLY <2>1, SeqMonotonic
<1>3. \A i \in 1 .. Len(t) : t[i] \in 1 .. 191
  <2> DEFINE S == 1 .. 191
  <2>1. t \in Seq(S) BY <1>1
  <2> HIDE DEF S
  <2>2. \A i \in 1 .. Len(t) : t[i] \in S BY <2>1
  <2> QED BY <2>2 DEF S
<1> QED BY <1>1, <1>2, <1>3

\* After a label that is not empty comes the next, or the end.
LEMMA LabelOf ==
  ASSUME NEW t, IsName(t), NEW k \in Marks(t), k # Len(t) + 2
  PROVE  /\ t \in Seq(Int) /\ Len(t) \in Nat /\ k \in 1 .. Len(t) + 1
         /\ LabelLen(t, k) \in 1 .. 63
         /\ k + LabelLen(t, k) <= Len(t) + 1
         /\ k + LabelLen(t, k) = Len(t) + 1 \/ t[k + LabelLen(t, k)] = DOT
         /\ \A j \in k .. k + LabelLen(t, k) - 1 : t[j] # DOT
<1>1. t \in Seq(Int) /\ Len(t) \in Nat BY NameSeq
<1>2. k \in 1 .. Len(t) + 1 /\ (k = 1 \/ t[k - 1] = DOT) BY DEF Marks
<1>3. LabelLen(t, k) \in 1 .. 63 BY <1>2 DEF IsName
<1>4. /\ LabelLen(t, k) \in 0 .. Len(t) + 1 - k
      /\ k + LabelLen(t, k) = Len(t) + 1 \/ t[k + LabelLen(t, k)] = DOT
      /\ \A j \in k .. k + LabelLen(t, k) - 1 : t[j] # DOT
  BY <1>1, <1>2, LabelLenIs
<1>5. k + LabelLen(t, k) <= Len(t) + 1 BY <1>1, <1>2, <1>3, <1>4
<1> QED BY <1>1, <1>2, <1>3, <1>4, <1>5

\* The next mark is one past the label, and there is none on the way.
LEMMA NextMark ==
  ASSUME NEW t, IsName(t), NEW k \in Marks(t), k # Len(t) + 2
  PROVE  /\ k + LabelLen(t, k) + 1 \in Marks(t)
         /\ \A j \in Marks(t) : j <= k \/ j >= k + LabelLen(t, k) + 1
<1> DEFINE n == LabelLen(t, k)
<1>1. /\ Len(t) \in Nat /\ k \in 1 .. Len(t) + 1 /\ n \in 1 .. 63
      /\ k + n <= Len(t) + 1 /\ (k + n = Len(t) + 1 \/ t[k + n] = DOT)
      /\ \A j \in k .. k + n - 1 : t[j] # DOT
  BY LabelOf
<1> HIDE DEF n
<1>2. k + n + 1 \in Marks(t)
  <2>1. CASE k + n = Len(t) + 1
    <3>1. k + n + 1 = Len(t) + 2 BY <2>1, <1>1
    <3> QED BY <3>1 DEF Marks
  <2>2. CASE k + n # Len(t) + 1
    <3> DEFINE j == k + n + 1
    <3>1. t[k + n] = DOT /\ j \in 1 .. Len(t) + 1 /\ j - 1 = k + n BY <2>2, <1>1
    <3> HIDE DEF j
    <3>2. j \in Marks(t) BY <3>1 DEF Marks
    <3> QED BY <3>2 DEF j
  <2> QED BY <2>1, <2>2
<1>3. ASSUME NEW j \in Marks(t), j > k, j < k + n + 1 PROVE FALSE
  <2>1. j \in 1 .. Len(t) + 1 /\ j # 1 /\ j # Len(t) + 2 BY <1>1, <1>3 DEF Marks
  <2>2. t[j - 1] = DOT BY <2>1 DEF Marks
  <2>3. j - 1 \in k .. k + n - 1 BY <2>1, <1>3, <1>1
  <2> QED BY <2>2, <2>3, <1>1
<1>4. \A j \in Marks(t) : j <= k \/ j >= k + n + 1
  <2> SUFFICES ASSUME NEW j \in Marks(t) PROVE j <= k \/ j >= k + n + 1 OBVIOUS
  <2>1. j \in Int BY <1>1 DEF Marks
  <2> QED BY <2>1, <1>1, <1>3
<1> QED BY <1>2, <1>4 DEF n

\* No name is empty, and none ends with a dot.
LEMMA NameEnds ==
  ASSUME NEW t, IsName(t)
  PROVE  /\ t \in Seq(1 .. 191) /\ Len(t) \in Nat /\ Len(t) >= 1
         /\ 1 \in Marks(t) /\ Len(t) + 2 \in Marks(t) /\ Len(t) + 1 \notin Marks(t)
         /\ Marks(t) \subseteq 1 .. Len(t) + 2
         /\ t[Len(t)] # DOT
<1>1. t \in Seq(1 .. 191) /\ Len(t) \in Nat BY NameSeq
<1>2. 1 \in Marks(t) /\ Len(t) + 2 \in Marks(t) /\ Marks(t) \subseteq 1 .. Len(t) + 2
  BY <1>1 DEF Marks
<1>3. ASSUME NEW k \in Marks(t), k = Len(t) + 1 PROVE FALSE
  <2>1. k # Len(t) + 2 BY <1>1, <1>3
  <2>2. LabelLen(t, k) \in 1 .. 63 /\ k + LabelLen(t, k) <= Len(t) + 1
    BY <2>1, LabelOf
  <2>3. \E n \in 1 .. 63 : k + n <= Len(t) + 1 BY ONLY <2>2
  <2> QED BY <2>3, <1>1, <1>3
<1>4. Len(t) >= 1
  <2>1. CASE Len(t) = 0
    <3>1. Len(t) + 1 = 1 BY <2>1
    <3> QED BY <3>1, <1>2, <1>3
  <2> QED BY <2>1, <1>1
<1>5. t[Len(t)] # DOT
  <2>1. Len(t) + 1 \in 1 .. Len(t) + 1 /\ Len(t) + 1 - 1 = Len(t) BY <1>1
  <2> QED BY <2>1, <1>3 DEF Marks
<1> QED BY <1>1, <1>2, <1>3, <1>4, <1>5

\* What LabelLenIs says of the length of a label holds of no other number.
LEMMA LabelLenEq ==
  ASSUME NEW t \in Seq(Int), NEW k \in 1 .. Len(t) + 1, NEW n \in 0 .. Len(t) + 1 - k,
         k + n = Len(t) + 1 \/ t[k + n] = DOT,
         \A j \in k .. k + n - 1 : t[j] # DOT
  PROVE  LabelLen(t, k) = n
<1>0. Len(t) \in Nat OBVIOUS
<1>1. PICK l \in 0 .. Len(t) + 1 - k : l = LabelLen(t, k) BY LabelLenIs
<1>2. /\ k + l = Len(t) + 1 \/ t[k + l] = DOT
      /\ \A j \in k .. k + l - 1 : t[j] # DOT
  BY <1>1, LabelLenIs
<1>3. CASE l < n
  <2>1. k + l \in k .. k + n - 1 /\ k + l # Len(t) + 1 BY <1>0, <1>3
  <2> QED BY <2>1, <1>2
<1>4. CASE n < l
  <2>1. k + n \in k .. k + l - 1 /\ k + n # Len(t) + 1 BY <1>0, <1>4
  <2> QED BY <2>1, <1>2
<1> QED BY <1>1, <1>3, <1>4

\* The wire form of a name: lengths at the marks, characters elsewhere, no 0
\* before its end.
LEMMA FormIs ==
  ASSUME NEW t, IsName(t)
  PROVE  /\ inetFormat(t) \in Seq(0 .. 191) /\ Len(inetFormat(t)) = Len(t) + 2
         /\ inetFormat(t)[Len(t) + 2] = 0
         /\ \A k \in Marks(t) : k # Len(t) + 2 => inetFormat(t)[k] = LabelLen(t, k)
         /\ \A k \in 1 .. Len(t) + 1 : k \notin Marks(t) => inetFormat(t)[k] = t[k - 1]
         /\ \A k \in 1 .. Len(t) + 1 : inetFormat(t)[k] \in 1 .. 191
<1> DEFINE w == inetFormat(t)
<1>1. t \in Seq(1 .. 191) /\ t \in Seq(Int) /\ Len(t) \in Nat BY NameSeq
<1>2. /\ DOMAIN w = 1 .. Len(t) + 2
      /\ \A k \in 1 .. Len(t) + 2 : w[k] =
           CASE k = Len(t) + 2 -> 0
             [] k = 1 -> LabelLen(t, 1)
             [] OTHER -> IF t[k - 1] = DOT THEN LabelLen(t, k) ELSE t[k - 1]
      /\ w = [k \in 1 .. Len(t) + 2 |-> w[k]]
  BY DEF inetFormat
<1> HIDE DEF w
<1>3. w[Len(t) + 2] = 0
  <2>1. Len(t) + 2 \in 1 .. Len(t) + 2 BY <1>1
  <2> QED BY <2>1, <1>2
<1>4. ASSUME NEW k \in Marks(t), k # Len(t) + 2 PROVE w[k] = LabelLen(t, k)
  <2>1. k \in 1 .. Len(t) + 1 /\ (k = 1 \/ t[k - 1] = DOT) BY <1>4 DEF Marks
  <2>2. k \in 1 .. Len(t) + 2 BY <2>1, <1>1
  <2>3. CASE k = 1 BY <2>2, <2>3, <1>2, <1>4
  <2>4. CASE k # 1 BY <2>1, <2>2, <2>4, <1>2, <1>4
  <2> QED BY <2>3, <2>4
<1>5. ASSUME NEW k \in 1 .. Len(t) + 1, k \notin Marks(t) PROVE w[k] = t[k - 1]
  <2>1. k # 1 /\ t[k - 1] # DOT BY <1>5 DEF Marks
  <2>2. k \in 1 .. Len(t) + 2 /\ k # Len(t) + 2 BY <1>1
  <2> QED BY <2>1, <2>2, <1>2
<1>6. ASSUME NEW k \in 1 .. Len(t) + 1 PROVE w[k] \in 1 .. 191
  <2>0. k # Len(t) + 2 BY <1>1
  <2>1. CASE k \in Marks(t)
    <3>1. LabelLen(t, k) \in 1 .. 63 BY <2>0, <2>1, LabelOf
    <3> QED BY <3>1, <2>0, <2>1, <1>4
  <2>2. CASE k \notin Marks(t)
    <3>1. k # 1 BY <2>2 DEF Marks
    <3>2. k - 1 \in 1 .. Len(t) BY <3>1, <1>1
    <3>3. t[k - 1] \in 1 .. 191 BY <3>2, NameSeq
    <3> QED BY <3>3, <2>2, <1>5
  <2> QED BY <2>1, <2>2
<1>7. w \in Seq(0 .. 191) /\ Len(w) = Len(t) + 2
  <2>1. ASSUME NEW k \in 1 .. Len(t) + 2 PROVE w[k] \in 0 .. 191
    <3>1. CASE k = Len(t) + 2 BY <3>1, <1>3
    <3>2. CASE k # Len(t) + 2
      <4>1. k \in 1 .. Len(t) + 1 BY <3>2, <1>1
      <4> QED BY <4>1, <1>6
    <3> QED BY <3>1, <3>2
  <2> DEFINE n == Len(t) + 2
             S == 0 .. 191
  <2>2. n \in Nat /\ w = [k \in 1 .. n |-> w[k]] /\ \A k \in 1 .. n : w[k] \in S
    BY <2>1, <1>1, <1>2
  <2> HIDE DEF n, S
  <2>3. w \in [1 .. n -> S] BY <2>2
  <2>4. w \in Seq(S) /\ Len(w) = n BY <2>2, <2>3
  <2> QED BY <2>4 DEF n, S
<1> QED BY <1>3, <1>4, <1>5, <1>6, <1>7 DEF w
----------------------------------------------------------------------------
(* The walk over the labels *)

\* A step of the walk, over a label and at the end.
LEMMA NextLabelIs ==
  ASSUME NEW m \in Seq(Nat), NEW o \in Nat
  PROVE  /\ NextLabel(m, o) \in Nat
         /\ o < Len(m) /\ m[o + 1] \in 1 .. 63 => NextLabel(m, o) = o + 1 + m[o + 1]
         /\ o < Len(m) /\ (m[o + 1] = 0 \/ m[o + 1] >= 192) => NextLabel(m, o) = o
<1>0. Len(m) \in Nat OBVIOUS
<1>1. CASE o >= Len(m) BY <1>0, <1>1 DEF NextLabel
<1>2. CASE o < Len(m)
  <2> DEFINE b == m[o + 1]
  <2>1. o + 1 \in 1 .. Len(m) BY <1>2, <1>0
  <2>2. b \in Nat BY <2>1
  <2>3. NextLabel(m, o) = IF b = 0 \/ b >= 192 THEN o ELSE o + 1 + MinOf({64, b})
    BY <1>2, <1>0 DEF NextLabel
  <2> HIDE DEF b
  <2>4. MinOf({64, b}) \in {64, b} /\ MinOf({64, b}) <= b
    <3>1. {64, b} \in SUBSET Nat /\ {64, b} # {} /\ b \in {64, b} BY <2>2
    <3> QED BY <3>1, MinOfIs
  <2>5. b \in 1 .. 63 => MinOf({64, b}) = b BY <2>4
  <2>6. NextLabel(m, o) \in Nat BY <2>2, <2>3, <2>4
  <2>7. b \in 1 .. 63 => NextLabel(m, o) = o + 1 + b BY <2>3, <2>5
  <2>8. b = 0 \/ b >= 192 => NextLabel(m, o) = o BY <2>3
  <2> QED BY <2>6, <2>7, <2>8 DEF b
<1> QED BY <1>0, <1>1, <1>2

\* The function Labels is defined by does exist.
LEMMA LabelsAre ==
  ASSUME NEW m \in Seq(Nat), NEW d \in Nat
  PROVE  \E upto : /\ Labels(m, d) = upto[Len(m)]
                   /\ upto[0] = {d}
                   /\ \A n \in 1 .. Len(m) :
                        upto[n] = upto[n - 1] \cup {NextLabel(m, o) : o \in upto[n - 1]}
<1> DEFINE S == SUBSET Nat
           N == Len(m)
           nx == [v \in (1 .. N) \X S |-> v[2] \cup {NextLabel(m, o) : o \in v[2]}]
           Is(f) == f = [n \in 0 .. N |->
                           IF n = 0 THEN {d}
                           ELSE f[n - 1] \cup {NextLabel(m, o) : o \in f[n - 1]}]
<1>1. N \in Nat /\ {d} \in S OBVIOUS
<1>2. \A k \in 1 .. N : \A v \in S :
        nx[<<k, v>>] = v \cup {NextLabel(m, o) : o \in v}
  OBVIOUS
<1>3. \A v \in S : v \cup {NextLabel(m, o) : o \in v} \in S
  <2>1. \A o \in Nat : NextLabel(m, o) \in Nat BY NextLabelIs
  <2> QED BY <2>1
<1> HIDE DEF S, nx, N
<1>4. \A k \in 1 .. N : \A v \in S : nx[<<k, v>>] \in S BY <1>2, <1>3
<1>5. PICK f : IteratedIn(f, N, S, {d}, nx) BY ONLY <1>1, <1>4, IterateIn
<1>51. /\ f \in [0 .. N -> S]
       /\ f = [k \in 0 .. N |-> IF k = 0 THEN {d} ELSE nx[<<k, f[k - 1]>>]]
  BY <1>5 DEF IteratedIn
<1>6. Is(f)
  <2>1. ASSUME NEW n \in 0 .. N, n # 0
        PROVE  nx[<<n, f[n - 1]>>] = f[n - 1] \cup {NextLabel(m, o) : o \in f[n - 1]}
    <3>1. n \in 1 .. N /\ n - 1 \in 0 .. N BY <2>1, <1>1
    <3>2. f[n - 1] \in S BY <3>1, <1>51
    <3> QED BY <3>1, <3>2, <1>2
  <2>2. [k \in 0 .. N |-> IF k = 0 THEN {d} ELSE nx[<<k, f[k - 1]>>]]
          = [n \in 0 .. N |-> IF n = 0 THEN {d}
                              ELSE f[n - 1] \cup {NextLabel(m, o) : o \in f[n - 1]}]
    BY <2>1
  <2> QED BY <1>51, <2>2
<1> DEFINE g == CHOOSE f0 : Is(f0)
<1>7. Is(g) BY <1>6
<1>8. Labels(m, d) = g[N] BY DEF Labels, N
<1> HIDE DEF g
<1>9. g[0] = {d}
  <2>1. 0 \in 0 .. N BY <1>1
  <2> QED BY <2>1, <1>7
<1>10. ASSUME NEW n \in 1 .. N
       PROVE g[n] = g[n - 1] \cup {NextLabel(m, o) : o \in g[n - 1]}
  <2>1. n \in 0 .. N /\ n # 0 BY <1>1
  <2> QED BY <2>1, <1>7
<1> QED BY <1>8, <1>9, <1>10 DEF N

\* The walk passes exactly the offsets of a set that holds its start and whose
\* every member but the last leads to the next.
LEMMA Walk ==
  ASSUME NEW m \in Seq(Nat), NEW d \in Nat, NEW e \in Nat, e < Len(m),
         NEW B, B \subseteq d .. e, d \in B, e \in B,
         m[e + 1] = 0 \/ m[e + 1] >= 192,
         \A o \in B \ {e} : /\ m[o + 1] \in 1 .. 63
                            /\ o + 1 + m[o + 1] \in B
                            /\ \A p \in B : p <= o \/ p >= o + 1 + m[o + 1]
  PROVE  Labels(m, d) = B /\ MaxOf(B) = e
<1>0. Len(m) \in Nat /\ d <= e /\ B \subseteq Nat OBVIOUS
<1>1. PICK upto : /\ Labels(m, d) = upto[Len(m)]
                  /\ upto[0] = {d}
                  /\ \A n \in 1 .. Len(m) :
                       upto[n] = upto[n - 1] \cup {NextLabel(m, o) : o \in upto[n - 1]}
  BY LabelsAre
<1>2. NextLabel(m, e) = e BY NextLabelIs
<1>3. \A o \in B \ {e} : NextLabel(m, o) = o + 1 + m[o + 1]
  <2> SUFFICES ASSUME NEW o \in B \ {e} PROVE NextLabel(m, o) = o + 1 + m[o + 1]
    OBVIOUS
  <2>1. o \in Nat /\ o < Len(m) /\ m[o + 1] \in 1 .. 63 BY <1>0
  <2> QED BY <2>1, NextLabelIs
<1>4. \A o \in B : NextLabel(m, o) \in B BY <1>2, <1>3
<1> DEFINE H == {n \in 0 .. Len(m) : /\ upto[n] \subseteq B
                                     /\ \A b \in B : b <= d + n => b \in upto[n]}
<1>5. 0 \in H
  <2>1. \A b \in B : b <= d + 0 => b = d BY <1>0
  <2> QED BY <1>0, <1>1, <2>1
<1>6. ASSUME NEW n \in 1 .. Len(m), n - 1 \in H PROVE n \in H
  <2>1. /\ upto[n - 1] \subseteq B
        /\ \A b \in B : b <= d + (n - 1) => b \in upto[n - 1]
    BY <1>6
  <2>2. upto[n] = upto[n - 1] \cup {NextLabel(m, o) : o \in upto[n - 1]} BY <1>1
  <2>3. upto[n] \subseteq B BY <2>1, <2>2, <1>4
  <2>4. ASSUME NEW b \in B, b <= d + n PROVE b \in upto[n]
    <3>1. CASE b = d
      <4>1. d <= d + (n - 1) BY <1>0
      <4> QED BY <3>1, <4>1, <2>1, <2>2
    <3>2. CASE b # d
      <4> DEFINE L == {p \in B : p < b}
      <4>1. L \subseteq 0 .. e /\ L # {}
        <5>1. b \in d .. e /\ B \subseteq d .. e OBVIOUS
        <5>2. d < b BY <3>2, <5>1
        <5>3. d \in L BY <5>2
        <5>4. L \subseteq d .. e BY <5>1
        <5> QED BY <5>3, <5>4
      <4>2. PICK p \in L : \A q \in L : p >= q
        <5> HIDE DEF L
        <5> QED BY <4>1, Greatest
      <4>3. p \in B \ {e} /\ p < b BY <1>0
      <4>4. PICK v \in 1 .. 63 : /\ v = m[p + 1] /\ p + 1 + v \in B
                                 /\ b <= p \/ b >= p + 1 + v
        BY <4>3
      <4>41. p \in Nat /\ b \in Nat BY <1>0
      <4>5. ~ (p + 1 + v < b)
        <5>1. p + 1 + v \in L => p >= p + 1 + v BY <4>2
        <5> QED BY <5>1, <4>4, <4>41
      <4>50. b >= p + 1 + v
        <5>1. p < b /\ (b <= p \/ b >= p + 1 + v) BY <4>3, <4>4
        <5> QED BY ONLY <5>1, <4>41, v \in 1 .. 63
      <4>51. b = p + 1 + v BY ONLY <4>50, <4>41, <4>5, v \in 1 .. 63
      <4>6. b = NextLabel(m, p) BY <4>3, <4>4, <4>51, <1>3
      <4>7. p <= d + (n - 1) BY <4>3, <2>4, <1>0
      <4>8. p \in upto[n - 1] BY <4>7, <4>3, <2>1
      <4> QED BY <4>6, <4>8, <2>2
    <3> QED BY <3>1, <3>2
  <2>5. n \in 0 .. Len(m) OBVIOUS
  <2> QED BY <2>3, <2>4, <2>5
<1>7. Len(m) \in H
  <2> HIDE DEF H
  <2>1. \A n \in 0 .. Len(m) : n \in H BY <1>0, <1>5, <1>6, UpTo
  <2> QED BY <2>1, <1>0
<1>8. \A b \in B : b <= d + Len(m) BY <1>0
<1>9. upto[Len(m)] = B BY <1>7, <1>8
<1>10. MaxOf(B) = e
  <2>1. B \in SUBSET Int /\ \A y \in B : e >= y BY <1>0
  <2> QED BY <2>1, MaxOfEq
<1> QED BY <1>1, <1>9, <1>10

\* At an offset of a message there are the labels of a name up to one of its
\* marks, and behind them a 0 or a pointer.
Literal(m, d, t, cut) ==
  /\ d \in Nat /\ cut \in Nat /\ cut + 1 \in Marks(t) /\ d + cut < Len(m)
  /\ \A i \in 1 .. cut : m[d + i] = inetFormat(t)[i]
  /\ m[d + cut + 1] = 0 \/ m[d + cut + 1] >= 192

\* The offsets of its labels
MarksAt(d, t, cut) == {o \in d .. d + cut : o - d + 1 \in Marks(t)}

\* The length at such an offset is that of the label.
LEMMA LiteralByte ==
  ASSUME NEW m \in Seq(Nat), NEW d, NEW t, IsName(t), NEW cut,
         Literal(m, d, t, cut), NEW k \in Marks(t), k <= cut
  PROVE  /\ k \in Nat /\ k >= 1 /\ k <= Len(t) + 1 /\ d \in Nat /\ cut \in Nat
         /\ m[d + k] = LabelLen(t, k)
         /\ LabelLen(t, k) \in 1 .. 63
         /\ k + LabelLen(t, k) <= Len(t) + 1
         /\ k + LabelLen(t, k) <= cut
<1>1. Marks(t) \subseteq 1 .. Len(t) + 2 /\ Len(t) \in Nat BY NameEnds
<1>2. /\ d \in Nat /\ cut \in Nat /\ cut + 1 \in Marks(t)
      /\ \A i \in 1 .. cut : m[d + i] = inetFormat(t)[i]
  BY DEF Literal
<1>3. k \in Nat /\ k >= 1 /\ k <= Len(t) + 1 /\ k # Len(t) + 2 BY <1>1, <1>2
<1>4. LabelLen(t, k) \in 1 .. 63 /\ k + LabelLen(t, k) <= Len(t) + 1
  BY <1>3, LabelOf
<1>5. cut + 1 <= k \/ cut + 1 >= k + LabelLen(t, k) + 1 BY <1>2, <1>3, NextMark
<1>6. k + LabelLen(t, k) <= cut
  <2>1. PICK n \in 1 .. 63 : n = LabelLen(t, k) BY <1>4
  <2> QED BY <2>1, <1>2, <1>3, <1>5
<1>7. m[d + k] = LabelLen(t, k)
  <2>1. k \in 1 .. cut BY <1>2, <1>3
  <2>2. inetFormat(t)[k] = LabelLen(t, k) BY <1>3, FormIs
  <2> QED BY <2>1, <2>2, <1>2
<1> QED BY <1>2, <1>3, <1>4, <1>6, <1>7

\* The walk over such a name passes its marks and stops behind the last label.
LEMMA LiteralLabels ==
  ASSUME NEW m \in Seq(Nat), NEW d, NEW t, IsName(t), NEW cut, Literal(m, d, t, cut)
  PROVE  Labels(m, d) = MarksAt(d, t, cut) /\ MaxOf(Labels(m, d)) = d + cut
<1> DEFINE B == MarksAt(d, t, cut)
           e == d + cut
<1>1. /\ d \in Nat /\ cut \in Nat /\ cut + 1 \in Marks(t) /\ e < Len(m)
      /\ m[e + 1] = 0 \/ m[e + 1] >= 192
  BY DEF Literal
<1>2. 1 \in Marks(t) /\ Len(t) \in Nat /\ Marks(t) \subseteq 1 .. Len(t) + 2 BY NameEnds
<1>3. B \subseteq d .. e /\ d \in B /\ e \in B
  <2>1. d - d + 1 = 1 /\ d + cut - d + 1 = cut + 1 BY <1>1
  <2>2. d \in d .. d + cut /\ d + cut \in d .. d + cut BY <1>1
  <2> QED BY <2>1, <2>2, <1>1, <1>2 DEF MarksAt
<1>4. ASSUME NEW o \in B \ {e}
      PROVE  /\ m[o + 1] \in 1 .. 63
             /\ o + 1 + m[o + 1] \in B
             /\ \A p \in B : p <= o \/ p >= o + 1 + m[o + 1]
  <2>1. o \in d .. d + cut /\ o # d + cut /\ o - d + 1 \in Marks(t) BY <1>4 DEF MarksAt
  <2>2. PICK k \in Marks(t) : k = o - d + 1 BY <2>1
  <2>3. k <= cut /\ o + 1 = d + k /\ o \in Nat BY <2>1, <2>2, <1>1
  <2>31. /\ m[d + k] = LabelLen(t, k) /\ LabelLen(t, k) \in 1 .. 63
         /\ k + LabelLen(t, k) <= cut /\ k \in Nat
    <3>1. k <= cut BY <2>3
    <3>2. /\ m[d + k] = LabelLen(t, k) /\ LabelLen(t, k) \in 1 .. 63
          /\ k + LabelLen(t, k) <= cut /\ k \in Nat
      BY ONLY m \in Seq(Nat), IsName(t), Literal(m, d, t, cut), k \in Marks(t),
              <3>1, LiteralByte
    <3> QED BY <3>2
  <2>4. PICK n \in 1 .. 63 : n = LabelLen(t, k) /\ n = m[o + 1] /\ k + n <= cut
    BY <2>3, <2>31
  <2>5. k # Len(t) + 2
    <3>1. cut + 1 <= Len(t) + 2 BY <1>1, <1>2
    <3>2. k \in Int BY <1>2
    <3> QED BY <3>1, <3>2, <2>3, <1>1, <1>2
  <2>6. k + n + 1 \in Marks(t) /\ \A j \in Marks(t) : j <= k \/ j >= k + n + 1
    BY <2>4, <2>5, NextMark
  <2>7. o + 1 + n \in B
    <3>1. o + 1 + n \in d .. d + cut /\ o + 1 + n - d + 1 = k + n + 1
      <4>1. d \in Nat /\ cut \in Nat /\ o \in d .. d + cut /\ k = o - d + 1 /\ k + n <= cut
        BY <1>1, <2>1, <2>2, <2>4
      <4> QED BY ONLY <4>1, n \in 1 .. 63
    <3>2. \A x : x \in d .. d + cut /\ x - d + 1 \in Marks(t) => x \in B BY DEF MarksAt
    <3>3. PICK x \in d .. d + cut : x = o + 1 + n /\ x - d + 1 = k + n + 1
      <4>1. d \in Nat /\ o \in Nat /\ k \in Nat BY <1>1, <2>3, <2>31
      <4> QED BY ONLY <3>1, <4>1, n \in 1 .. 63
    <3>4. PICK y \in Marks(t) : y = k + n + 1 BY <2>6
    <3>5. x - d + 1 \in Marks(t) BY ONLY <3>3, <3>4, y \in Marks(t)
    <3>6. x \in B BY ONLY <3>5, <3>2, x \in d .. d + cut
    <3> QED BY ONLY <3>6, <3>3
  <2>8. ASSUME NEW p \in B PROVE p <= o \/ p >= o + 1 + n
    <3>1. p \in d .. d + cut /\ p - d + 1 \in Marks(t) BY DEF MarksAt
    <3>2. p - d + 1 <= k \/ p - d + 1 >= k + n + 1 BY <3>1, <2>6
    <3>3. p \in Nat /\ d \in Nat BY <3>1, <1>1
    <3> QED BY <3>3, <3>2, <2>2, <2>3
  <2> QED BY <2>4, <2>7, <2>8
<1>5. d \in Nat /\ e \in Nat BY <1>1
<1> HIDE DEF B, e
<1>6. Labels(m, d) = B /\ MaxOf(B) = e
  BY ONLY m \in Seq(Nat), <1>1, <1>3, <1>4, <1>5, Walk
<1> QED BY <1>6 DEF B, e

\* A name that goes through the wire form comes back.
THEOREM RoundTrip ==
  ASSUME NEW t, IsName(t)
  PROVE  inetParse(inetFormat(t)) = t
<1> DEFINE w == inetFormat(t)
           cut == Len(t) + 1
<1>1. /\ t \in Seq(Int) /\ Len(t) \in Nat /\ 1 \in Marks(t) /\ Len(t) + 2 \in Marks(t)
      /\ t \in Seq(1 .. 191)
  BY NameSeq, NameEnds
<1>2. /\ w \in Seq(0 .. 191) /\ Len(w) = Len(t) + 2 /\ w[Len(t) + 2] = 0
      /\ \A k \in 1 .. Len(t) + 1 : k \notin Marks(t) => w[k] = t[k - 1]
  BY FormIs
<1>3. w \in Seq(Nat)
  <2> DEFINE S == 0 .. 191
  <2>1. w \in Seq(S) /\ S \subseteq Nat BY <1>2
  <2> HIDE DEF S, w
  <2> QED BY ONLY <2>1, SeqMonotonic
<1>4. Literal(w, 0, t, cut)
  <2>1. cut \in Nat /\ cut + 1 = Len(t) + 2 /\ 0 + cut < Len(w) BY <1>1, <1>2
  <2>2. \A i \in 1 .. cut : w[0 + i] = inetFormat(t)[i] OBVIOUS
  <2> HIDE DEF w, cut
  <2> QED BY <2>1, <2>2, <1>1, <1>2 DEF Literal
<1> HIDE DEF w
<1>5. Labels(w, 0) = MarksAt(0, t, cut) /\ MaxOf(Labels(w, 0)) = 0 + cut
  BY ONLY IsName(t), <1>3, <1>4, LiteralLabels
<1>6. MaxOf(Labels(w, 0)) - 1 = Len(t) BY <1>5, <1>1
<1>7. ASSUME NEW k \in 1 .. Len(t)
      PROVE  (IF k \in Labels(w, 0) THEN DOT ELSE w[k + 1]) = t[k]
  <2>1. k \in 0 .. 0 + cut /\ k - 0 + 1 = k + 1 /\ k + 1 \in 1 .. Len(t) + 1
        /\ k + 1 - 1 = k /\ k + 1 # 1 /\ k + 1 # Len(t) + 2
    BY <1>1
  <2>2. k \in Labels(w, 0) <=> k + 1 \in Marks(t) BY <2>1, <1>5 DEF MarksAt
  <2>3. k + 1 \in Marks(t) <=> t[k] = DOT BY <2>1 DEF Marks
  <2> QED BY <2>1, <2>2, <2>3, <1>2
<1>8. inetParse(w) = [k \in 1 .. Len(t) |-> IF k \in Labels(w, 0) THEN DOT ELSE w[k + 1]]
  BY <1>6 DEF inetParse
<1>9. [k \in 1 .. Len(t) |-> IF k \in Labels(w, 0) THEN DOT ELSE w[k + 1]]
        = [k \in 1 .. Len(t) |-> t[k]]
  BY <1>7
<1>10. t = [k \in 1 .. Len(t) |-> t[k]]
  <2>1. t \in [1 .. Len(t) -> Int] BY <1>1, LenProperties
  <2> QED BY <2>1
<1> QED BY <1>8, <1>9, <1>10 DEF w

\* The rest of a name, from one of its marks on.
Rest(t, k) == SubSeq(t, k, Len(t))

\* From a mark on, a name is a name.
LEMMA RestIs ==
  ASSUME NEW t, IsName(t), NEW k \in Marks(t), k # Len(t) + 2
  PROVE  /\ IsName(Rest(t, k)) /\ Len(Rest(t, k)) = Len(t) + 1 - k
         /\ \A i \in 1 .. Len(Rest(t, k)) : Rest(t, k)[i] = t[k + i - 1]
         /\ \A i \in 1 .. Len(Rest(t, k)) + 2 :
              i \in Marks(Rest(t, k)) <=> k + i - 1 \in Marks(t)
         /\ \A i \in 1 .. Len(Rest(t, k)) + 1 :
              LabelLen(Rest(t, k), i) = LabelLen(t, k + i - 1)
<1> DEFINE s == Rest(t, k)
<1>0. s = SubSeq(t, k, Len(t)) BY DEF Rest
<1> HIDE DEF s
<1>1. /\ t \in Seq(1 .. 191) /\ t \in Seq(Int) /\ Len(t) \in Nat
      /\ k \in 1 .. Len(t) + 1
  BY NameSeq, LabelOf
<1>2. /\ s \in Seq(1 .. 191) /\ Len(s) = Len(t) + 1 - k
      /\ \A i \in 1 .. Len(s) : s[i] = t[k + i - 1]
  <2> DEFINE S == 1 .. 191
             n == Len(t)
  <2>1. t \in Seq(S) /\ k \in Int /\ k >= 1 /\ n \in Int /\ k <= n + 1 /\ n <= Len(t)
    BY <1>1
  <2> HIDE DEF S, n
  <2>2. /\ SubSeq(t, k, n) \in Seq(S)
        /\ Len(SubSeq(t, k, n)) = n - k + 1
        /\ \A i \in 1 .. n - k + 1 : SubSeq(t, k, n)[i] = t[k + i - 1]
    BY ONLY <2>1, Part
  <2>3. /\ s \in Seq(S) /\ Len(s) = n - k + 1
        /\ \A i \in 1 .. n - k + 1 : s[i] = t[k + i - 1]
    BY <2>2, <1>0 DEF n
  <2>4. n - k + 1 = n + 1 - k BY <2>1
  <2> QED BY <2>3, <2>4 DEF S, n
<1>21. s \in Seq(Int)
  <2> DEFINE S == 1 .. 191
  <2>1. s \in Seq(S) /\ S \subseteq Int BY <1>2
  <2> HIDE DEF S
  <2> QED BY ONLY <2>1, SeqMonotonic
<1>22. k \in Nat /\ k >= 1 /\ Len(s) \in Nat /\ Len(t) \in Nat /\ Len(s) = Len(t) + 1 - k
  BY <1>1, <1>2
<1>3. ASSUME NEW i \in 1 .. Len(s) + 1
      PROVE  LabelLen(s, i) = LabelLen(t, k + i - 1)
  <2>1. PICK j \in 1 .. Len(t) + 1 : j = k + i - 1 BY <1>1, <1>2
  <2>2. /\ LabelLen(t, j) \in 0 .. Len(t) + 1 - j
        /\ j + LabelLen(t, j) = Len(t) + 1 \/ t[j + LabelLen(t, j)] = DOT
        /\ \A l \in j .. j + LabelLen(t, j) - 1 : t[l] # DOT
    BY <1>1, LabelLenIs
  <2>3. PICK n \in 0 .. Len(s) + 1 - i : n = LabelLen(t, j)
    BY <2>1, <2>2, <1>1, <1>2
  <2>4. i + n = Len(s) + 1 \/ s[i + n] = DOT
    <3>1. CASE i + n = Len(s) + 1 BY <3>1
    <3>2. CASE i + n # Len(s) + 1
      <4>1. i + n \in 1 .. Len(s) /\ k + (i + n) - 1 = j + n
        BY ONLY <1>22, <2>1, <3>2, i \in 1 .. Len(s) + 1, n \in 0 .. Len(s) + 1 - i
      <4>2. j + n # Len(t) + 1 BY <4>1, <3>2, <1>1, <1>2
      <4>3. s[i + n] = t[k + (i + n) - 1] BY <4>1, <1>2
      <4> QED BY <4>1, <4>2, <4>3, <2>2, <2>3
    <3> QED BY <3>1, <3>2
  <2>5. \A l \in i .. i + n - 1 : s[l] # DOT
    <3> SUFFICES ASSUME NEW l \in i .. i + n - 1 PROVE s[l] # DOT OBVIOUS
    <3>1. l \in 1 .. Len(s) /\ k + l - 1 \in j .. j + n - 1
      BY ONLY <1>22, <2>1, <2>3, i \in 1 .. Len(s) + 1,
              n \in 0 .. Len(s) + 1 - i, l \in i .. i + n - 1
    <3> QED BY <3>1, <1>2, <2>2, <2>3
  <2>6. LabelLen(s, i) = n BY ONLY <1>21, i \in 1 .. Len(s) + 1, n \in 0 .. Len(s) + 1 - i, <2>4, <2>5, LabelLenEq
  <2> QED BY <2>6, <2>1, <2>3
<1>4. ASSUME NEW i \in 1 .. Len(s) + 1
      PROVE  (i = 1 \/ s[i - 1] = DOT) <=> (k + i - 1 = 1 \/ t[k + i - 1 - 1] = DOT)
  <2>1. CASE i = 1
    <3>1. k + i - 1 = k BY <2>1, <1>1
    <3> QED BY <3>1, <2>1, <1>1 DEF Marks
  <2>2. CASE i # 1
    <3>1. i - 1 \in 1 .. Len(s) /\ k + (i - 1) - 1 = k + i - 1 - 1 /\ k + i - 1 # 1
      BY <2>2, <1>1, <1>2
    <3>2. s[i - 1] = t[k + (i - 1) - 1] BY <3>1, <1>2
    <3> QED BY <3>1, <3>2, <2>2
  <2> QED BY <2>1, <2>2
<1>5. ASSUME NEW i \in 1 .. Len(s) + 2
      PROVE  i \in Marks(s) <=> k + i - 1 \in Marks(t)
  <2>1. CASE i = Len(s) + 2
    <3>1. k + i - 1 = Len(t) + 2 BY <2>1, <1>1, <1>2
    <3> QED BY <3>1, <2>1 DEF Marks
  <2>2. CASE i # Len(s) + 2
    <3>1. /\ i \in 1 .. Len(s) + 1 /\ k + i - 1 \in 1 .. Len(t) + 1
          /\ k + i - 1 # Len(t) + 2
      BY <2>2, <1>1, <1>2
    <3> QED BY <3>1, <2>2, <1>4 DEF Marks
  <2> QED BY <2>1, <2>2
<1>6. ASSUME NEW i \in 1 .. Len(s) + 1, i = 1 \/ s[i - 1] = DOT
      PROVE  LabelLen(s, i) \in 1 .. 63
  <2>1. PICK j \in 1 .. Len(t) + 1 : j = k + i - 1 BY <1>22
  <2>2. j = 1 \/ t[j - 1] = DOT BY <2>1, <1>6, <1>4, <1>22
  <2>3. LabelLen(t, j) \in 1 .. 63 BY <2>2 DEF IsName
  <2> QED BY <2>1, <2>3, <1>3
<1>7. IsName(s) BY <1>2, <1>6 DEF IsName
<1> QED BY <1>2, <1>3, <1>5, <1>7 DEF s
----------------------------------------------------------------------------
(* What a reader of the message finds at an offset *)

\* A part of a part.
LEMMA PartOfPart ==
  ASSUME NEW S, NEW t \in Seq(S), NEW k \in Int, k >= 1, NEW f \in Int, k <= f + 1,
         f <= Len(t), NEW i \in Int, i >= 1, NEW e \in Int, i <= e + 1, e <= f - k + 1
  PROVE  SubSeq(SubSeq(t, k, f), i, e) = SubSeq(t, k + i - 1, k + e - 1)
<1> DEFINE s == SubSeq(t, k, f)
           j == k + i - 1
           g == k + e - 1
<1>1. /\ s \in Seq(S) /\ Len(s) = f - k + 1
      /\ \A l \in 1 .. f - k + 1 : s[l] = t[k + l - 1]
  BY Part
<1> HIDE DEF s
<1>2. e <= Len(s) BY <1>1
<1>3. j \in Int /\ j >= 1 /\ g \in Int /\ j <= g + 1 /\ g <= Len(t) OBVIOUS
<1> DEFINE x == SubSeq(s, i, e)
           y == SubSeq(t, j, g)
<1>4. /\ x \in Seq(S) /\ Len(x) = e - i + 1
      /\ \A l \in 1 .. e - i + 1 : x[l] = s[i + l - 1]
  BY <1>1, <1>2, Part
<1> HIDE DEF j, g
<1>5. /\ y \in Seq(S) /\ Len(y) = g - j + 1
      /\ \A l \in 1 .. g - j + 1 : y[l] = t[j + l - 1]
  BY <1>3, Part
<1>6. g - j + 1 = e - i + 1 BY DEF g, j
<1>7. ASSUME NEW l \in 1 .. e - i + 1 PROVE s[i + l - 1] = t[j + l - 1]
  <2>1. PICK p \in 1 .. f - k + 1 : p = i + l - 1 OBVIOUS
  <2>2. k + p - 1 = j + l - 1 BY <2>1 DEF j
  <2> QED BY <2>1, <2>2, <1>1
<1> HIDE DEF x, y
<1>8. Len(x) = Len(y) /\ \A l \in 1 .. Len(x) : x[l] = y[l]
  BY <1>4, <1>5, <1>6, <1>7
<1>9. x = y BY ONLY <1>4, <1>5, <1>8, SeqEqual
<1> QED BY <1>9 DEF x, y, s, j, g

\* The rest of the rest, behind its first label.
LEMMA RestRest ==
  ASSUME NEW t, IsName(t), NEW k \in Marks(t), k # Len(t) + 2
  PROVE  Rest(Rest(t, k), LabelLen(t, k) + 2) = Rest(t, k + LabelLen(t, k) + 1)
<1> DEFINE n == LabelLen(t, k)
           s == Rest(t, k)
           f == Len(t)
           i == n + 2
           e == Len(s)
<1>1. /\ t \in Seq(Int) /\ f \in Nat /\ k \in Nat /\ k >= 1 /\ k <= f + 1
      /\ n \in 1 .. 63 /\ k + n <= f + 1 /\ f <= Len(t)
  BY LabelOf
<1>2. e = f - k + 1
  <2> HIDE DEF f, n
  <2>1. Len(SubSeq(t, k, f)) = f - k + 1 BY <1>1, Part
  <2> QED BY <2>1 DEF Rest, f
<1> HIDE DEF n, f, e
<1>21. f \in Nat /\ k \in Nat /\ k >= 1 /\ k <= f + 1 /\ n \in 1 .. 63 /\ k + n <= f + 1
  BY <1>1
<1>22. i = n + 2 OBVIOUS
<1>23. k + i - 1 = k + n + 1 /\ k + e - 1 = f
  <2> HIDE DEF i
  <2> QED BY ONLY <1>21, <1>22, <1>2
<1> HIDE DEF i
<1>3. CASE k + n = f + 1
  <2>1. e \in Int /\ i \in Int /\ e < i BY ONLY <1>21, <1>22, <1>2, <1>3
  <2>2. k + n + 1 \in Int /\ f \in Int /\ f < k + n + 1 BY ONLY <1>21, <1>3
  <2>3. SubSeq(s, i, e) = <<>> BY ONLY <2>1, SubSeqEmpty
  <2>4. SubSeq(t, k + n + 1, f) = <<>> BY ONLY <2>2, SubSeqEmpty
  <2> HIDE DEF s
  <2>5. SubSeq(s, i, e) = SubSeq(t, k + n + 1, f) BY <2>3, <2>4
  <2> QED BY <2>5 DEF Rest, n, f, i, e, s
<1>4. CASE k + n # f + 1
  <2>1. /\ k \in Int /\ f \in Int /\ i \in Int /\ i >= 1 /\ e \in Int /\ i <= e + 1
        /\ k <= f + 1 /\ e <= f - k + 1
    BY ONLY <1>21, <1>22, <1>2, <1>4
  <2>2. SubSeq(SubSeq(t, k, f), i, e) = SubSeq(t, k + i - 1, k + e - 1)
    BY ONLY <1>1, <2>1, PartOfPart
  <2>3. SubSeq(SubSeq(t, k, f), i, e) = SubSeq(t, k + n + 1, f) BY <2>2, <1>23
  <2> QED BY <2>3 DEF Rest, n, f, i, e
<1> QED BY <1>3, <1>4

\* Where the pointer at an offset leads
Leads(m, o) == (256 * m[o + 1] + m[o + 2]) % OffsetMod

\* The name s starts at offset o of a message: with its end, with its first label
\* and then the rest of it, or with a pointer to it, behind which the next owner's
\* pointer comes.  What comes next is in G and has a lower rank.
Follows(m, b, G, o, s, r) ==
  \/ m[o + 1] = 0 /\ s = <<>>
  \/ /\ IsName(s) /\ m[o + 1] = LabelLen(s, 1)
     /\ \A i \in 1 .. LabelLen(s, 1) : m[o + 1 + i] = s[i]
     /\ \E q \in 0 .. r - 1 :
          <<o + 1 + LabelLen(s, 1), Rest(s, LabelLen(s, 1) + 2), q>> \in G
  \/ /\ m[o + 1] >= 192 /\ o + 2 <= b /\ (o + 2 = b \/ m[o + 3] >= 192)
     /\ \E q \in 0 .. r - 1 : <<Leads(m, o), s, q>> \in G

\* G holds offsets, names and ranks, and with each of them what it leads to.  It
\* is about the first b bytes of the message.
Closed(m, b, G) ==
  \A o, s, r : <<o, s, r>> \in G =>
    o \in 0 .. b - 1 /\ r \in 0 .. b - 1 /\ Follows(m, b, G, o, s, r)

\* A name can be read at an offset within b bytes.
Spells(m, b, o, s, r) == \E G : Closed(m, b, G) /\ <<o, s, r>> \in G

\* The bytes are the same as far as the other message goes.
Extends(m2, m, b) == \A i \in 1 .. b : m2[i] = m[i]

\* More bytes behind a message do not change what its bytes lead to.
LEMMA FollowsGrow ==
  ASSUME NEW m, NEW b \in Nat, NEW m2, NEW b2 \in Nat, b <= b2, Extends(m2, m, b),
         b2 = b \/ m2[b + 1] >= 192,
         NEW G, Closed(m, b, G), NEW o, NEW s, NEW r, <<o, s, r>> \in G
  PROVE  Follows(m2, b2, G, o, s, r)
<1>1. o \in 0 .. b - 1 /\ r \in 0 .. b - 1 /\ Follows(m, b, G, o, s, r) BY DEF Closed
<1>2. m2[o + 1] = m[o + 1] BY <1>1 DEF Extends
<1>3. CASE m[o + 1] = 0 /\ s = <<>> BY <1>2, <1>3 DEF Follows
<1>4. CASE /\ IsName(s) /\ m[o + 1] = LabelLen(s, 1)
           /\ \A i \in 1 .. LabelLen(s, 1) : m[o + 1 + i] = s[i]
           /\ \E q \in 0 .. r - 1 :
                <<o + 1 + LabelLen(s, 1), Rest(s, LabelLen(s, 1) + 2), q>> \in G
  <2> DEFINE n == LabelLen(s, 1)
  <2>1. o + 1 + n \in 0 .. b - 1 BY <1>4 DEF Closed
  <2>2. n \in Int
    <3>1. 1 \in Marks(s) /\ Len(s) \in Nat BY <1>4, NameEnds
    <3>2. 1 # Len(s) + 2 BY <3>1
    <3>3. n \in 1 .. 63 BY <1>4, <3>1, <3>2, LabelOf
    <3> QED BY <3>3
  <2>3. ASSUME NEW i \in 1 .. n PROVE m2[o + 1 + i] = s[i]
    <3> HIDE DEF n
    <3>1. o + 1 + i \in 1 .. b BY ONLY <2>1, <2>2, i \in 1 .. n, <1>1, b \in Nat
    <3>2. m2[o + 1 + i] = m[o + 1 + i] BY <3>1 DEF Extends
    <3> QED BY <3>2, <1>4 DEF n
  <2> QED BY <1>2, <1>4, <2>3 DEF Follows
<1>5. CASE /\ m[o + 1] >= 192 /\ o + 2 <= b /\ (o + 2 = b \/ m[o + 3] >= 192)
           /\ \E q \in 0 .. r - 1 : <<Leads(m, o), s, q>> \in G
  <2>1. m2[o + 2] = m[o + 2] BY <1>1, <1>5 DEF Extends
  <2>2. Leads(m2, o) = Leads(m, o) BY <1>2, <2>1 DEF Leads
  <2>3. o + 2 <= b2 BY <1>1, <1>5
  <2>4. o + 2 = b2 \/ m2[o + 3] >= 192
    <3>1. CASE o + 2 = b
      <4>1. o + 3 = b + 1 BY <1>1, <3>1
      <4> QED BY <4>1, <3>1
    <3>2. CASE o + 2 # b
      <4>1. o + 3 \in 1 .. b BY <1>1, <1>5, <3>2
      <4>2. m2[o + 3] = m[o + 3] BY <4>1 DEF Extends
      <4> QED BY <4>2, <1>5, <3>2
    <3> QED BY <3>1, <3>2
  <2> QED BY <1>2, <1>5, <2>2, <2>3, <2>4 DEF Follows
<1> QED BY <1>1, <1>3, <1>4, <1>5 DEF Follows

\* A name that can be read in a message can be read in a longer one.
LEMMA SpellsGrow ==
  ASSUME NEW m, NEW b \in Nat, NEW m2, NEW b2 \in Nat, b <= b2, Extends(m2, m, b),
         b2 = b \/ m2[b + 1] >= 192,
         NEW o, NEW s, NEW r, Spells(m, b, o, s, r)
  PROVE  Spells(m2, b2, o, s, r)
<1>1. PICK G : Closed(m, b, G) /\ <<o, s, r>> \in G BY DEF Spells
<1>2. ASSUME NEW p, NEW t, NEW q, <<p, t, q>> \in G
      PROVE  p \in 0 .. b2 - 1 /\ q \in 0 .. b2 - 1 /\ Follows(m2, b2, G, p, t, q)
  <2>1. Follows(m2, b2, G, p, t, q) BY <1>1, <1>2, FollowsGrow
  <2>2. p \in 0 .. b - 1 /\ q \in 0 .. b - 1 BY <1>1, <1>2 DEF Closed
  <2> QED BY <2>1, <2>2
<1>3. Closed(m2, b2, G) BY <1>2 DEF Closed
<1> QED BY <1>1, <1>3 DEF Spells

\* What a name that can be read starts with.
LEMMA SpellsStep ==
  ASSUME NEW m, NEW b, NEW o, NEW s, NEW r, Spells(m, b, o, s, r)
  PROVE  /\ o \in 0 .. b - 1 /\ r \in 0 .. b - 1
         /\ \/ m[o + 1] = 0 /\ s = <<>>
            \/ /\ IsName(s) /\ m[o + 1] = LabelLen(s, 1)
               /\ \A i \in 1 .. LabelLen(s, 1) : m[o + 1 + i] = s[i]
               /\ \E q : Spells(m, b, o + 1 + LabelLen(s, 1),
                                Rest(s, LabelLen(s, 1) + 2), q)
            \/ /\ m[o + 1] >= 192 /\ o + 2 <= b /\ (o + 2 = b \/ m[o + 3] >= 192)
               /\ \E q : Spells(m, b, Leads(m, o), s, q)
<1>1. PICK G : Closed(m, b, G) /\ <<o, s, r>> \in G BY DEF Spells
<1>2. o \in 0 .. b - 1 /\ r \in 0 .. b - 1 /\ Follows(m, b, G, o, s, r)
  BY <1>1 DEF Closed
<1>3. \A p, t, q : <<p, t, q>> \in G => Spells(m, b, p, t, q) BY <1>1 DEF Spells
<1> QED BY <1>2, <1>3 DEF Follows

\* More in G does no harm.
LEMMA FollowsMore ==
  ASSUME NEW m, NEW b, NEW G, NEW G2, G \subseteq G2, NEW o, NEW s, NEW r,
         Follows(m, b, G, o, s, r)
  PROVE  Follows(m, b, G2, o, s, r)
BY DEF Follows

\* The end of a name.
LEMMA SpellsEnd ==
  ASSUME NEW m, NEW b \in Nat, NEW o \in 0 .. b - 1, m[o + 1] = 0
  PROVE  Spells(m, b, o, <<>>, 0)
<1> DEFINE G == {<<o, <<>>, 0>>}
<1>1. Follows(m, b, G, o, <<>>, 0) BY DEF Follows
<1>2. 0 \in 0 .. b - 1 OBVIOUS
<1>3. Closed(m, b, G)
  <2> SUFFICES ASSUME NEW p, NEW t, NEW q, <<p, t, q>> \in G
               PROVE  p \in 0 .. b - 1 /\ q \in 0 .. b - 1 /\ Follows(m, b, G, p, t, q)
    BY DEF Closed
  <2>1. p = o /\ t = <<>> /\ q = 0 OBVIOUS
  <2> HIDE DEF G
  <2> QED BY <2>1, <1>1, <1>2
<1> QED BY <1>3 DEF Spells

\* A pointer to a name, the last of the bytes.
LEMMA SpellsPointer ==
  ASSUME NEW m, NEW b \in Nat, NEW o \in 0 .. b - 1, NEW s, NEW r \in 0 .. b - 2,
         m[o + 1] >= 192, o + 2 = b,
         Spells(m, b, Leads(m, o), s, r)
  PROVE  Spells(m, b, o, s, r + 1)
<1>1. PICK G : Closed(m, b, G) /\ <<Leads(m, o), s, r>> \in G BY DEF Spells
<1> DEFINE G2 == G \cup {<<o, s, r + 1>>}
<1>2. Follows(m, b, G2, o, s, r + 1)
  <2>1. <<Leads(m, o), s, r>> \in G2 BY <1>1
  <2>2. r \in 0 .. r + 1 - 1 OBVIOUS
  <2>3. o + 2 <= b /\ o + 2 = b OBVIOUS
  <2> HIDE DEF G2
  <2> QED BY <2>1, <2>2, <2>3 DEF Follows
<1>3. Closed(m, b, G2)
  <2> SUFFICES ASSUME NEW p, NEW t, NEW q, <<p, t, q>> \in G2
               PROVE  p \in 0 .. b - 1 /\ q \in 0 .. b - 1 /\ Follows(m, b, G2, p, t, q)
    BY DEF Closed
  <2>1. CASE <<p, t, q>> \in G
    <3>1. p \in 0 .. b - 1 /\ q \in 0 .. b - 1 /\ Follows(m, b, G, p, t, q)
      BY <1>1, <2>1 DEF Closed
    <3>2. G \subseteq G2 OBVIOUS
    <3> HIDE DEF G2
    <3> QED BY <3>1, <3>2, FollowsMore
  <2>2. CASE <<p, t, q>> \notin G
    <3>1. p = o /\ t = s /\ q = r + 1 BY <2>2
    <3>2. r + 1 \in 0 .. b - 1 OBVIOUS
    <3> HIDE DEF G2
    <3> QED BY <3>1, <3>2, <1>2
  <2> QED BY <2>1, <2>2
<1> QED BY <1>3 DEF Spells

\* The labels of a name, and behind them the rest of it, to be read at some rank.
LEMMA LabelFollows ==
  ASSUME NEW m \in Seq(Nat), NEW b, NEW d, NEW t, IsName(t), NEW cut,
         Literal(m, d, t, cut), NEW G, NEW r \in Nat, NEW j \in Marks(t), j <= cut,
         NEW q \in 0 .. r - 1,
         <<d + (j + LabelLen(t, j)), Rest(t, j + LabelLen(t, j) + 1), q>> \in G
  PROVE  Follows(m, b, G, d + j - 1, Rest(t, j), r)
<1> DEFINE n == LabelLen(t, j)
           s == Rest(t, j)
<1>1. /\ j \in Nat /\ j >= 1 /\ j <= Len(t) + 1 /\ d \in Nat /\ cut \in Nat
      /\ m[d + j] = n /\ n \in 1 .. 63 /\ j + n <= Len(t) + 1 /\ j + n <= cut
  BY ONLY m \in Seq(Nat), IsName(t), Literal(m, d, t, cut), j \in Marks(t), j <= cut,
          LiteralByte
<1>2. Len(t) \in Nat /\ j # Len(t) + 2
  <2>1. Len(t) \in Nat BY NameSeq
  <2> QED BY <2>1, <1>1
<1>3. /\ IsName(s) /\ Len(s) = Len(t) + 1 - j
      /\ \A i \in 1 .. Len(s) : s[i] = t[j + i - 1]
      /\ \A i \in 1 .. Len(s) + 1 : LabelLen(s, i) = LabelLen(t, j + i - 1)
  BY <1>2, RestIs
<1>4. LabelLen(s, 1) = n
  <2>1. 1 \in 1 .. Len(s) + 1 /\ j + 1 - 1 = j BY <1>1, <1>2, <1>3
  <2> QED BY <2>1, <1>3
<1>5. Rest(s, n + 2) = Rest(t, j + n + 1) BY <1>2, RestRest
<1>6. \A l \in Marks(t) : l <= j \/ l >= j + n + 1 BY <1>2, NextMark
<1>7. /\ \A i \in 1 .. cut : m[d + i] = inetFormat(t)[i]
      /\ \A l \in 1 .. Len(t) + 1 : l \notin Marks(t) => inetFormat(t)[l] = t[l - 1]
  BY FormIs DEF Literal
<1> HIDE DEF n, s
<1>8. /\ j \in Nat /\ j >= 1 /\ d \in Nat /\ n \in 1 .. 63 /\ cut \in Nat
      /\ j + n <= cut /\ j + n <= Len(t) + 1 /\ Len(t) \in Nat
  BY <1>1, <1>2
<1>9. d + j - 1 + 1 = d + j /\ d + j - 1 + 1 + n = d + (j + n) BY ONLY <1>8
<1>10. ASSUME NEW i \in 1 .. n PROVE m[d + j - 1 + 1 + i] = s[i]
  <2>1. PICK l \in 1 .. cut : l = j + i /\ l \in 1 .. Len(t) + 1 /\ l > j /\ l < j + n + 1
                              /\ d + j - 1 + 1 + i = d + l /\ l - 1 = j + i - 1
    BY ONLY <1>8, i \in 1 .. n
  <2>2. l \notin Marks(t)
    <3>1. ~ (l <= j) /\ ~ (l >= j + n + 1) BY ONLY <2>1, <1>8, l \in 1 .. cut
    <3> QED BY <3>1, <1>6
  <2>3. m[d + l] = t[l - 1] BY <2>1, <2>2, <1>7
  <2>4. i \in 1 .. Len(s)
    <3>1. Len(s) = Len(t) + 1 - j BY <1>3
    <3> QED BY ONLY <3>1, <1>8, i \in 1 .. n
  <2>5. s[i] = t[j + i - 1] BY <2>4, <1>3
  <2> QED BY <2>1, <2>3, <2>5
<1>11. m[d + j - 1 + 1] = LabelLen(s, 1) BY <1>9, <1>1, <1>4
<1>12. <<d + j - 1 + 1 + LabelLen(s, 1), Rest(s, LabelLen(s, 1) + 2), q>> \in G
  BY <1>9, <1>4, <1>5 DEF n
<1>13. \A i \in 1 .. LabelLen(s, 1) : m[d + j - 1 + 1 + i] = s[i] BY <1>10, <1>4
<1>14. IsName(s) BY <1>3
<1>15. Follows(m, b, G, d + j - 1, s, r)
  BY ONLY <1>11, <1>12, <1>13, <1>14, q \in 0 .. r - 1 DEF Follows
<1> QED BY <1>15 DEF s

\* There is a name to be read at an offset.
Readable(m, b, o, s) == \E r : Spells(m, b, o, s, r)

\* Labels, with the rest behind them, can be read from each mark on.
LEMMA SpellsName ==
  ASSUME NEW m \in Seq(Nat), NEW b \in Nat, NEW d, NEW t, IsName(t), NEW cut,
         Literal(m, d, t, cut), NEW r \in Nat, r + cut < b,
         Spells(m, b, d + cut, Rest(t, cut + 1), r),
         NEW k \in Marks(t), k <= cut + 1
  PROVE  /\ Spells(m, b, d + k - 1, Rest(t, k), r + cut + 1 - k)
         /\ Readable(m, b, d + k - 1, Rest(t, k))
<1>1. PICK G : Closed(m, b, G) /\ <<d + cut, Rest(t, cut + 1), r>> \in G
  BY DEF Spells
<1>2. /\ Len(t) \in Nat /\ Marks(t) \subseteq 1 .. Len(t) + 2
      /\ cut \in Nat /\ d \in Nat /\ cut + 1 \in Marks(t)
      /\ k \in Nat /\ k >= 1
  BY NameEnds DEF Literal
<1>3. d + cut \in 0 .. b - 1 BY <1>1 DEF Closed
<1> DEFINE J == {j \in Marks(t) : j <= cut}
           New(j) == <<d + j - 1, Rest(t, j), r + cut + 1 - j>>
           G2 == G \cup {New(j) : j \in J}
<1>4. ASSUME NEW j \in J
      PROVE  /\ d + j - 1 \in 0 .. b - 1 /\ r + cut + 1 - j \in 0 .. b - 1
             /\ Follows(m, b, G2, d + j - 1, Rest(t, j), r + cut + 1 - j)
  <2>1. j \in Marks(t) /\ j <= cut /\ j \in Nat /\ j >= 1 BY <1>2
  <2>2. PICK n \in 1 .. 63 : n = LabelLen(t, j) /\ j + n <= cut
    <3>1. LabelLen(t, j) \in 1 .. 63 /\ j + LabelLen(t, j) <= cut
      BY ONLY m \in Seq(Nat), IsName(t), Literal(m, d, t, cut), <2>1, LiteralByte
    <3> QED BY <3>1
  <2>21. j + n <= cut /\ j \in Nat /\ n \in Nat /\ cut \in Nat
    <3>1. j + n <= cut BY <2>2
    <3> QED BY <3>1, <2>1, <1>2
  <2>3. PICK p \in Nat : p = r + cut + 1 - j BY <2>1, <1>2
  <2>4. d + j - 1 \in 0 .. b - 1 /\ p \in 0 .. b - 1 /\ n \in Nat
    BY <2>1, <2>3, <1>2, <1>3
  <2>5. \E q \in 0 .. p - 1 : <<d + (j + n), Rest(t, j + n + 1), q>> \in G2
    <3>1. CASE j + n = cut
      <4>1. r \in 0 .. p - 1 BY <2>1, <2>3, <3>1, <1>2
      <4>2. <<d + (j + n), Rest(t, j + n + 1), r>> \in G2 BY <3>1, <1>1
      <4> QED BY <4>1, <4>2
    <3>2. CASE j + n # cut
      <4>1. j + n + 1 \in Marks(t)
        <5>1. j # Len(t) + 2 /\ j + LabelLen(t, j) + 1 = j + n + 1
          <6>1. cut + 1 <= Len(t) + 2 BY <1>2
          <6>2. j # Len(t) + 2 BY <6>1, <2>1, <1>2
          <6> QED BY <6>2, <2>2
        <5>2. j + LabelLen(t, j) + 1 \in Marks(t) BY <5>1, <2>1, NextMark
        <5> QED BY <5>1, <5>2
      <4>2. PICK l \in J : l = j + n + 1
        <5>1. j + n + 1 <= cut BY ONLY <2>21, <3>2
        <5> QED BY <5>1, <4>1
      <4>3. New(l) \in G2 OBVIOUS
      <4>4. d + l - 1 = d + (j + n) /\ r + cut + 1 - l \in 0 .. p - 1
        <5>1. j + n < cut BY ONLY <2>21, <3>2
        <5> QED BY <5>1, <4>2, <2>1, <2>3, <1>2
      <4>5. New(l) = <<d + (j + n), Rest(t, j + n + 1), r + cut + 1 - l>>
        BY <4>2, <4>4
      <4> QED BY <4>3, <4>4, <4>5
    <3> QED BY <3>1, <3>2
  <2> HIDE DEF G2, J
  <2>6. PICK q \in 0 .. p - 1 :
          <<d + (j + LabelLen(t, j)), Rest(t, j + LabelLen(t, j) + 1), q>> \in G2
    BY <2>5, <2>2
  <2>7. Follows(m, b, G2, d + j - 1, Rest(t, j), p)
    BY ONLY m \in Seq(Nat), IsName(t), Literal(m, d, t, cut), p \in Nat, <2>1,
            q \in 0 .. p - 1, <2>6, LabelFollows
  <2> QED BY <2>3, <2>4, <2>7
<1>5. Closed(m, b, G2)
  <2> SUFFICES ASSUME NEW p, NEW s, NEW q, <<p, s, q>> \in G2
               PROVE  p \in 0 .. b - 1 /\ q \in 0 .. b - 1 /\ Follows(m, b, G2, p, s, q)
    BY DEF Closed
  <2>1. CASE <<p, s, q>> \in G
    <3>1. p \in 0 .. b - 1 /\ q \in 0 .. b - 1 /\ Follows(m, b, G, p, s, q)
      BY <1>1, <2>1 DEF Closed
    <3>2. G \subseteq G2 OBVIOUS
    <3> HIDE DEF G2
    <3> QED BY <3>1, <3>2, FollowsMore
  <2>2. CASE <<p, s, q>> \notin G
    <3>1. PICK j \in J : <<p, s, q>> = New(j) BY <2>2
    <3>2. p = d + j - 1 /\ s = Rest(t, j) /\ q = r + cut + 1 - j BY <3>1
    <3> HIDE DEF G2, J
    <3> QED BY <3>2, <1>4
  <2> QED BY <2>1, <2>2
<1>6. <<d + k - 1, Rest(t, k), r + cut + 1 - k>> \in G2
  <2>1. CASE k = cut + 1
    <3>1. d + k - 1 = d + cut /\ r + cut + 1 - k = r BY <2>1, <1>2
    <3> QED BY <3>1, <2>1, <1>1
  <2>2. CASE k # cut + 1
    <3>1. k \in J BY <2>2, <1>2
    <3>2. New(k) \in G2 BY <3>1
    <3> QED BY <3>2
  <2> QED BY <2>1, <2>2
<1> HIDE DEF G2
<1> QED BY <1>5, <1>6 DEF Readable, Spells

\* A name is its first label and, if there is more, a dot and the rest.
LEMMA NameSplit ==
  ASSUME NEW s, IsName(s)
  PROVE  s = SubSeq(s, 1, LabelLen(s, 1))
               \o (IF Rest(s, LabelLen(s, 1) + 2) = <<>> THEN <<>>
                   ELSE <<DOT>> \o Rest(s, LabelLen(s, 1) + 2))
<1> DEFINE n == LabelLen(s, 1)
           e == Len(s)
           x == SubSeq(s, 1, n)
           y == Rest(s, n + 2)
<1>1. /\ s \in Seq(Int) /\ e \in Nat /\ e >= 1 /\ 1 \in Marks(s) /\ s[e] # DOT
  BY NameSeq, NameEnds
<1>2. 1 # Len(s) + 2 BY <1>1
<1>3. /\ n \in 1 .. 63 /\ 1 + n <= e + 1 /\ (1 + n = e + 1 \/ s[1 + n] = DOT)
  BY <1>1, <1>2, LabelOf
<1> HIDE DEF n, x, y
<1>4. n \in Int /\ n >= 1 /\ n <= e /\ e \in Nat BY ONLY <1>1, <1>3
<1>5. x \in Seq(Int) /\ Len(x) = n /\ \A i \in 1 .. n : x[i] = s[i]
  <2>1. 1 \in Int /\ 1 >= 1 /\ 1 <= n + 1 /\ n <= Len(s) BY <1>4
  <2>2. /\ x \in Seq(Int) /\ Len(x) = n - 1 + 1
        /\ \A i \in 1 .. n - 1 + 1 : x[i] = s[1 + i - 1]
    BY <1>1, <1>4, <2>1, Part DEF x
  <2>3. n - 1 + 1 = n /\ \A i \in 1 .. n : 1 + i - 1 = i BY <1>4
  <2> QED BY <2>2, <2>3
<1>6. CASE n = e
  <2>1. y = <<>>
    <3>1. n + 2 \in Int /\ e \in Int /\ e < n + 2 BY <1>4, <1>6
    <3> HIDE DEF e
    <3>2. SubSeq(s, n + 2, e) = <<>> BY ONLY <3>1, SubSeqEmpty
    <3> QED BY <3>2 DEF y, Rest, e
  <2>2. x = s
    <3>1. Len(x) = Len(s) /\ \A i \in 1 .. Len(x) : x[i] = s[i] BY <1>5, <1>6
    <3> QED BY ONLY <3>1, <1>1, <1>5, SeqEqual
  <2>3. x \o <<>> = x BY ONLY <1>5, ConcatEmptySeq
  <2>4. s = x \o (IF y = <<>> THEN <<>> ELSE <<DOT>> \o y) BY <2>1, <2>2, <2>3
  <2> QED BY <2>4 DEF x, y, n
<1>7. CASE n # e
  <2>1. s[n + 1] = DOT /\ n + 1 # e
    <3>1. 1 + n = n + 1 /\ n + 1 # e + 1 BY <1>4, <1>7
    <3>2. s[n + 1] = DOT BY <3>1, <1>3
    <3> QED BY <3>2, <1>1
  <2>2. /\ n + 2 \in Int /\ n + 2 >= 1 /\ e \in Int /\ n + 2 <= e + 1 /\ e <= Len(s)
    BY <2>1, <1>4, <1>7
  <2>3. /\ y \in Seq(Int) /\ Len(y) = e - (n + 2) + 1
        /\ \A i \in 1 .. e - (n + 2) + 1 : y[i] = s[n + 2 + i - 1]
    <3> DEFINE k == n + 2
    <3>1. /\ k \in Int /\ k >= 1 /\ e \in Int /\ k <= e + 1 /\ e <= Len(s) BY <2>2
    <3> HIDE DEF k, e
    <3>2. /\ SubSeq(s, k, e) \in Seq(Int) /\ Len(SubSeq(s, k, e)) = e - k + 1
          /\ \A i \in 1 .. e - k + 1 : SubSeq(s, k, e)[i] = s[k + i - 1]
      BY ONLY <1>1, <3>1, Part
    <3>3. y = SubSeq(s, k, e) BY DEF y, Rest, k, e
    <3> QED BY <3>2, <3>3 DEF k
  <2>4. Len(y) \in Nat /\ Len(y) = e - n - 1 /\ Len(y) >= 1
    <3>1. e - (n + 2) + 1 = e - n - 1 /\ e - n - 1 >= 1 BY <2>1, <1>4, <1>7
    <3> QED BY <3>1, <2>3, <1>4
  <2>5. y # <<>> BY <2>4
  <2> DEFINE dot == <<DOT>>
             z == dot \o y
             u == x \o z
  <2>6. dot \in Seq(Int) /\ Len(dot) = 1 /\ dot[1] = DOT OBVIOUS
  <2> HIDE DEF dot
  <2>7. /\ z \in Seq(Int) /\ Len(z) = 1 + Len(y)
        /\ \A i \in 1 .. 1 + Len(y) : z[i] = IF i <= 1 THEN dot[i] ELSE y[i - 1]
    <3>1. y \in Seq(Int) BY <2>3
    <3>2. /\ dot \o y \in Seq(Int) /\ Len(dot \o y) = Len(dot) + Len(y)
          /\ \A i \in 1 .. Len(dot) + Len(y) :
               (dot \o y)[i] = IF i <= Len(dot) THEN dot[i] ELSE y[i - Len(dot)]
      BY ONLY <2>6, <3>1, ConcatProperties
    <3>3. \A i \in 1 .. 1 + Len(y) : i - Len(dot) = i - 1 BY ONLY <2>4, <2>6
    <3> HIDE DEF y
    <3> QED BY ONLY <3>2, <3>3, <2>6
  <2> HIDE DEF z
  <2>8. /\ u \in Seq(Int) /\ Len(u) = Len(x) + Len(z)
        /\ \A i \in 1 .. Len(x) + Len(z) :
             u[i] = IF i <= Len(x) THEN x[i] ELSE z[i - Len(x)]
    BY <2>7, <1>5, ConcatProperties
  <2> HIDE DEF u
  <2>9. Len(u) = e BY <2>8, <2>7, <2>4, <1>5, <1>4
  <2>10. ASSUME NEW i \in 1 .. e PROVE u[i] = s[i]
    <3>0. i \in 1 .. Len(x) + Len(z) BY <2>8, <2>9
    <3>1. u[i] = IF i <= n THEN x[i] ELSE z[i - n] BY <3>0, <2>8, <1>5
    <3>2. CASE i <= n
      <4>1. i \in 1 .. n BY <3>2
      <4> QED BY <4>1, <3>1, <3>2, <1>5
    <3>3. CASE i > n
      <4>1. PICK j \in Int : j = i - n /\ j >= 1 /\ j <= e - n BY <3>3, <1>4
      <4>2. j \in 1 .. 1 + Len(y)
        <5>1. 1 + Len(y) = e - n BY <2>4, <1>4
        <5> QED BY ONLY <4>1, <5>1, j \in Int
      <4>3. u[i] = z[j] BY <3>1, <3>3, <4>1, <1>4
      <4>4. CASE j = 1
        <5>1. i = n + 1 BY <4>1, <4>4, <1>4
        <5>2. z[j] = DOT BY <4>2, <4>4, <2>6, <2>7
        <5> QED BY <4>3, <5>1, <5>2, <2>1
      <4>5. CASE j # 1
        <5>1. PICK l \in Int : l = j - 1 /\ l >= 1 /\ ~ (j <= 1) /\ l <= e - n - 1
          BY <4>1, <4>5, <1>4
        <5>2. z[j] = y[l] BY <4>2, <5>1, <2>7
        <5>3. l \in 1 .. e - (n + 2) + 1 /\ n + 2 + l - 1 = i
          <6>1. j = i - n /\ l = j - 1 /\ l >= 1 /\ l <= e - n - 1 BY <4>1, <5>1
          <6> QED BY ONLY <6>1, <1>4, i \in 1 .. e, j \in Int, l \in Int
        <5>4. y[l] = s[n + 2 + l - 1] BY <5>3, <2>3
        <5> QED BY <4>3, <5>2, <5>3, <5>4
      <4> QED BY <4>4, <4>5
    <3> QED BY <3>2, <3>3, <1>4
  <2>11. Len(u) = Len(s) /\ \A i \in 1 .. Len(u) : u[i] = s[i] BY <2>9, <2>10
  <2>12. u = s BY ONLY <2>8, <2>11, <1>1, SeqEqual
  <2>13. s = x \o (IF y = <<>> THEN <<>> ELSE <<DOT>> \o y)
    BY <2>12, <2>5 DEF u, z, dot
  <2> QED BY <2>13 DEF x, y, n
<1> QED BY <1>6, <1>7

\* What ReadName does at an offset, given what it reads elsewhere.
ReadStep(g, o) ==
  IF o >= Len(msg) THEN <<-1>>
  ELSE IF At(o) = 0 THEN <<>>
  ELSE IF o + 1 >= Len(msg) THEN <<-1>>
  ELSE IF IsPointer(o) THEN g[Target(o)]
  ELSE IF o + 1 + At(o) > Len(msg) THEN <<-1>>
  ELSE SubSeq(msg, o + 2, o + 1 + At(o))
         \o (IF g[o + 1 + At(o)] = <<>> THEN <<>> ELSE <<DOT>> \o g[o + 1 + At(o)])

\* It yields a sequence of numbers.
LEMMA ReadStepType ==
  ASSUME msg \in Seq(Nat), NEW g \in [Nat -> Seq(Int)], NEW o \in Nat
  PROVE  ReadStep(g, o) \in Seq(Int)
<1>1. <<-1>> \in Seq(Int) /\ <<>> \in Seq(Int) OBVIOUS
<1>2. Len(msg) \in Nat OBVIOUS
<1>3. CASE o >= Len(msg) \/ At(o) = 0 \/ o + 1 >= Len(msg)
  BY <1>1, <1>3 DEF ReadStep
<1>4. CASE ~ (o >= Len(msg)) /\ ~ (At(o) = 0) /\ ~ (o + 1 >= Len(msg))
  <2>0. ~ (o + 1 >= Len(msg)) BY <1>4
  <2>1. o + 1 \in 1 .. Len(msg) /\ o + 1 + 1 \in 1 .. Len(msg)
    BY ONLY <2>0, <1>2, o \in Nat
  <2>2. At(o) \in Nat /\ At(o + 1) \in Nat
    <3>1. \A i \in 1 .. Len(msg) : msg[i] \in Nat
      BY ONLY msg \in Seq(Nat), ElementOfSeq
    <3> QED BY <3>1, <2>1 DEF At
  <2>4. CASE IsPointer(o)
    <3>1. Target(o) \in Nat
      <4>1. PICK x \in Nat, y \in Nat : x = At(o) /\ y = At(o + 1) BY <2>2
      <4>2. (256 * x + y) % OffsetMod \in Nat BY DEF OffsetMod
      <4> QED BY <4>1, <4>2 DEF Target, Word
    <3>2. ReadStep(g, o) = g[Target(o)] BY <1>4, <2>4 DEF ReadStep
    <3> QED BY <3>1, <3>2
  <2>5. CASE ~ IsPointer(o)
    <3> DEFINE e == o + 1 + At(o)
    <3>1. CASE e > Len(msg) BY <1>1, <1>4, <2>5, <3>1 DEF ReadStep
    <3>2. CASE ~ (e > Len(msg))
      <4>1. e \in Nat /\ o + 2 \in Int /\ o + 2 >= 1 /\ o + 2 <= e + 1 /\ e <= Len(msg)
        <5>1. PICK v \in Nat : v = At(o) BY <2>2
        <5>2. v > 0
          <6>1. v # 0 BY <5>1, <1>4
          <6> QED BY <6>1
        <5>3. ~ (o + 1 + v > Len(msg)) BY <5>1, <3>2
        <5>4. /\ o + 1 + v \in Nat /\ o + 2 \in Int /\ o + 2 >= 1
              /\ o + 2 <= o + 1 + v + 1 /\ o + 1 + v <= Len(msg)
          BY ONLY <5>2, <5>3, <1>2, v \in Nat, o \in Nat
        <5> QED BY <5>1, <5>4
      <4>2. ReadStep(g, o) = SubSeq(msg, o + 2, e)
                               \o (IF g[e] = <<>> THEN <<>> ELSE <<DOT>> \o g[e])
        BY <1>4, <2>5, <3>2 DEF ReadStep
      <4> HIDE DEF e
      <4>3. msg \in Seq(Int) BY SeqMonotonic, Nat \subseteq Int
      <4>4. SubSeq(msg, o + 2, e) \in Seq(Int)
        <5>1. e \in Int BY <4>1
        <5> QED BY ONLY <4>1, <4>3, <5>1, Part
      <4>5. g[e] \in Seq(Int) BY <4>1
      <4>6. <<DOT>> \in Seq(Int) /\ <<DOT>> \o g[e] \in Seq(Int) BY <4>5
      <4> QED BY <4>2, <4>4, <4>6, <1>1
    <3> QED BY <3>1, <3>2
  <2> QED BY <2>4, <2>5
<1> QED BY <1>3, <1>4

\* The function ReadName is defined by does exist.
LEMMA ReadNameIs ==
  ASSUME msg \in Seq(Nat)
  PROVE  \E Read : /\ \A from : ReadName(from) = Read[Len(msg)][from]
                   /\ \A n \in 1 .. Len(msg), o \in Nat :
                        Read[n][o] = ReadStep(Read[n - 1], o)
<1> DEFINE S == [Nat -> Seq(Int)]
           N == Len(msg)
           a == [o \in Nat |-> <<-1>>]
           nx == [v \in (1 .. N) \X S |-> [o \in Nat |-> ReadStep(v[2], o)]]
           Is(f) == f = [n \in 0 .. N |-> [o \in Nat |->
             IF n = 0 \/ o >= Len(msg) THEN <<-1>>
             ELSE IF At(o) = 0 THEN <<>>
             ELSE IF o + 1 >= Len(msg) THEN <<-1>>
             ELSE IF IsPointer(o) THEN f[n - 1][Target(o)]
             ELSE IF o + 1 + At(o) > Len(msg) THEN <<-1>>
             ELSE SubSeq(msg, o + 2, o + 1 + At(o))
                    \o (IF f[n - 1][o + 1 + At(o)] = <<>> THEN <<>>
                        ELSE <<DOT>> \o f[n - 1][o + 1 + At(o)])]]
<1>1. N \in Nat /\ a \in S
  <2>1. <<-1>> \in Seq(Int) OBVIOUS
  <2> QED BY <2>1
<1>2. \A k \in 1 .. N : \A v \in S : nx[<<k, v>>] = [o \in Nat |-> ReadStep(v, o)]
  OBVIOUS
<1>3. \A v \in S : [o \in Nat |-> ReadStep(v, o)] \in S
  BY ReadStepType
<1> HIDE DEF nx
<1>4. \A k \in 1 .. N : \A v \in S : nx[<<k, v>>] \in S BY <1>2, <1>3
<1> HIDE DEF S, N, a
<1>5. PICK f : IteratedIn(f, N, S, a, nx) BY ONLY <1>1, <1>4, IterateIn
<1>6. /\ f \in [0 .. N -> S]
      /\ f = [k \in 0 .. N |-> IF k = 0 THEN a ELSE nx[<<k, f[k - 1]>>]]
  BY <1>5 DEF IteratedIn
<1>7. Is(f)
  <2> DEFINE Body(n) == [o \in Nat |->
             IF n = 0 \/ o >= Len(msg) THEN <<-1>>
             ELSE IF At(o) = 0 THEN <<>>
             ELSE IF o + 1 >= Len(msg) THEN <<-1>>
             ELSE IF IsPointer(o) THEN f[n - 1][Target(o)]
             ELSE IF o + 1 + At(o) > Len(msg) THEN <<-1>>
             ELSE SubSeq(msg, o + 2, o + 1 + At(o))
                    \o (IF f[n - 1][o + 1 + At(o)] = <<>> THEN <<>>
                        ELSE <<DOT>> \o f[n - 1][o + 1 + At(o)])]
  <2>1. Body(0) = a BY DEF a
  <2>2. ASSUME NEW n \in 0 .. N, n # 0 PROVE nx[<<n, f[n - 1]>>] = Body(n)
    <3>1. n \in 1 .. N /\ n - 1 \in 0 .. N BY <2>2, <1>1
    <3>2. f[n - 1] \in S BY <3>1, <1>6
    <3>3. nx[<<n, f[n - 1]>>] = [o \in Nat |-> ReadStep(f[n - 1], o)]
      BY <3>1, <3>2, <1>2
    <3>4. Body(n) = [o \in Nat |-> ReadStep(f[n - 1], o)] BY <2>2 DEF ReadStep
    <3> QED BY <3>3, <3>4
  <2> HIDE DEF Body
  <2>3. ASSUME NEW n \in 0 .. N
        PROVE  (IF n = 0 THEN a ELSE nx[<<n, f[n - 1]>>]) = Body(n)
    BY <2>1, <2>2
  <2>4. [k \in 0 .. N |-> IF k = 0 THEN a ELSE nx[<<k, f[k - 1]>>]]
          = [n \in 0 .. N |-> Body(n)]
    BY <2>3
  <2>5. f = [n \in 0 .. N |-> Body(n)] BY <1>6, <2>4
  <2> QED BY <2>5 DEF Body
<1> DEFINE g == CHOOSE f0 : Is(f0)
<1>8. Is(g) BY <1>7
<1>9. \A from : ReadName(from) = g[N][from] BY DEF ReadName, N
<1> HIDE DEF g
<1>10. ASSUME NEW n \in 1 .. N, NEW o \in Nat PROVE g[n][o] = ReadStep(g[n - 1], o)
  <2>1. n \in 0 .. N /\ n # 0 BY <1>1
  <2>2. g[n] = [o0 \in Nat |->
             IF n = 0 \/ o0 >= Len(msg) THEN <<-1>>
             ELSE IF At(o0) = 0 THEN <<>>
             ELSE IF o0 + 1 >= Len(msg) THEN <<-1>>
             ELSE IF IsPointer(o0) THEN g[n - 1][Target(o0)]
             ELSE IF o0 + 1 + At(o0) > Len(msg) THEN <<-1>>
             ELSE SubSeq(msg, o0 + 2, o0 + 1 + At(o0))
                    \o (IF g[n - 1][o0 + 1 + At(o0)] = <<>> THEN <<>>
                        ELSE <<DOT>> \o g[n - 1][o0 + 1 + At(o0)])]
    BY ONLY <2>1, <1>8
  <2>3. g[n] = [o0 \in Nat |-> ReadStep(g[n - 1], o0)]
    BY ONLY <2>1, <2>2 DEF ReadStep
  <2> QED BY ONLY <2>3, o \in Nat
<1> QED BY <1>9, <1>10 DEF N

\* A name that can be read in the message is what ReadName reads.
LEMMA ReadSpelled ==
  ASSUME msg \in Seq(Nat), NEW b \in Nat, b <= Len(msg),
         NEW o, NEW s, Readable(msg, b, o, s)
  PROVE  ReadName(o) = s
<1>1. PICK r : Spells(msg, b, o, s, r) BY DEF Readable
<1>2. PICK G : Closed(msg, b, G) /\ <<o, s, r>> \in G BY <1>1 DEF Spells
<1>3. PICK Read : /\ \A from : ReadName(from) = Read[Len(msg)][from]
                  /\ \A n \in 1 .. Len(msg), p \in Nat :
                       Read[n][p] = ReadStep(Read[n - 1], p)
  BY ReadNameIs
<1>4. Len(msg) \in Nat OBVIOUS
<1> DEFINE H == {n \in 0 .. Len(msg) :
                   \A p, t, q : <<p, t, q>> \in G /\ q < n => Read[n][p] = t}
<1>5. \A p, t, q : <<p, t, q>> \in G =>
        p \in 0 .. b - 1 /\ q \in 0 .. b - 1 /\ Follows(msg, b, G, p, t, q)
  BY <1>2 DEF Closed
<1>6. 0 \in H
  <2>1. \A p, t, q : <<p, t, q>> \in G => ~ (q < 0) BY <1>5
  <2> QED BY <2>1, <1>4
<1>7. ASSUME NEW n \in 1 .. Len(msg), n - 1 \in H PROVE n \in H
  <2> SUFFICES ASSUME NEW p, NEW t, NEW q, <<p, t, q>> \in G, q < n
               PROVE  Read[n][p] = t
    OBVIOUS
  <2>1. p \in 0 .. b - 1 /\ q \in 0 .. b - 1 /\ Follows(msg, b, G, p, t, q) BY <1>5
  <2>2. p \in Nat /\ ~ (p >= Len(msg)) BY <2>1, <1>4
  <2> DEFINE g == Read[n - 1]
  <2>3. Read[n][p] = ReadStep(g, p) BY <2>2, <1>3
  <2>4. \A p1, t1, q1 : <<p1, t1, q1>> \in G /\ q1 < n - 1 => g[p1] = t1 BY <1>7
  <2>5. \A p1, t1 : \A q1 \in 0 .. q - 1 : <<p1, t1, q1>> \in G => g[p1] = t1
    <3> SUFFICES ASSUME NEW p1, NEW t1, NEW q1 \in 0 .. q - 1, <<p1, t1, q1>> \in G
                 PROVE  g[p1] = t1
      OBVIOUS
    <3>1. q1 < n - 1 BY <2>1
    <3> QED BY <3>1, <2>4
  <2> HIDE DEF g
  <2>6. CASE msg[p + 1] = 0 /\ t = <<>>
    BY <2>2, <2>3, <2>6 DEF ReadStep, At
  <2>7. CASE /\ IsName(t) /\ msg[p + 1] = LabelLen(t, 1)
             /\ \A i \in 1 .. LabelLen(t, 1) : msg[p + 1 + i] = t[i]
             /\ \E q1 \in 0 .. q - 1 :
                  <<p + 1 + LabelLen(t, 1), Rest(t, LabelLen(t, 1) + 2), q1>> \in G
    <3> DEFINE l == LabelLen(t, 1)
               e == p + 1 + l
    <3>1. /\ t \in Seq(Int) /\ Len(t) \in Nat /\ l \in 1 .. 63 /\ 1 + l <= Len(t) + 1
      <4>1. 1 \in Marks(t) /\ Len(t) \in Nat BY <2>7, NameEnds
      <4>2. 1 # Len(t) + 2 BY <4>1
      <4> QED BY <2>7, <4>1, <4>2, LabelOf
    <3>2. g[e] = Rest(t, l + 2) BY <2>7, <2>5
    <3>3. e \in 0 .. b - 1 BY <2>7, <1>5
    <3>4. At(p) = l BY <2>7 DEF At
    <3>5. \A i \in 1 .. l : msg[p + 1 + i] = t[i] BY <2>7
    <3>6. t = SubSeq(t, 1, l)
                \o (IF Rest(t, l + 2) = <<>> THEN <<>> ELSE <<DOT>> \o Rest(t, l + 2))
      BY <2>7, NameSplit
    <3> HIDE DEF l
    <3>7. /\ ~ (l = 0) /\ ~ (p + 1 >= Len(msg)) /\ ~ (l >= 192)
          /\ ~ (p + 1 + l > Len(msg)) /\ p + 1 + l <= Len(msg) /\ l \in Nat /\ l >= 1
          /\ p + 1 + l \in Int
      <4>1. l \in 1 .. 63 /\ p + 1 + l \in 0 .. b - 1 BY <3>1, <3>3
      <4> QED BY ONLY <4>1, <2>2, <1>4, b \in Nat, b <= Len(msg)
    <3>8. ReadStep(g, p) = SubSeq(msg, p + 2, p + 1 + l)
                             \o (IF g[e] = <<>> THEN <<>> ELSE <<DOT>> \o g[e])
      BY <2>2, <3>4, <3>7 DEF ReadStep, IsPointer
    <3>9. SubSeq(msg, p + 2, p + 1 + l) = SubSeq(t, 1, l)
      <4>1. PICK c \in Nat : c = p + 1 BY <2>2
      <4>2. c + 1 = p + 2 /\ c + l <= Len(msg) BY <4>1, <3>7, <2>2
      <4>3. l <= Len(t)
        <5>1. 1 + l <= Len(t) + 1 /\ Len(t) \in Nat BY <3>1
        <5> QED BY ONLY <5>1, <3>7
      <4>4. msg \in Seq(Int) BY SeqMonotonic, Nat \subseteq Int
      <4>5. \A i \in 1 .. l : msg[c + i] = t[i] BY <3>5, <4>1
      <4>6. SubSeq(msg, c + 1, c + l) = SubSeq(t, 1, l)
        <5>1. l \in Nat /\ t \in Seq(Int) BY <3>7, <3>1
        <5> QED BY ONLY <5>1, <4>2, <4>3, <4>4, <4>5, c \in Nat, SamePart
      <4> QED BY ONLY <4>1, <4>2, <4>6
    <3> QED BY <2>3, <3>2, <3>6, <3>8, <3>9
  <2>8. CASE /\ msg[p + 1] >= 192 /\ p + 2 <= b
             /\ \E q1 \in 0 .. q - 1 : <<Leads(msg, p), t, q1>> \in G
    <3>1. g[Leads(msg, p)] = t BY <2>8, <2>5
    <3>2. p + 1 + 1 = p + 2 BY <2>2
    <3>3. Target(p) = Leads(msg, p) BY <3>2 DEF Target, Word, At, Leads
    <3>4. ~ (p + 1 >= Len(msg)) BY <2>8, <2>2, <1>4
    <3>5. ~ (msg[p + 1] = 0) BY <2>8
    <3>6. ReadStep(g, p) = g[Target(p)]
      BY <2>2, <2>8, <3>4, <3>5 DEF ReadStep, At, IsPointer
    <3> QED BY <2>3, <3>1, <3>3, <3>6
  <2> QED BY <2>1, <2>6, <2>7, <2>8 DEF Follows
<1>8. Len(msg) \in H
  <2> HIDE DEF H
  <2>1. \A n \in 0 .. Len(msg) : n \in H BY <1>4, <1>6, <1>7, UpTo
  <2> QED BY <2>1, <1>4
<1>9. r < Len(msg)
  <2>1. r \in 0 .. b - 1 BY <1>2, <1>5
  <2> QED BY <2>1, <1>4
<1>10. Read[Len(msg)][o] = s BY <1>2, <1>8, <1>9
<1> QED BY <1>3, <1>10
----------------------------------------------------------------------------
(* What is written: numbers, pointers, records *)

\* u is one sequence behind another.
Joined(u, s, t, S) ==
  /\ u \in Seq(S) /\ Len(u) = Len(s) + Len(t)
  /\ \A i \in 1 .. Len(s) : u[i] = s[i]
  /\ \A i \in 1 .. Len(t) : u[Len(s) + i] = t[i]

\* That is what \o does.
LEMMA CatIs ==
  ASSUME NEW S, NEW s \in Seq(S), NEW t \in Seq(S)
  PROVE  Joined(s \o t, s, t, S)
<1>1. Len(s) \in Nat /\ Len(t) \in Nat OBVIOUS
<1>2. /\ s \o t \in Seq(S) /\ Len(s \o t) = Len(s) + Len(t)
      /\ \A i \in 1 .. Len(s) + Len(t) :
           (s \o t)[i] = IF i <= Len(s) THEN s[i] ELSE t[i - Len(s)]
  BY ConcatProperties
<1>3. ASSUME NEW i \in 1 .. Len(s) PROVE (s \o t)[i] = s[i]
  <2>1. i \in 1 .. Len(s) + Len(t) /\ i <= Len(s) BY <1>1
  <2> QED BY <1>2, <2>1
<1>4. ASSUME NEW i \in 1 .. Len(t) PROVE (s \o t)[Len(s) + i] = t[i]
  <2>1. /\ Len(s) + i \in 1 .. Len(s) + Len(t) /\ ~ (Len(s) + i <= Len(s))
        /\ Len(s) + i - Len(s) = i
    BY <1>1
  <2> QED BY <1>2, <2>1
<1> QED BY <1>2, <1>3, <1>4 DEF Joined

\* Two bytes are more than an offset needs.
LEMMA Limits == OffsetMod \in Nat /\ WordMod \in Nat /\ WordMod > OffsetMod /\ OffsetMod > 255
  BY DEF OffsetMod, WordMod

\* A number of 16 bits survives its two bytes.
LEMMA BytesAre ==
  ASSUME NEW n \in 0 .. WordMod - 1
  PROVE  /\ Bytes(n) \in Seq(Byte) /\ Len(Bytes(n)) = 2
         /\ (256 * Bytes(n)[1]) + Bytes(n)[2] = n
<1>1. n \in Nat /\ n < WordMod BY Limits
<1>2. n % 256 \in 0 .. 255 BY <1>1
<1>3. n \div 256 \in Int /\ (256 * (n \div 256)) + (n % 256) = n BY ONLY <1>1
<1>4. PICK d \in Int : d = n \div 256 BY <1>3
<1>5. PICK r \in 0 .. 255 : r = n % 256 BY <1>2
<1>6. (256 * d) + r = n BY <1>3, <1>4, <1>5
<1>7. d \in 0 .. 255
  <2>1. (256 * d) + r < 256 * 256 BY <1>1, <1>6 DEF WordMod
  <2>2. (256 * d) + r >= 0 BY <1>1, <1>6
  <2> QED BY ONLY <2>1, <2>2, d \in Int, r \in 0 .. 255
<1>8. Bytes(n) = <<d, r>> BY <1>4, <1>5 DEF Bytes
<1>9. Bytes(n)[1] = d /\ Bytes(n)[2] = r /\ Len(Bytes(n)) = 2 BY <1>8
<1>10. Bytes(n) \in Seq(Byte) BY <1>7, <1>8 DEF Byte
<1> QED BY <1>6, <1>9, <1>10

\* So does an offset of a message in a pointer.
LEMMA PointerIs ==
  ASSUME NEW o \in 0 .. OffsetMod - 1
  PROVE  /\ PointerTo(o) \in Seq(Byte) /\ Len(PointerTo(o)) = 2
         /\ PointerTo(o)[1] >= 192
         /\ ((256 * PointerTo(o)[1]) + PointerTo(o)[2]) % OffsetMod = o
<1>1. 3 * OffsetMod + o \in 0 .. WordMod - 1
  <2>1. WordMod = 4 * OffsetMod BY DEF OffsetMod, WordMod
  <2>2. PICK M \in Nat : M = OffsetMod BY Limits
  <2>3. o \in 0 .. M - 1 BY <2>2
  <2>4. 3 * M + o \in 0 .. (4 * M) - 1 BY ONLY <2>3, M \in Nat
  <2> QED BY <2>1, <2>2, <2>4
<1>2. (3 * OffsetMod + o) % OffsetMod = o BY DEF OffsetMod
<1> DEFINE n == 3 * OffsetMod + o
<1>3. PointerTo(o) = Bytes(n) BY DEF PointerTo
<1>4. n >= 192 * 256 BY DEF OffsetMod
<1> HIDE DEF n
<1>5. /\ PointerTo(o) \in Seq(Byte) /\ Len(PointerTo(o)) = 2
      /\ (256 * PointerTo(o)[1]) + PointerTo(o)[2] = n
  BY <1>1, <1>3, BytesAre DEF n
<1>6. PICK h \in 0 .. 255, l \in 0 .. 255 : h = PointerTo(o)[1] /\ l = PointerTo(o)[2]
  <2>1. PointerTo(o)[1] \in Byte /\ PointerTo(o)[2] \in Byte BY <1>5
  <2> QED BY <2>1 DEF Byte
<1>7. (256 * h) + l = n BY <1>5, <1>6
<1>8. h >= 192 BY ONLY <1>4, <1>7, h \in 0 .. 255, l \in 0 .. 255
<1> QED BY <1>2, <1>5, <1>6, <1>7, <1>8 DEF n

\* A record: its owner, its type, the length of its data, and the data.
LEMMA ResourceIs ==
  ASSUME NEW type \in 0 .. WordMod - 1, NEW p \in 0 .. OffsetMod - 1,
         NEW rdata \in Seq(Byte), Len(rdata) < WordMod
  PROVE  /\ Resource(type, p, rdata) \in Seq(Byte)
         /\ Len(Resource(type, p, rdata)) = 12 + Len(rdata)
         /\ Resource(type, p, rdata)[1] >= 192
         /\ ((256 * Resource(type, p, rdata)[1]) + Resource(type, p, rdata)[2]) % OffsetMod = p
         /\ (256 * Resource(type, p, rdata)[3]) + Resource(type, p, rdata)[4] = type
         /\ (256 * Resource(type, p, rdata)[11]) + Resource(type, p, rdata)[12] = Len(rdata)
         /\ \A i \in 1 .. Len(rdata) : Resource(type, p, rdata)[12 + i] = rdata[i]
<1> DEFINE a == PointerTo(p)
           c == Bytes(type)
           e == Bytes(1)
           f == <<0, 0, 0, 0>>
           l == Bytes(Len(rdata))
           s == a \o c \o e \o f \o l
           S == Byte
<1>1. Len(rdata) \in 0 .. WordMod - 1 /\ 1 \in 0 .. WordMod - 1
  <2>1. PICK n \in Nat : n = Len(rdata) OBVIOUS
  <2>2. n < WordMod BY <2>1
  <2>3. n \in 0 .. WordMod - 1 /\ 1 \in 0 .. WordMod - 1 BY ONLY <2>2, n \in Nat, Limits
  <2> QED BY <2>1, <2>3
<1>2. /\ a \in Seq(S) /\ Len(a) = 2 /\ a[1] >= 192 /\ ((256 * a[1]) + a[2]) % OffsetMod = p
  BY PointerIs
<1>3. c \in Seq(S) /\ Len(c) = 2 /\ (256 * c[1]) + c[2] = type BY BytesAre
<1>4. e \in Seq(S) /\ Len(e) = 2 BY <1>1, BytesAre
<1>5. l \in Seq(S) /\ Len(l) = 2 /\ (256 * l[1]) + l[2] = Len(rdata)
  BY <1>1, BytesAre
<1>6. f \in Seq(S) /\ Len(f) = 4 BY DEF Byte
<1>7. Resource(type, p, rdata) = s \o rdata BY DEF Resource
<1>13. rdata \in Seq(S) OBVIOUS
<1> HIDE DEF a, c, e, f, l, S
<1>8. /\ s \in Seq(S) /\ Len(s) = 12
      /\ s[1] = a[1] /\ s[2] = a[2] /\ s[3] = c[1] /\ s[4] = c[2]
      /\ s[11] = l[1] /\ s[12] = l[2]
  <2>9. 1 \in 1 .. 2 /\ 2 \in 1 .. 2 OBVIOUS
  <2>1. /\ a \o c \in Seq(S) /\ Len(a \o c) = 4
        /\ (a \o c)[1] = a[1] /\ (a \o c)[2] = a[2]
        /\ (a \o c)[3] = c[1] /\ (a \o c)[4] = c[2]
    <3>1. Joined(a \o c, a, c, S) BY <1>2, <1>3, CatIs
    <3>2. 2 + 1 = 3 /\ 2 + 2 = 4 OBVIOUS
    <3> QED BY <3>1, <3>2, <1>2, <1>3, <2>9 DEF Joined
  <2> DEFINE ac == a \o c
  <2> HIDE DEF ac
  <2>2. /\ ac \o e \in Seq(S) /\ Len(ac \o e) = 6
        /\ \A i \in 1 .. 4 : (ac \o e)[i] = ac[i]
    <3>1. ac \in Seq(S) /\ Len(ac) = 4 BY <2>1 DEF ac
    <3>2. Joined(ac \o e, ac, e, S) BY <3>1, <1>4, CatIs
    <3> QED BY <3>1, <3>2, <1>4 DEF Joined
  <2> DEFINE ace == ac \o e
  <2> HIDE DEF ace
  <2>3. /\ ace \o f \in Seq(S) /\ Len(ace \o f) = 10
        /\ \A i \in 1 .. 6 : (ace \o f)[i] = ace[i]
    <3>1. ace \in Seq(S) /\ Len(ace) = 6 BY <2>2 DEF ace
    <3>2. Joined(ace \o f, ace, f, S) BY <3>1, <1>6, CatIs
    <3>3. 6 + 4 = 10 OBVIOUS
    <3> QED BY <3>1, <3>2, <3>3, <1>6 DEF Joined
  <2> DEFINE acef == ace \o f
  <2> HIDE DEF acef
  <2>4. /\ acef \o l \in Seq(S) /\ Len(acef \o l) = 12
        /\ \A i \in 1 .. 10 : (acef \o l)[i] = acef[i]
        /\ (acef \o l)[11] = l[1] /\ (acef \o l)[12] = l[2]
    <3>1. acef \in Seq(S) /\ Len(acef) = 10 BY <2>3 DEF acef
    <3>2. Joined(acef \o l, acef, l, S) BY <3>1, <1>5, CatIs
    <3>3. 10 + 1 = 11 /\ 10 + 2 = 12 OBVIOUS
    <3> QED BY <3>1, <3>2, <3>3, <1>5, <2>9 DEF Joined
  <2>5. s = acef \o l BY DEF acef, ace, ac
  <2> HIDE DEF s
  <2>6. ASSUME NEW i \in 1 .. 4 PROVE s[i] = ac[i]
    <3>1. i \in 1 .. 6 /\ i \in 1 .. 10 OBVIOUS
    <3>2. s[i] = acef[i] /\ acef[i] = ace[i] BY <3>1, <2>3, <2>4, <2>5 DEF acef
    <3> QED BY <3>2, <2>2 DEF ace
  <2>7. 1 \in 1 .. 4 /\ 2 \in 1 .. 4 /\ 3 \in 1 .. 4 /\ 4 \in 1 .. 4 OBVIOUS
  <2> QED BY <2>1, <2>4, <2>5, <2>6, <2>7 DEF ac
<1> HIDE DEF s
<1>9. Joined(s \o rdata, s, rdata, S) BY <1>8, <1>13, CatIs
<1>10. \A i \in 1 .. 12 : Resource(type, p, rdata)[i] = s[i] BY <1>7, <1>8, <1>9 DEF Joined
<1>11. /\ 1 \in 1 .. 12 /\ 2 \in 1 .. 12 /\ 3 \in 1 .. 12 /\ 4 \in 1 .. 12
       /\ 11 \in 1 .. 12 /\ 12 \in 1 .. 12
  OBVIOUS
<1>12. /\ Resource(type, p, rdata)[1] = a[1] /\ Resource(type, p, rdata)[2] = a[2]
       /\ Resource(type, p, rdata)[3] = c[1] /\ Resource(type, p, rdata)[4] = c[2]
       /\ Resource(type, p, rdata)[11] = l[1] /\ Resource(type, p, rdata)[12] = l[2]
  BY <1>10, <1>11, <1>8
<1>14. /\ Resource(type, p, rdata) \in Seq(Byte)
       /\ Len(Resource(type, p, rdata)) = 12 + Len(rdata)
       /\ \A i \in 1 .. Len(rdata) : Resource(type, p, rdata)[12 + i] = rdata[i]
  BY <1>7, <1>8, <1>9 DEF S, Joined
<1> QED BY <1>2, <1>3, <1>5, <1>12, <1>14
----------------------------------------------------------------------------
(* The questions of a query *)

\* A list of names, as many as it says
Asked(qs) == Len(qs) \in Nat /\ \A k \in 1 .. Len(qs) : IsName(qs[k])

\* A question is the wire form of its name and four bytes more.
LEMMA QuestBytesAre ==
  ASSUME NEW t, IsName(t)
  PROVE  /\ QuestBytes(t) \in Seq(Byte) /\ Len(QuestBytes(t)) = Len(t) + 6
         /\ \A i \in 1 .. Len(t) + 2 : QuestBytes(t)[i] = inetFormat(t)[i]
<1> DEFINE F == inetFormat(t)
           f == <<0, 1, 0, 1>>
<1>1. F \in Seq(Byte) /\ Len(F) = Len(t) + 2
  <2>1. F \in Seq(0 .. 191) /\ Len(F) = Len(t) + 2 BY FormIs
  <2>2. 0 .. 191 \subseteq Byte BY DEF Byte
  <2> HIDE DEF F
  <2> QED BY <2>1, <2>2, SeqMonotonic
<1>2. f \in Seq(Byte) /\ Len(f) = 4 BY DEF Byte
<1>3. QuestBytes(t) = F \o f BY DEF QuestBytes
<1>4. Len(t) \in Nat BY NameSeq
<1> HIDE DEF F, f
<1>5. Joined(F \o f, F, f, Byte) BY <1>1, <1>2, CatIs
<1>6. Len(t) + 2 + 4 = Len(t) + 6 BY <1>4
<1> QED BY <1>1, <1>2, <1>3, <1>5, <1>6 DEF Joined, F

\* Section adds question after question.
LEMMA SectionIs ==
  ASSUME NEW qs, Asked(qs)
  PROVE  /\ Section(qs)[0] = <<>>
         /\ \A k \in 0 .. Len(qs) : Section(qs)[k] \in Seq(Byte)
         /\ \A k \in 1 .. Len(qs) : Section(qs)[k] = Section(qs)[k - 1] \o QuestBytes(qs[k])
<1> DEFINE S == Seq(Byte)
           N == Len(qs)
           nx == [v \in (1 .. N) \X S |-> v[2] \o QuestBytes(qs[v[1]])]
           Is(f) == f = [n \in 0 .. N |->
                           IF n = 0 THEN <<>> ELSE f[n - 1] \o QuestBytes(qs[n])]
<1>1. N \in Nat /\ <<>> \in S BY DEF Asked
<1>2. \A k \in 1 .. N : \A v \in S : nx[<<k, v>>] = v \o QuestBytes(qs[k])
  OBVIOUS
<1>3. ASSUME NEW k \in 1 .. N, NEW v \in S PROVE v \o QuestBytes(qs[k]) \in S
  <2>1. IsName(qs[k]) BY DEF Asked
  <2>2. QuestBytes(qs[k]) \in Seq(Byte) BY <2>1, QuestBytesAre
  <2> QED BY <2>2, ConcatProperties
<1> HIDE DEF S, nx, N
<1>4. \A k \in 1 .. N : \A v \in S : nx[<<k, v>>] \in S BY <1>2, <1>3
<1>5. PICK f : IteratedIn(f, N, S, <<>>, nx) BY ONLY <1>1, <1>4, IterateIn
<1>51. /\ f \in [0 .. N -> S]
       /\ f = [k \in 0 .. N |-> IF k = 0 THEN <<>> ELSE nx[<<k, f[k - 1]>>]]
  BY <1>5 DEF IteratedIn
<1>6. Is(f)
  <2>1. ASSUME NEW n \in 0 .. N, n # 0
        PROVE  nx[<<n, f[n - 1]>>] = f[n - 1] \o QuestBytes(qs[n])
    <3>1. n \in 1 .. N /\ n - 1 \in 0 .. N BY <2>1, <1>1
    <3>2. f[n - 1] \in S BY <3>1, <1>51
    <3> QED BY <3>1, <3>2, <1>2
  <2>2. [k \in 0 .. N |-> IF k = 0 THEN <<>> ELSE nx[<<k, f[k - 1]>>]]
          = [n \in 0 .. N |-> IF n = 0 THEN <<>> ELSE f[n - 1] \o QuestBytes(qs[n])]
    BY <2>1
  <2> QED BY <1>51, <2>2
<1> DEFINE g == CHOOSE f0 : Is(f0)
<1>7. Is(g) BY <1>6
<1>8. Section(qs) = g BY DEF Section, N
<1> HIDE DEF g
<1>9. g[0] = <<>>
  <2>1. 0 \in 0 .. N BY <1>1
  <2> QED BY <2>1, <1>7
<1>10. ASSUME NEW k \in 1 .. N PROVE g[k] = g[k - 1] \o QuestBytes(qs[k])
  <2>1. k \in 0 .. N /\ k # 0 BY <1>1
  <2> QED BY <2>1, <1>7
<1> HIDE DEF Is
<1>11. \A k \in 0 .. N : g[k] \in S
  <2> DEFINE H == {k \in 0 .. N : g[k] \in S}
  <2>1. 0 \in H BY <1>1, <1>9
  <2>2. ASSUME NEW i \in 1 .. N, i - 1 \in H PROVE i \in H
    <3>1. i \in 0 .. N BY <1>1
    <3>2. g[i - 1] \in S BY <2>2
    <3>3. g[i] \in S BY <3>2, <1>3, <1>10
    <3> QED BY <3>1, <3>3
  <2> HIDE DEF H
  <2>3. \A k \in 0 .. N : k \in H BY <1>1, <2>1, <2>2, UpTo
  <2> QED BY <2>3 DEF H
<1> QED BY <1>8, <1>9, <1>10, <1>11 DEF N, S

\* How the lengths of the parts of a query add up.
LEMMA SectionLens ==
  ASSUME NEW qs, Asked(qs)
  PROVE  /\ Len(Section(qs)[0]) = 0
         /\ \A k \in 0 .. Len(qs) : Len(Section(qs)[k]) \in Nat
         /\ \A k \in 1 .. Len(qs) :
              /\ Len(Section(qs)[k]) = Len(Section(qs)[k - 1]) + Len(qs[k]) + 6
              /\ Joined(Section(qs)[k], Section(qs)[k - 1], QuestBytes(qs[k]), Byte)
<1> DEFINE g == Section(qs)
<1>1. /\ g[0] = <<>> /\ \A k \in 0 .. Len(qs) : g[k] \in Seq(Byte)
      /\ \A k \in 1 .. Len(qs) : g[k] = g[k - 1] \o QuestBytes(qs[k])
  BY SectionIs
<1> HIDE DEF g
<1>2. \A k \in 0 .. Len(qs) : Len(g[k]) \in Nat BY <1>1
<1>3. ASSUME NEW k \in 1 .. Len(qs)
      PROVE  /\ Len(g[k]) = Len(g[k - 1]) + Len(qs[k]) + 6
             /\ Joined(g[k], g[k - 1], QuestBytes(qs[k]), Byte)
  <2>1. k - 1 \in 0 .. Len(qs) BY DEF Asked
  <2>2. IsName(qs[k]) BY DEF Asked
  <2>3. QuestBytes(qs[k]) \in Seq(Byte) /\ Len(QuestBytes(qs[k])) = Len(qs[k]) + 6
    BY <2>2, QuestBytesAre
  <2>4. Joined(g[k - 1] \o QuestBytes(qs[k]), g[k - 1], QuestBytes(qs[k]), Byte)
    BY <1>1, <2>1, <2>3, CatIs
  <2>5. Joined(g[k], g[k - 1], QuestBytes(qs[k]), Byte) BY <2>4, <1>1
  <2>6. Len(g[k]) = Len(g[k - 1]) + (Len(qs[k]) + 6) BY <2>3, <2>5 DEF Joined
  <2>7. PICK x \in Nat : x = Len(g[k - 1]) BY <1>2, <2>1
  <2>8. PICK y \in Nat : y = Len(qs[k]) BY <2>2, NameSeq
  <2>9. x + (y + 6) = x + y + 6 OBVIOUS
  <2> QED BY <2>5, <2>6, <2>7, <2>8, <2>9
<1> QED BY <1>1, <1>2, <1>3 DEF g

\* The first questions of a query are the start of it.
LEMMA SectionPrefix ==
  ASSUME NEW qs, Asked(qs), NEW k \in 0 .. Len(qs), NEW m \in k .. Len(qs)
  PROVE  /\ Len(Section(qs)[k]) <= Len(Section(qs)[m])
         /\ \A i \in 1 .. Len(Section(qs)[k]) : Section(qs)[m][i] = Section(qs)[k][i]
<1> DEFINE g == Section(qs)
           N == Len(qs)
           Is(j) == /\ Len(g[k]) <= Len(g[k + j])
                    /\ \A i \in 1 .. Len(g[k]) : g[k + j][i] = g[k][i]
           H == {j \in 0 .. N - k : Is(j)}
<1>1. N \in Nat /\ k \in 0 .. N /\ m \in k .. N BY DEF Asked
<1>2. /\ \A j \in 0 .. N : Len(g[j]) \in Nat
      /\ \A j \in 1 .. N : /\ Joined(g[j], g[j - 1], QuestBytes(qs[j]), Byte)
                           /\ Len(QuestBytes(qs[j])) \in Nat
  <2>1. ASSUME NEW j \in 1 .. N PROVE Len(QuestBytes(qs[j])) \in Nat
    <3>1. IsName(qs[j]) BY DEF Asked
    <3>2. QuestBytes(qs[j]) \in Seq(Byte) BY <3>1, QuestBytesAre
    <3> QED BY <3>2
  <2> QED BY <2>1, SectionLens
<1> HIDE DEF g, N
<1>3. 0 \in H
  <2>1. k + 0 = k /\ 0 \in 0 .. N - k BY <1>1
  <2>2. Len(g[k]) <= Len(g[k]) BY <1>1, <1>2
  <2> QED BY <2>1, <2>2
<1>4. ASSUME NEW j \in 1 .. N - k, j - 1 \in H PROVE j \in H
  <2>1. /\ j \in 0 .. N - k /\ k + j \in 1 .. N /\ k + (j - 1) = k + j - 1
        /\ k + j - 1 \in 0 .. N
    BY <1>1
  <2>2. Is(j - 1) BY <1>4
  <2>3. Joined(g[k + j], g[k + j - 1], QuestBytes(qs[k + j]), Byte)
    BY <2>1, <1>2
  <2>4. PICK x \in Nat : x = Len(g[k + j - 1]) BY <1>2, <2>1
  <2>5. PICK y \in Nat : y = Len(QuestBytes(qs[k + j])) BY <1>2, <2>1
  <2>6. PICK z \in Nat : z = Len(g[k]) BY <1>2, <1>1
  <2>7. Len(g[k + j]) = x + y BY <2>3, <2>4, <2>5 DEF Joined
  <2>8. z <= x BY <2>2, <2>1, <2>4, <2>6
  <2>9. z <= x + y BY <2>8
  <2>10. ASSUME NEW i \in 1 .. z PROVE g[k + j][i] = g[k][i]
    <3>1. i \in 1 .. x BY <2>8
    <3>2. g[k + j][i] = g[k + j - 1][i] BY <3>1, <2>3, <2>4 DEF Joined
    <3> QED BY <3>2, <2>2, <2>1, <2>6
  <2>11. Is(j) BY <2>6, <2>7, <2>9, <2>10
  <2> QED BY <2>1, <2>11
<1>5. N - k \in Nat /\ m - k \in 0 .. N - k /\ k + (m - k) = m BY <1>1
<1>6. m - k \in H
  <2> HIDE DEF H
  <2> QED BY <1>3, <1>4, <1>5, UpTo
<1>7. Is(m - k) BY <1>6
<1> QED BY <1>5, <1>7 DEF g

\* A query is a header and its questions, each in the place Section gives it.
LEMMA QueryIs ==
  ASSUME NEW qs, Asked(qs)
  PROVE  /\ Query(qs) \in Seq(Byte)
         /\ Len(Query(qs)) = HeaderLen + Len(Section(qs)[Len(qs)])
         /\ \A q \in 1 .. Len(qs) : \A i \in 1 .. Len(Section(qs)[q]) :
              /\ Len(Section(qs)[q]) <= Len(Section(qs)[Len(qs)])
              /\ Query(qs)[HeaderLen + i] = Section(qs)[q][i]
<1> DEFINE h == [k \in 1 .. 12 |-> 0]
           g == Section(qs)
           N == Len(qs)
<1>1. N \in Nat /\ N \in 0 .. N BY DEF Asked
<1>2. h \in Seq(Byte) /\ Len(h) = 12 BY DEF Byte
<1>3. g[N] \in Seq(Byte) BY <1>1, SectionIs
<1>4. Query(qs) = h \o g[N] BY DEF Query
<1> HIDE DEF h
<1>5. Joined(h \o g[N], h, g[N], Byte)
  <2> HIDE DEF g, N
  <2> QED BY <1>2, <1>3, CatIs
<1>6. ASSUME NEW q \in 1 .. N, NEW i \in 1 .. Len(g[q])
      PROVE  Len(g[q]) <= Len(g[N]) /\ Query(qs)[HeaderLen + i] = g[q][i]
  <2>1. q \in 0 .. N /\ N \in q .. N BY <1>1
  <2>2. Len(g[q]) <= Len(g[N]) /\ \A j \in 1 .. Len(g[q]) : g[N][j] = g[q][j]
    BY <2>1, SectionPrefix
  <2>3. Len(g[q]) \in Nat /\ Len(g[N]) \in Nat BY <2>1, <1>1, SectionLens
  <2> HIDE DEF g, N
  <2>4. i \in 1 .. Len(g[N]) BY <2>2, <2>3
  <2>5. (h \o g[N])[12 + i] = g[N][i] BY <1>2, <1>5, <2>4 DEF Joined
  <2> QED BY <2>2, <2>5, <1>4
<1> QED BY <1>2, <1>4, <1>5, <1>6 DEF Joined

\* The message starts with the query.
QueryKept ==
  /\ Asked(quests) /\ Len(quests) >= 1
  /\ msg \in Seq(Byte)
  /\ Len(Query(quests)) <= Len(msg)
  /\ Extends(msg, Query(quests), Len(Query(quests)))

\* Where the questions are
LEMMA QuestPlaces ==
  ASSUME Asked(quests)
  PROVE  /\ QuestAt(1) = 12
         /\ \A q \in 1 .. Len(quests) + 1 : QuestAt(q) \in Nat /\ QuestAt(q) >= 12
         /\ \A q \in 1 .. Len(quests) : /\ Len(quests[q]) \in Nat
                                        /\ QuestAt(q + 1) = QuestAt(q) + Len(quests[q]) + 6
         /\ QuestAt(Len(quests) + 1) = Len(Query(quests))
<1> DEFINE g == Section(quests)
           N == Len(quests)
<1>1. N \in Nat BY DEF Asked
<1>2. /\ Len(g[0]) = 0 /\ \A k \in 0 .. N : Len(g[k]) \in Nat
      /\ \A k \in 1 .. N : Len(g[k]) = Len(g[k - 1]) + Len(quests[k]) + 6
  BY SectionLens
<1>3. \A q : QuestAt(q) = 12 + Len(g[q - 1]) BY DEF QuestAt
<1>4. Len(Query(quests)) = 12 + Len(g[N]) BY QueryIs
<1> HIDE DEF g, N
<1>5. QuestAt(1) = 12
  <2>1. 1 - 1 = 0 /\ 12 + 0 = 12 OBVIOUS
  <2> QED BY <1>2, <1>3, <2>1
<1>6. ASSUME NEW q \in 1 .. N + 1 PROVE QuestAt(q) \in Nat /\ QuestAt(q) >= 12
  <2>1. q - 1 \in 0 .. N BY <1>1
  <2>2. PICK x \in Nat : x = Len(g[q - 1]) BY <1>2, <2>1
  <2>3. 12 + x \in Nat /\ 12 + x >= 12 OBVIOUS
  <2> QED BY <1>3, <2>2, <2>3
<1>7. ASSUME NEW q \in 1 .. N
      PROVE  Len(quests[q]) \in Nat /\ QuestAt(q + 1) = QuestAt(q) + Len(quests[q]) + 6
  <2>1. q - 1 \in 0 .. N /\ q + 1 - 1 = q BY <1>1
  <2>2. PICK x \in Nat : x = Len(g[q - 1]) BY <1>2, <2>1
  <2>3. PICK y \in Nat : y = Len(quests[q])
    <3>1. IsName(quests[q]) BY DEF Asked, N
    <3> QED BY <3>1, NameSeq
  <2>4. 12 + (x + y + 6) = 12 + x + y + 6 OBVIOUS
  <2>5. Len(g[q]) = x + y + 6 BY <1>2, <2>2, <2>3
  <2>6. QuestAt(q) = 12 + Len(g[q - 1]) /\ QuestAt(q + 1) = 12 + Len(g[q + 1 - 1])
    BY ONLY <1>3
  <2> QED BY ONLY <2>1, <2>2, <2>3, <2>4, <2>5, <2>6
<1>8. QuestAt(N + 1) = Len(Query(quests))
  <2>1. PICK n \in Nat : n = N + 1 BY <1>1
  <2>2. n - 1 = N BY <1>1, <2>1
  <2>3. QuestAt(n) = 12 + Len(g[n - 1]) BY ONLY <1>3
  <2> QED BY ONLY <2>1, <2>2, <2>3, <1>4
<1> QED BY <1>5, <1>6, <1>7, <1>8 DEF N

\* The questions are in order, and all before the end of the query.
LEMMA QuestOrder ==
  ASSUME Asked(quests), NEW q \in 1 .. Len(quests)
  PROVE  QuestAt(q) + Len(quests[q]) + 6 <= Len(Query(quests))
<1> DEFINE g == Section(quests)
           N == Len(quests)
<1>1. N \in Nat /\ q \in 0 .. N /\ N \in q .. N /\ N \in 0 .. N BY DEF Asked
<1>2. Len(g[q]) <= Len(g[N]) BY <1>1, SectionPrefix
<1>3. Len(g[q]) \in Nat /\ Len(g[N]) \in Nat BY <1>1, SectionLens
<1>4. QuestAt(q + 1) = 12 + Len(g[q])
  <2>1. q + 1 - 1 = q OBVIOUS
  <2> QED BY <2>1 DEF QuestAt
<1>5. Len(Query(quests)) = 12 + Len(g[N]) BY QueryIs
<1>6. QuestAt(q + 1) = QuestAt(q) + Len(quests[q]) + 6 BY QuestPlaces
<1> HIDE DEF g
<1>7. 12 + Len(g[q]) <= 12 + Len(g[N]) BY <1>2, <1>3
<1> QED BY <1>4, <1>5, <1>6, <1>7

\* A question of the message is its name as labels, with its end.
LEMMA QuestIs ==
  ASSUME QueryKept, NEW q \in 1 .. Len(quests)
  PROVE  /\ IsName(quests[q])
         /\ QuestAt(q) \in Nat
         /\ QuestAt(q) + Len(quests[q]) + 6 <= Len(msg)
         /\ \A i \in 1 .. Len(quests[q]) + 2 :
              msg[QuestAt(q) + i] = inetFormat(quests[q])[i]
         /\ Literal(msg, QuestAt(q), quests[q], Len(quests[q]) + 1)
<1> DEFINE t == quests[q]
           Q == Query(quests)
           g == Section(quests)
           o == QuestAt(q)
<1>1. /\ Asked(quests) /\ msg \in Seq(Byte) /\ Len(Q) <= Len(msg)
      /\ \A i \in 1 .. Len(Q) : msg[i] = Q[i]
  BY DEF QueryKept, Extends
<1>2. Len(quests) \in Nat /\ IsName(t) BY <1>1 DEF Asked
<1>3. Len(t) \in Nat BY <1>2, NameSeq
<1>4. q \in 1 .. Len(quests) + 1 /\ q - 1 \in 0 .. Len(quests) BY <1>2
<1>5. o \in Nat /\ o >= 12 BY <1>1, <1>4, QuestPlaces
<1>6. o + Len(t) + 6 <= Len(Q) BY <1>1, QuestOrder
<1>7. Len(msg) \in Nat /\ Len(Q) \in Nat
  <2>1. Q \in Seq(Byte) BY <1>1, QueryIs
  <2> QED BY <1>1, <2>1
<1>8. /\ Joined(g[q], g[q - 1], QuestBytes(t), Byte)
      /\ Len(g[q - 1]) \in Nat
  BY <1>1, <1>4, SectionLens
<1>9. \A i \in 1 .. Len(g[q]) : Q[12 + i] = g[q][i] BY <1>1, QueryIs
<1>10. o = 12 + Len(g[q - 1]) BY DEF QuestAt
<1>11. /\ Len(QuestBytes(t)) = Len(t) + 6
       /\ \A i \in 1 .. Len(t) + 2 : QuestBytes(t)[i] = inetFormat(t)[i]
  BY <1>2, QuestBytesAre
<1> HIDE DEF t, Q, g, o
<1>12. ASSUME NEW i \in 1 .. Len(t) + 2 PROVE msg[o + i] = inetFormat(t)[i]
  <2>1. PICK x \in Nat : x = Len(g[q - 1]) BY <1>8
  <2>2. PICK y \in Nat : y = Len(t) BY <1>3
  <2>3. /\ i \in 1 .. y + 6 /\ x + i \in 1 .. x + (y + 6) /\ 12 + x + i = 12 + (x + i)
        /\ i \in 1 .. y + 2
    BY <2>2
  <2>4. Len(g[q]) = x + (y + 6) /\ g[q][x + i] = QuestBytes(t)[i]
    BY <2>1, <2>2, <2>3, <1>8, <1>11 DEF Joined
  <2>5. Q[12 + (x + i)] = g[q][x + i] BY <1>9, <2>3, <2>4
  <2>6. QuestBytes(t)[i] = inetFormat(t)[i] BY <1>11
  <2>7. Q[12 + x + i] = inetFormat(t)[i] BY <2>3, <2>4, <2>5, <2>6
  <2>8. o = 12 + x BY <1>10, <2>1
  <2>9. o + i \in 1 .. Len(Q)
    <3>1. o + y + 6 <= Len(Q) BY <1>6, <2>2
    <3> QED BY ONLY <3>1, <2>3, <1>5, <1>7, y \in Nat, i \in 1 .. y + 6
  <2> QED BY <1>1, <2>7, <2>8, <2>9
<1>13. Literal(msg, o, t, Len(t) + 1)
  <2>1. Len(t) + 2 \in Marks(t) /\ inetFormat(t)[Len(t) + 2] = 0
    BY <1>2, NameEnds, FormIs
  <2>2. /\ Len(t) + 1 \in Nat /\ Len(t) + 1 + 1 = Len(t) + 2 /\ o + (Len(t) + 1) < Len(msg)
        /\ o + (Len(t) + 1) + 1 = o + (Len(t) + 2) /\ Len(t) + 2 \in 1 .. Len(t) + 2
        /\ \A i \in 1 .. Len(t) + 1 : i \in 1 .. Len(t) + 2
    <3>1. PICK y \in Nat : y = Len(t) BY <1>3
    <3>2. o + y + 6 <= Len(Q) /\ Len(Q) <= Len(msg) BY <1>6, <1>1, <3>1
    <3>3. /\ y + 1 \in Nat /\ y + 1 + 1 = y + 2 /\ o + (y + 1) < Len(msg)
          /\ o + (y + 1) + 1 = o + (y + 2) /\ y + 2 \in 1 .. y + 2
          /\ \A i \in 1 .. y + 1 : i \in 1 .. y + 2
      BY ONLY <3>2, <1>5, <1>7, y \in Nat
    <3> QED BY <3>1, <3>3
  <2>3. msg[o + (Len(t) + 1) + 1] = 0 BY <2>1, <2>2, <1>12
  <2> QED BY <2>1, <2>2, <2>3, <1>5, <1>12 DEF Literal
<1>14. o + Len(t) + 6 <= Len(msg)
  <2>1. PICK y \in Nat : y = Len(t) BY <1>3
  <2>2. o + y + 6 <= Len(Q) /\ Len(Q) <= Len(msg) BY <1>6, <1>1, <2>1
  <2>3. o + y + 6 <= Len(msg) BY ONLY <2>2, <1>5, <1>7, y \in Nat
  <2> QED BY <2>1, <2>3
<1> QED BY <1>2, <1>5, <1>12, <1>13, <1>14 DEF t, o

\* The pointer to a question falls short of it by the questions before.
LEMMA NamePointerIs ==
  ASSUME Asked(quests), NEW q \in 1 .. Len(quests)
  PROVE  NamePointer(q) = QuestAt(q) - (q - 1) /\ NamePointer(q) \in Nat
<1> DEFINE N == Len(quests)
           f == [k \in 0 .. q - 1 |-> QuestAt(k + 1) - k]
           Is(to) == to = [k \in 0 .. q - 1 |->
                             IF k = 0 THEN HeaderLen ELSE to[k - 1] + Len(quests[k]) + 1 + 4]
           H == {k \in 0 .. q - 1 : /\ \A to : Is(to) => to[k] = QuestAt(k + 1) - k
                                    /\ QuestAt(k + 1) - k >= 12}
<1>1. N \in Nat /\ q \in 1 .. N BY DEF Asked
<1>2. /\ QuestAt(1) = 12
      /\ \A k \in 1 .. N + 1 : QuestAt(k) \in Nat
      /\ \A k \in 1 .. N : /\ Len(quests[k]) \in Nat
                           /\ QuestAt(k + 1) = QuestAt(k) + Len(quests[k]) + 6
  BY QuestPlaces
<1>3. ASSUME NEW k \in 1 .. q - 1
      PROVE  /\ QuestAt(k + 1) - k = (QuestAt(k) - (k - 1)) + Len(quests[k]) + 1 + 4
             /\ QuestAt(k) - (k - 1) >= 12 => QuestAt(k + 1) - k >= 12
             /\ QuestAt(k) \in Nat
  <2>1. k \in 1 .. N /\ k \in 1 .. N + 1 BY <1>1
  <2>2. PICK x \in Nat : x = QuestAt(k) BY <1>2, <2>1
  <2>3. PICK y \in Nat : y = Len(quests[k]) BY <1>2, <2>1
  <2>4. /\ (x + y + 6) - k = (x - (k - 1)) + y + 1 + 4
        /\ x - (k - 1) >= 12 => (x + y + 6) - k >= 12
    OBVIOUS
  <2>5. QuestAt(k + 1) = x + y + 6 BY <1>2, <2>1, <2>2, <2>3
  <2> QED BY <2>2, <2>3, <2>4, <2>5
<1>4. Is(f)
  <2>1. ASSUME NEW k \in 0 .. q - 1
        PROVE  QuestAt(k + 1) - k
                 = IF k = 0 THEN HeaderLen ELSE f[k - 1] + Len(quests[k]) + 1 + 4
    <3>1. CASE k = 0
      <4>1. QuestAt(0 + 1) - 0 = 12 BY <1>2
      <4> QED BY <3>1, <4>1
    <3>2. CASE k # 0
      <4>1. k \in 1 .. q - 1 /\ k - 1 \in 0 .. q - 1 /\ k - 1 + 1 = k BY <3>2
      <4>2. f[k - 1] = QuestAt(k) - (k - 1) BY <4>1
      <4>3. QuestAt(k + 1) - k = (QuestAt(k) - (k - 1)) + Len(quests[k]) + 1 + 4
        BY <1>3, <4>1
      <4> HIDE DEF f
      <4> QED BY <3>2, <4>2, <4>3
    <3> QED BY <3>1, <3>2
  <2> DEFINE e == [k \in 0 .. q - 1 |->
                     IF k = 0 THEN HeaderLen ELSE f[k - 1] + Len(quests[k]) + 1 + 4]
  <2>2. f = e
    <3>1. \A k \in 0 .. q - 1 : f[k] = QuestAt(k + 1) - k OBVIOUS
    <3> QED BY <2>1
  <2> QED BY <2>2
<1> DEFINE g == CHOOSE f0 : Is(f0)
<1>5. Is(g) BY <1>4
<1>6. NamePointer(q) = g[q - 1] BY DEF NamePointer
<1> HIDE DEF g
<1>7. 0 \in H
  <2>1. \A to : Is(to) => to[0] = 12
    <3>1. 0 \in 0 .. q - 1 BY <1>1
    <3> QED BY <3>1
  <2>2. QuestAt(0 + 1) - 0 = 12 BY <1>2
  <2>3. 0 \in 0 .. q - 1 BY <1>1
  <2> HIDE DEF Is
  <2> QED BY <2>1, <2>2, <2>3
<1>8. ASSUME NEW i \in 1 .. q - 1, i - 1 \in H PROVE i \in H
  <2>1. i \in 0 .. q - 1 /\ i # 0 /\ i - 1 + 1 = i BY <1>1
  <2>2. ASSUME NEW to, Is(to) PROVE to[i] = QuestAt(i + 1) - i
    <3>1. to[i] = to[i - 1] + Len(quests[i]) + 1 + 4 BY <2>1, <2>2
    <3>2. to[i - 1] = QuestAt(i) - (i - 1) BY <1>8, <2>1, <2>2
    <3>3. QuestAt(i + 1) - i = (QuestAt(i) - (i - 1)) + Len(quests[i]) + 1 + 4 BY <1>3
    <3> QED BY <3>1, <3>2, <3>3
  <2>3. QuestAt(i + 1) - i >= 12
    <3>1. QuestAt(i) - (i - 1) >= 12 BY <1>8, <2>1
    <3> QED BY <3>1, <1>3
  <2> HIDE DEF Is
  <2> QED BY <2>1, <2>2, <2>3
<1>9. q - 1 \in H
  <2> HIDE DEF H
  <2>1. q - 1 \in Nat /\ q - 1 \in 0 .. q - 1 BY <1>1
  <2> QED BY <2>1, <1>7, <1>8, UpTo
<1>10. q - 1 + 1 = q BY <1>1
<1>11. NamePointer(q) = QuestAt(q) - (q - 1) /\ QuestAt(q) - (q - 1) >= 12
  <2> HIDE DEF Is
  <2> QED BY <1>5, <1>6, <1>9, <1>10
<1>12. QuestAt(q) - (q - 1) \in Nat
  <2>1. q \in 1 .. N + 1 BY <1>1
  <2>2. PICK x \in Nat : x = QuestAt(q) BY <1>2, <2>1
  <2>3. x - (q - 1) \in Nat
    <3>1. x - (q - 1) >= 12 BY <1>11, <2>2
    <3> QED BY <3>1, <1>1
  <2> QED BY <2>2, <2>3
<1> QED BY <1>11, <1>12

\* Behind a name comes what follows its 0 or its pointer.
LEMMA AfterNameIs ==
  ASSUME msg \in Seq(Nat), NEW d, NEW t, IsName(t), NEW cut, Literal(msg, d, t, cut)
  PROVE  AfterName(d) = IF msg[d + cut + 1] = 0 THEN d + cut + 1 ELSE d + cut + 2
<1>1. MaxOf(Labels(msg, d)) = d + cut BY LiteralLabels
<1> QED BY <1>1 DEF AfterName, At

----------------------------------------------------------------------------
(* The inductive invariant *)

\* Where the answer number k starts, or would start
Place(k) == IF k <= Len(wanted) THEN wanted[k].at ELSE Len(msg)

\* The data of an answer is its name: all its labels and a 0, or some of them
\* and a pointer.  Where it points to, the rest of the name could be read before
\* the answer was there.
Named(w) ==
  \E cut \in 0 .. Len(w.text) + 1 :
    /\ Literal(msg, DataAt(w), w.text, cut)
    /\ \/ /\ cut = Len(w.text) + 1 /\ msg[DataAt(w) + cut + 1] = 0
          /\ EndOf(w) = DataAt(w) + cut + 1
       \/ /\ cut < Len(w.text) + 1 /\ msg[DataAt(w) + cut + 1] >= 192
          /\ EndOf(w) = DataAt(w) + cut + 2
          /\ Readable(msg, w.at, Leads(msg, DataAt(w) + cut), Rest(w.text, cut + 1))

\* What is in the message for the answer w, up to the offset end.
Laid(w, end) ==
  /\ w.at + 12 <= end /\ end <= Len(msg) /\ EndOf(w) = end
  /\ msg[w.at + 1] >= 192
  /\ Word(w.at + 2) = w.type
  /\ relay => Leads(msg, w.at) = NamePointer(w.quest)
  /\ w.type = A => /\ w.text = Address /\ end = w.at + 16
                   /\ \A i \in 1 .. 4 : msg[w.at + 12 + i] = w.text[i]
  /\ w.type \in NameTypes => w.text \in Targets
  /\ w.type \in NameTypes /\ Sound(w) => Named(w)

Answer == [quest : 1 .. Len(quests), type : Types, text : {Address} \cup Targets, at : Nat]

\* The answers follow the query and one another.
Answered ==
  /\ wanted \in Seq(Answer)
  /\ Place(1) = Len(Query(quests))
  /\ \A k \in 1 .. Len(wanted) : Laid(wanted[k], Place(k + 1))

Asking ==
  /\ quests \in Seq(QNames) /\ relay \in BOOLEAN
  /\ Len(msg) <= BUFFER_SIZE
  /\ QueryKept

\* The name of w is being put together: the part up to a mark is in temp, and zip
\* leads to the rest.  Or it is there.
Reading(w) ==
  /\ Len(names) = Len(quests) /\ Len(parsed) < Len(wanted)
  /\ w.type \in NameTypes
  /\ step = "expand" =>
       \E k \in Marks(w.text) : /\ temp = SubSeq(inetFormat(w.text), 1, k - 1)
                                /\ Readable(msg, w.at, zip, Rest(w.text, k))
  /\ step = "read" => temp = inetFormat(w.text)

\* How far the parser is: what it has parsed is what was put in, and bufPos is
\* where the next part starts.
Progress ==
  /\ names \in Seq(QNames) /\ Len(names) <= Len(quests)
  /\ \A i \in 1 .. Len(names) : names[i] = quests[i]
  /\ parsed \in Seq([type : Types, text : {Address} \cup Targets])
  /\ Len(parsed) <= Len(wanted)
  /\ \A i \in 1 .. Len(parsed) :
       parsed[i] = [type |-> wanted[i].type, text |-> wanted[i].text]
  /\ Len(parsed) > 0 => Len(names) = Len(quests)
  /\ bufPos = IF Len(names) < Len(quests) THEN QuestAt(Len(names) + 1)
              ELSE Place(Len(parsed) + 1)

\* The step it is at, and what urlParse holds there.
Parsing ==
  /\ step \in {"answer", "quest", "expand", "read", "done"}
  /\ zip \in 0 .. Len(msg) - 1 /\ temp \in Seq(Byte)
  /\ step = "answer" => names = <<>> /\ parsed = <<>>
  /\ step # "answer" => \A k \in 1 .. Len(wanted) : Sound(wanted[k])
  /\ step \in {"expand", "read"} => Reading(wanted[Len(parsed) + 1])
  /\ step = "done" => Len(names) = Len(quests) /\ Len(parsed) = Len(wanted)

IInv == Asking /\ Answered /\ Progress /\ Parsing
----------------------------------------------------------------------------
(* What the invariant says of the answers *)

\* The rest of a name is all of it, or nothing.
LEMMA RestEnds ==
  ASSUME NEW t, IsName(t)
  PROVE  Rest(t, 1) = t /\ Rest(t, Len(t) + 2) = <<>>
<1>1. t \in Seq(Int) /\ Len(t) \in Nat BY NameSeq
<1>2. SubSeq(t, 1, Len(t)) = t BY <1>1
<1>3. SubSeq(t, Len(t) + 2, Len(t)) = <<>> BY <1>1
<1> QED BY <1>2, <1>3 DEF Rest

\* A pointer leads to the target that is read from it.
LEMMA TargetLeads ==
  ASSUME NEW o \in Int
  PROVE  Target(o) = Leads(msg, o)
<1>1. o + 1 + 1 = o + 2 OBVIOUS
<1> QED BY <1>1 DEF Target, Word, At, Leads

\* A message is a sequence of natural numbers.
LEMMA MsgSeq ==
  ASSUME Asking
  PROVE  /\ msg \in Seq(Nat) /\ msg \in Seq(Byte) /\ Len(msg) \in Nat /\ Asked(quests)
         /\ \A i \in 1 .. Len(msg) : msg[i] \in Byte
<1>1. msg \in Seq(Byte) /\ Asked(quests) BY DEF Asking, QueryKept
<1>2. Byte \subseteq Nat BY DEF Byte
<1>3. msg \in Seq(Nat) BY <1>1, <1>2, SeqMonotonic
<1>4. Len(msg) \in Nat BY <1>1
<1>5. \A i \in 1 .. Len(msg) : msg[i] \in Byte BY <1>1, ElementOfSeq
<1> QED BY <1>1, <1>3, <1>4, <1>5

\* The fields of an answer and the places in it
LEMMA AnswerIs ==
  ASSUME Asking, Answered, NEW k \in 1 .. Len(wanted)
  PROVE  /\ wanted[k] \in Answer
         /\ wanted[k].quest \in 1 .. Len(quests) /\ wanted[k].type \in Types
         /\ wanted[k].text \in {Address} \cup Targets /\ wanted[k].at \in Nat
         /\ Laid(wanted[k], Place(k + 1))
         /\ EndOf(wanted[k]) \in Nat /\ EndOf(wanted[k]) <= Len(msg)
         /\ wanted[k].at + 12 <= EndOf(wanted[k])
         /\ msg[wanted[k].at + 1] >= 192
         /\ DataAt(wanted[k]) \in Nat /\ DataAt(wanted[k]) >= wanted[k].at + 12
<1> DEFINE w == wanted[k]
<1>1. w \in Answer BY DEF Answered
<1>2. w.quest \in 1 .. Len(quests) /\ w.type \in Types
      /\ w.text \in {Address} \cup Targets /\ w.at \in Nat
  BY <1>1 DEF Answer
<1>3. Laid(w, Place(k + 1)) BY DEF Answered
<1>4. EndOf(w) = Place(k + 1) /\ w.at + 12 <= Place(k + 1) /\ Place(k + 1) <= Len(msg)
      /\ msg[w.at + 1] >= 192
  BY <1>3 DEF Laid
<1> HIDE DEF w
<1>5. PICK z : z = Place(k + 1) OBVIOUS
<1>6. Len(msg) \in Nat /\ \A i \in 1 .. Len(msg) : msg[i] \in Byte BY MsgSeq
<1>7. EndOf(w) \in Nat
  <2>1. PICK x \in Nat : x = w.at BY <1>2
  <2> DEFINE y == Word(x + 10)
  <2>2. EndOf(w) = x + 12 + y BY <2>1 DEF EndOf
  <2>3. y = (256 * msg[x + 10 + 1]) + msg[x + 10 + 1 + 1] BY DEF Word, At
  <2>4. PICK n : n = Len(msg) OBVIOUS
  <2> HIDE DEF y
  <2>5. CASE z \in Int
    <3>1. x + 12 <= Len(msg)
      <4>1. x + 12 <= z /\ z <= Len(msg) BY <1>4, <1>5, <2>1
      <4> QED BY ONLY <4>1, <2>5, <1>6, x \in Nat
    <3>2. x + 10 + 1 \in 1 .. Len(msg) /\ x + 10 + 1 + 1 \in 1 .. Len(msg)
      BY ONLY <3>1, <1>6, x \in Nat
    <3>3. PICK p \in Byte : p = msg[x + 10 + 1] BY <3>2, <1>6
    <3>4. PICK r \in Byte : r = msg[x + 10 + 1 + 1] BY <3>2, <1>6
    <3>5. (256 * p) + r \in Nat BY DEF Byte
    <3>6. y \in Nat BY <2>3, <3>3, <3>4, <3>5
    <3> QED BY <2>2, <3>6
  <2>6. z \in Int
    <3>1. CASE k + 1 <= Len(wanted)
      <4>1. wanted \in Seq(Answer) BY DEF Answered
      <4>2. k + 1 \in 1 .. Len(wanted) BY <3>1, <4>1
      <4>3. wanted[k + 1] \in Answer BY <4>1, <4>2
      <4>4. wanted[k + 1].at \in Nat BY <4>3 DEF Answer
      <4> QED BY <3>1, <4>4, <1>5 DEF Place
    <3>2. CASE ~ (k + 1 <= Len(wanted)) BY <3>2, <1>5, <1>6 DEF Place
    <3> QED BY <3>1, <3>2
  <2> QED BY <2>5, <2>6
<1>8. DataAt(w) \in Nat /\ DataAt(w) >= w.at + 12
  <2>1. PICK x \in Nat : x = w.at BY <1>2
  <2>2. Len(Preference(w.type)) \in Nat
    <3>1. Len(Bytes(Addition)) = 2 /\ Len(<<>>) = 0 BY DEF Bytes
    <3> QED BY <3>1 DEF Preference
  <2>3. PICK y \in Nat : y = Len(Preference(w.type)) BY <2>2
  <2>4. x + 12 + y \in Nat /\ x + 12 + y >= x + 12 OBVIOUS
  <2> QED BY <2>1, <2>3, <2>4 DEF DataAt
<1> QED BY <1>1, <1>2, <1>3, <1>4, <1>7, <1>8 DEF w

\* The target of a name in an answer is a name of the assumption.
LEMMA AnswerName ==
  ASSUME Asking, Answered, NEW k \in 1 .. Len(wanted), wanted[k].type \in NameTypes
  PROVE  IsName(wanted[k].text)
<1>1. Laid(wanted[k], Place(k + 1)) BY AnswerIs
<1>2. wanted[k].text \in Targets BY <1>1 DEF Laid
<1> QED BY <1>2, PacketCodecAssumption

\* From each mark of its labels on, the name in an answer can be read.
LEMMA NamedReadable ==
  ASSUME Asking, Answered, NEW k \in 1 .. Len(wanted), wanted[k].type \in NameTypes,
         Named(wanted[k])
  PROVE  \E cut \in Nat :
           /\ Literal(msg, DataAt(wanted[k]), wanted[k].text, cut)
           /\ AfterName(DataAt(wanted[k])) = EndOf(wanted[k])
           /\ \A j \in Marks(wanted[k].text) :
                j <= cut + 1 => Readable(msg, EndOf(wanted[k]), DataAt(wanted[k]) + j - 1,
                                         Rest(wanted[k].text, j))
<1> DEFINE w == wanted[k]
           t == w.text
           d == DataAt(w)
           b == EndOf(w)
<1>1. PICK cut \in 0 .. Len(t) + 1 :
        /\ Literal(msg, d, t, cut)
        /\ \/ cut = Len(t) + 1 /\ msg[d + cut + 1] = 0 /\ b = d + cut + 1
           \/ /\ cut < Len(t) + 1 /\ msg[d + cut + 1] >= 192 /\ b = d + cut + 2
              /\ Readable(msg, w.at, Leads(msg, d + cut), Rest(t, cut + 1))
  BY DEF Named
<1>2. /\ w.at \in Nat /\ b \in Nat /\ b <= Len(msg) /\ msg[w.at + 1] >= 192
      /\ d \in Nat /\ d >= w.at + 12
  BY AnswerIs
<1>3. msg \in Seq(Nat) /\ Len(msg) \in Nat BY MsgSeq
<1>4. IsName(t) BY AnswerName
<1>5. Len(t) \in Nat BY <1>4, NameSeq
<1> HIDE DEF w, t, d, b
<1>6. cut \in Nat BY <1>5
<1>7. AfterName(d) = b
  <2>1. AfterName(d) = IF msg[d + cut + 1] = 0 THEN d + cut + 1 ELSE d + cut + 2
    BY <1>1, <1>3, <1>4, AfterNameIs
  <2>2. msg[d + cut + 1] >= 192 => msg[d + cut + 1] # 0 OBVIOUS
  <2> QED BY <1>1, <2>1, <2>2
<1>8. PICK r \in Nat : r + cut < b /\ Spells(msg, b, d + cut, Rest(t, cut + 1), r)
  <2>1. CASE cut = Len(t) + 1 /\ msg[d + cut + 1] = 0 /\ b = d + cut + 1
    <3>1. cut + 1 = Len(t) + 2 BY <2>1, <1>5
    <3>2. Rest(t, cut + 1) = <<>> BY <3>1, <1>4, RestEnds
    <3>3. d + cut \in 0 .. b - 1 /\ 0 + cut < b /\ 0 \in Nat
      <4>1. b = d + cut + 1 BY <2>1
      <4> QED BY ONLY <4>1, <1>2, <1>6
    <3>4. Spells(msg, b, d + cut, <<>>, 0) BY <3>3, <2>1, <1>2, SpellsEnd
    <3> QED BY <3>2, <3>3, <3>4
  <2>2. CASE /\ cut < Len(t) + 1 /\ msg[d + cut + 1] >= 192 /\ b = d + cut + 2
             /\ Readable(msg, w.at, Leads(msg, d + cut), Rest(t, cut + 1))
    <3> DEFINE l == Leads(msg, d + cut)
               e == Rest(t, cut + 1)
    <3>1. PICK r \in 0 .. w.at - 1 : Spells(msg, w.at, l, e, r)
      BY <2>2, SpellsStep DEF Readable
    <3>2. /\ w.at <= b /\ d + cut \in 0 .. b - 1 /\ r \in 0 .. b - 2 /\ r + 1 \in Nat
          /\ r + 1 + cut < b /\ d + cut + 2 = b
      <4>1. b = d + cut + 2 BY <2>2
      <4>2. PICK x \in Nat : x = w.at BY <1>2
      <4>3. r \in 0 .. x - 1 /\ d >= x + 12 BY <4>2, <1>2
      <4>4. /\ x <= b /\ d + cut \in 0 .. b - 1 /\ r \in 0 .. b - 2 /\ r + 1 \in Nat
            /\ r + 1 + cut < b /\ d + cut + 2 = b
        BY ONLY <4>1, <4>3, <1>2, <1>6, x \in Nat
      <4> QED BY <4>2, <4>4
    <3> HIDE DEF l, e
    <3>3. Extends(msg, msg, w.at) BY DEF Extends
    <3>4. Spells(msg, b, l, e, r) BY <3>1, <3>2, <3>3, <1>2, SpellsGrow
    <3>5. Spells(msg, b, d + cut, e, r + 1)
      <4>1. /\ Spells(msg, b, Leads(msg, d + cut), e, r) /\ msg[d + cut + 1] >= 192
            /\ d + cut \in 0 .. b - 1
        BY <2>2, <3>2, <3>4 DEF l
      <4>2. PICK o : o = d + cut OBVIOUS
      <4>3. o + 2 = b BY <4>2, <3>2
      <4> QED BY <4>1, <4>2, <4>3, <3>2, <1>2, SpellsPointer
    <3> QED BY <3>2, <3>5 DEF e
  <2> QED BY <1>1, <2>1, <2>2
<1>9. ASSUME NEW j \in Marks(t), j <= cut + 1
      PROVE  Readable(msg, b, d + j - 1, Rest(t, j))
  <2>1. Literal(msg, d, t, cut) BY <1>1
  <2> QED BY <2>1, <1>9, <1>8, <1>3, <1>4, <1>2, SpellsName
<1> QED BY <1>1, <1>6, <1>7, <1>9 DEF w, t, d, b

\* A name that can be read in answers: the whole name, from its start on.
LEMMA NamedReads ==
  ASSUME Asking, Answered, NEW k \in 1 .. Len(wanted), wanted[k].type \in NameTypes,
         Named(wanted[k])
  PROVE  /\ ReadName(DataAt(wanted[k])) = wanted[k].text
         /\ AfterName(DataAt(wanted[k])) = EndOf(wanted[k])
<1> DEFINE w == wanted[k]
           t == w.text
           d == DataAt(w)
           b == EndOf(w)
<1>1. PICK cut \in Nat :
        /\ AfterName(d) = b
        /\ \A j \in Marks(t) : j <= cut + 1 => Readable(msg, b, d + j - 1, Rest(t, j))
  BY NamedReadable
<1>2. IsName(t) BY AnswerName
<1>3. 1 \in Marks(t) /\ Rest(t, 1) = t BY <1>2, NameEnds, RestEnds
<1>4. b \in Nat /\ b <= Len(msg) /\ d \in Nat BY AnswerIs
<1>5. msg \in Seq(Nat) BY MsgSeq
<1> HIDE DEF w, t, d, b
<1>6. d + 1 - 1 = d /\ 1 <= cut + 1 BY <1>4
<1>7. Readable(msg, b, d, t) BY <1>1, <1>3, <1>6
<1>8. ReadName(d) = t BY <1>4, <1>5, <1>7, ReadSpelled
<1> QED BY <1>1, <1>8 DEF w, t, d, b
----------------------------------------------------------------------------
(* The invariant holds in the beginning, and through the parser *)

\* A message that is its query, not parsed yet, satisfies the invariant.
LEMMA InitInv == Init => IInv
<1> SUFFICES ASSUME Init PROVE IInv OBVIOUS
<1> DEFINE N == Len(quests)
           Q == Query(quests)
<1>1. /\ relay \in BOOLEAN /\ wanted = <<>> /\ msg = Q /\ Len(msg) <= BUFFER_SIZE
      /\ step = "answer" /\ bufPos = 12 /\ temp = <<>> /\ zip = 0
      /\ names = <<>> /\ parsed = <<>>
  BY DEF Init
<1>2. quests \in Seq(QNames) /\ N \in Nat /\ N >= 1
  <2>1. PICK n \in 1 .. MaxQuests : quests \in [1 .. n -> QNames] BY DEF Init
  <2>2. n \in Nat /\ n >= 1 BY PacketCodecAssumption
  <2>3. quests \in Seq(QNames) BY <2>1, <2>2
  <2>4. Len(quests) = n BY <2>1, <2>2, <2>3
  <2> QED BY <2>2, <2>3, <2>4
<1>3. Asked(quests)
  <2>1. \A k \in 1 .. N : quests[k] \in QNames BY <1>2
  <2>2. \A k \in 1 .. N : IsName(quests[k]) BY <2>1, PacketCodecAssumption
  <2> QED BY <1>2, <2>2 DEF Asked
<1>4. Q \in Seq(Byte) BY <1>3, QueryIs
<1>5. Len(Q) \in Nat /\ Len(Q) >= 12 /\ QuestAt(1) = 12
  <2>1. N + 1 \in 1 .. N + 1 BY <1>2
  <2>2. QuestAt(N + 1) \in Nat /\ QuestAt(N + 1) >= 12 BY <1>3, <2>1, QuestPlaces
  <2>3. QuestAt(N + 1) = Len(Q) /\ QuestAt(1) = 12 BY <1>3, QuestPlaces
  <2> QED BY <2>2, <2>3
<1> HIDE DEF N, Q
<1>6. Asking
  <2>1. Len(Q) <= Len(msg) /\ Extends(msg, Q, Len(Q)) BY <1>1, <1>5 DEF Extends
  <2> QED BY <1>1, <1>2, <1>3, <1>4, <2>1 DEF Asking, QueryKept, N, Q
<1>7. Len(wanted) = 0 /\ Len(names) = 0 /\ Len(parsed) = 0 BY <1>1
<1>8. Answered
  <2>1. Place(1) = Len(Q) BY <1>1, <1>7 DEF Place
  <2>2. wanted \in Seq(Answer) BY <1>1
  <2>3. 1 .. Len(wanted) = {} BY <1>7
  <2> QED BY <2>1, <2>2, <2>3 DEF Answered, Q
<1>9. Progress
  <2>1. names \in Seq(QNames) /\ parsed \in Seq([type : Types, text : {Address} \cup Targets])
    BY <1>1
  <2>2. 0 < N /\ 0 <= N /\ 0 + 1 = 1 /\ ~ (0 > 0) /\ 0 <= 0 /\ 1 .. 0 = {} BY <1>2
  <2>3. bufPos = IF Len(names) < Len(quests) THEN QuestAt(Len(names) + 1)
                 ELSE Place(Len(parsed) + 1)
    BY <1>1, <1>5, <1>7, <2>2 DEF N
  <2> QED BY <1>1, <1>7, <2>1, <2>2, <2>3 DEF Progress, N
<1>10. Parsing
  <2>1. temp \in Seq(Byte) BY <1>1
  <2>2. zip \in 0 .. Len(msg) - 1
    <3>1. 0 \in 0 .. Len(Q) - 1 BY <1>5
    <3> QED BY <1>1, <3>1
  <2>3. step \notin {"expand", "read", "done"} BY <1>1
  <2> QED BY <1>1, <1>7, <2>1, <2>2, <2>3 DEF Parsing
<1> QED BY <1>6, <1>8, <1>9, <1>10 DEF IInv

\* What depends on the message and on what went into it only
LEMMA Frame ==
  ASSUME UNCHANGED <<made, msg>>
  PROVE  /\ Asking' = Asking /\ Answered' = Answered
         /\ \A k : Place(k)' = Place(k)
         /\ \A q : QuestAt(q)' = QuestAt(q)
         /\ \A w : Sound(w)' = Sound(w)
<1>1. quests' = quests /\ wanted' = wanted /\ relay' = relay /\ msg' = msg BY DEF made
<1>2. Asking' = Asking BY <1>1 DEF Asking, QueryKept
<1>3. \A k : Place(k)' = Place(k) BY <1>1 DEF Place
<1>4. \A q : QuestAt(q)' = QuestAt(q) BY <1>1 DEF QuestAt
<1>5. \A w : Sound(w)' = Sound(w) BY <1>1 DEF Sound, Compressed, Glued
<1>6. \A q : NamePointer(q)' = NamePointer(q) BY <1>1 DEF NamePointer
<1>7. \A w : DataAt(w)' = DataAt(w) /\ EndOf(w)' = EndOf(w) BY <1>1 DEF DataAt, EndOf, Word, At
<1>8. \A o : Word(o)' = Word(o) BY <1>1 DEF Word, At
<1>9. \A w : Named(w)' = Named(w) BY <1>1, <1>7 DEF Named
<1>10. \A w, e : Laid(w, e)' = Laid(w, e) BY <1>1, <1>5, <1>6, <1>7, <1>8, <1>9 DEF Laid
<1>11. Answer' = Answer BY <1>1 DEF Answer
<1>12. Answered' = Answered BY <1>1, <1>3, <1>10, <1>11 DEF Answered
<1> QED BY <1>2, <1>3, <1>4, <1>5, <1>12

\* The parser gets on while the message stays.
LEMMA ProgressIs ==
  ASSUME UNCHANGED <<made, msg>>,
         names' \in Seq(QNames), Len(names') <= Len(quests),
         \A i \in 1 .. Len(names') : names'[i] = quests[i],
         parsed' \in Seq([type : Types, text : {Address} \cup Targets]),
         Len(parsed') <= Len(wanted),
         \A i \in 1 .. Len(parsed') :
           parsed'[i] = [type |-> wanted[i].type, text |-> wanted[i].text],
         Len(parsed') > 0 => Len(names') = Len(quests),
         bufPos' = IF Len(names') < Len(quests) THEN QuestAt(Len(names') + 1)
                   ELSE Place(Len(parsed') + 1)
  PROVE  Progress'
<1>1. quests' = quests /\ wanted' = wanted /\ msg' = msg BY DEF made
<1>2. bufPos' = IF Len(names') < Len(quests')
                THEN HeaderLen + Len(Section(quests')[(Len(names') + 1) - 1])
                ELSE IF Len(parsed') + 1 <= Len(wanted') THEN wanted'[Len(parsed') + 1].at
                     ELSE Len(msg')
  BY <1>1 DEF QuestAt, Place
<1> QED BY <1>1, <1>2 DEF Progress, QuestAt, Place

\* A name found with strlen is the name of the question.
LEMMA QuestText ==
  ASSUME Asking, NEW q \in 1 .. Len(quests), bufPos = QuestAt(q)
  PROVE  /\ MinOf({n \in 0 .. Len(msg) - bufPos - 1 : At(bufPos + n) = 0}) = Len(quests[q]) + 1
         /\ SubSeq(msg, bufPos + 1, bufPos + (Len(quests[q]) + 1) + 1) = inetFormat(quests[q])
<1> DEFINE t == quests[q]
           F == inetFormat(t)
           T == {n \in 0 .. Len(msg) - bufPos - 1 : At(bufPos + n) = 0}
<1>1. /\ IsName(t) /\ bufPos \in Nat /\ bufPos + Len(t) + 6 <= Len(msg)
      /\ \A i \in 1 .. Len(t) + 2 : msg[bufPos + i] = F[i]
  BY QuestIs DEF Asking
<1>2. /\ F \in Seq(0 .. 191) /\ Len(F) = Len(t) + 2 /\ F[Len(t) + 2] = 0
      /\ \A k \in 1 .. Len(t) + 1 : F[k] \in 1 .. 191
  BY <1>1, FormIs
<1>3. PICK y \in Nat : y = Len(t) BY <1>1, NameSeq
<1>4. PICK x \in Nat : x = bufPos BY <1>1
<1>5. PICK z \in Nat : z = Len(msg) BY MsgSeq
<1>6. msg \in Seq(Nat) BY MsgSeq
<1> HIDE DEF t, F
<1>7. x + y + 6 <= z BY <1>1, <1>3, <1>4, <1>5
<1>8. /\ y + 1 \in 0 .. z - x - 1 /\ x + (y + 1) + 1 = x + (y + 2) /\ y + 2 \in 1 .. y + 2
      /\ x + (y + 2) <= z /\ x + 1 = x + 1 /\ y + 2 \in Nat
  BY <1>7
<1>9. T \in SUBSET Nat /\ y + 1 \in T
  <2>1. At(x + (y + 1)) = 0
    <3>1. msg[x + (y + 2)] = 0 BY <1>1, <1>2, <1>3, <1>4, <1>8
    <3> QED BY <3>1, <1>8 DEF At
  <2>2. 0 .. z - x - 1 \subseteq Nat OBVIOUS
  <2> QED BY <2>1, <2>2, <1>4, <1>5, <1>8
<1>10. ASSUME NEW n \in T PROVE y + 1 <= n
  <2>1. n \in Nat /\ At(x + n) = 0 BY <1>9, <1>4
  <2>2. ASSUME n < y + 1 PROVE FALSE
    <3>1. n + 1 \in 1 .. y + 1 /\ n + 1 \in 1 .. y + 2 /\ x + n + 1 = x + (n + 1)
      BY <2>1, <2>2
    <3>2. msg[x + (n + 1)] = F[n + 1] BY <1>1, <1>3, <1>4, <3>1
    <3>3. F[n + 1] \in 1 .. 191 BY <1>2, <1>3, <3>1
    <3>4. msg[x + n + 1] = 0 BY <2>1 DEF At
    <3>5. F[n + 1] = 0 BY ONLY <3>1, <3>2, <3>4
    <3>6. ~ (0 \in 1 .. 191) OBVIOUS
    <3> QED BY ONLY <3>3, <3>5, <3>6
  <2> QED BY <2>1, <2>2
<1>11. MinOf(T) = y + 1
  <2> HIDE DEF T
  <2> QED BY <1>9, <1>10, MinOfEq
<1>12. SubSeq(msg, x + 1, x + (y + 2)) = F
  <2>1. F \in Seq(Int)
    <3>1. 0 .. 191 \subseteq Int OBVIOUS
    <3> QED BY <3>1, <1>2, SeqMonotonic
  <2>2. msg \in Seq(Int)
    <3>1. Nat \subseteq Int OBVIOUS
    <3> QED BY <3>1, <1>6, SeqMonotonic
  <2>3. Len(F) = y + 2 BY <1>2, <1>3
  <2>4. x + (y + 2) <= Len(msg) /\ y + 2 <= Len(F) BY <1>5, <1>8, <2>3
  <2>5. \A i \in 1 .. y + 2 : msg[x + i] = F[i] BY <1>1, <1>3, <1>4
  <2>6. SubSeq(msg, x + 1, x + (y + 2)) = SubSeq(F, 1, y + 2)
    BY ONLY <2>1, <2>2, <2>4, <2>5, <1>8, x \in Nat, SamePart
  <2>7. SubSeq(F, 1, Len(F)) = F BY <2>1
  <2> QED BY <2>3, <2>6, <2>7
<1> QED BY <1>3, <1>4, <1>8, <1>11, <1>12 DEF t, F

\* packetParse takes the next question, and stands where the one after it starts.
LEMMA ParseQuestInv == IInv /\ ParseQuest => IInv'
<1> SUFFICES ASSUME IInv, ParseQuest PROVE IInv' OBVIOUS
<1> DEFINE q == Len(names) + 1
           t == quests[q]
           T == {n \in 0 .. Len(msg) - bufPos - 1 : At(bufPos + n) = 0}
<1>1. Asking /\ Answered /\ Progress /\ Parsing BY DEF IInv
<1>2. /\ step = "quest" /\ Len(names) < Len(quests)
      /\ names' = Append(names, inetParse(SubSeq(msg, bufPos + 1, bufPos + MinOf(T) + 1)))
      /\ bufPos' = bufPos + MinOf(T) + 1 + 4
      /\ UNCHANGED <<made, msg, step, temp, zip, parsed>>
  BY DEF ParseQuest
<1> HIDE DEF T
<1>3. UNCHANGED <<made, msg>> /\ quests' = quests /\ wanted' = wanted /\ msg' = msg
  BY <1>2 DEF made
<1>4. /\ Asking' /\ Answered'
      /\ \A k : Place(k)' = Place(k)
      /\ \A k : QuestAt(k)' = QuestAt(k)
      /\ \A w : Sound(w)' = Sound(w)
  BY <1>1, <1>3, Frame
<1>5. /\ Asked(quests) /\ quests \in Seq(QNames) /\ Len(quests) \in Nat
  BY <1>1, MsgSeq DEF Asking, Asked
<1>6. /\ names \in Seq(QNames) /\ Len(names) \in Nat
      /\ \A i \in 1 .. Len(names) : names[i] = quests[i]
      /\ parsed \in Seq([type : Types, text : {Address} \cup Targets])
      /\ bufPos = QuestAt(q)
  BY <1>1, <1>2 DEF Progress
<1>7. q \in 1 .. Len(quests) /\ q \in Nat BY <1>2, <1>5, <1>6
<1>8. t \in QNames /\ IsName(t) BY <1>5, <1>7 DEF Asked
<1>9. MinOf(T) = Len(t) + 1 /\ SubSeq(msg, bufPos + 1, bufPos + (Len(t) + 1) + 1) = inetFormat(t)
  BY <1>1, <1>6, <1>7, QuestText DEF T
<1>10. names' = Append(names, t) BY <1>2, <1>8, <1>9, RoundTrip
<1>11. bufPos' = QuestAt(q + 1)
  <2>1. QuestAt(q + 1) = QuestAt(q) + Len(t) + 6 BY <1>5, <1>7, QuestPlaces
  <2>2. q \in 1 .. Len(quests) + 1 BY <1>5, <1>7
  <2>3. PICK x \in Nat : x = QuestAt(q) BY <1>5, <2>2, QuestPlaces
  <2>4. PICK y \in Nat : y = Len(t) BY <1>8, NameSeq
  <2>5. x + (y + 1) + 1 + 4 = x + y + 6 OBVIOUS
  <2> QED BY <1>2, <1>6, <1>9, <2>1, <2>3, <2>4, <2>5
<1> HIDE DEF q, t
<1>12. /\ names' \in Seq(QNames) /\ Len(names') = q
       /\ \A i \in 1 .. Len(names) : names'[i] = names[i]
       /\ names'[q] = t
  BY <1>6, <1>8, <1>10, AppendProperties DEF q
<1>13. \A i \in 1 .. q : names'[i] = quests[i]
  <2> TAKE i \in 1 .. q
  <2>1. i \in 1 .. Len(names) \/ i = q BY <1>6 DEF q
  <2> QED BY <2>1, <1>6, <1>12 DEF t
<1>14. parsed = <<>> /\ Len(parsed) = 0
  <2>1. ~ (Len(parsed) > 0)
    <3>1. Len(names) # Len(quests) BY <1>2, <1>5, <1>6
    <3> QED BY <1>1, <3>1 DEF Progress
  <2>2. Len(parsed) \in Nat BY <1>6
  <2>3. Len(parsed) = 0 BY <2>1, <2>2
  <2> QED BY <2>3, <1>6
<1>15. Progress'
  <2>1. bufPos' = IF q < Len(quests) THEN QuestAt(q + 1) ELSE Place(0 + 1)
    <3>1. CASE q < Len(quests) BY <3>1, <1>11
    <3>2. CASE ~ (q < Len(quests))
      <4>1. q = Len(quests) /\ 0 + 1 = 1 BY <3>2, <1>5, <1>7
      <4>2. QuestAt(Len(quests) + 1) = Len(Query(quests)) BY <1>5, QuestPlaces
      <4>3. Place(1) = Len(Query(quests)) BY <1>1 DEF Answered
      <4> QED BY <3>2, <1>11, <4>1, <4>2, <4>3
    <3> QED BY <3>1, <3>2
  <2>2. parsed' = <<>> /\ Len(parsed') = 0 BY <1>2, <1>14
  <2>3. bufPos' = IF Len(names') < Len(quests) THEN QuestAt(Len(names') + 1)
                  ELSE Place(Len(parsed') + 1)
    BY <2>1, <2>2, <1>12
  <2>4. Len(names') <= Len(quests) /\ \A i \in 1 .. Len(names') : names'[i] = quests[i]
    BY <1>12, <1>13, <1>7
  <2>5. /\ ~ (Len(parsed') > 0)
        /\ \A i \in 1 .. Len(parsed') :
             parsed'[i] = [type |-> wanted[i].type, text |-> wanted[i].text]
    BY <2>2
  <2>6. Len(parsed') <= Len(wanted)
    <3>1. wanted \in Seq(Answer) BY <1>1 DEF Answered
    <3>2. Len(wanted) \in Nat BY <3>1
    <3> QED BY <3>2, <2>2
  <2>7. parsed' \in Seq([type : Types, text : {Address} \cup Targets]) BY <1>2, <1>6
  <2> QED BY ONLY <1>3, <1>12, <2>3, <2>4, <2>5, <2>6, <2>7, ProgressIs
<1>16. Parsing'
  <2>1. step' = "quest" /\ zip' = zip /\ temp' = temp /\ msg' = msg BY <1>2
  <2>2. \A k \in 1 .. Len(wanted) : Sound(wanted[k]) BY <1>1, <1>2 DEF Parsing
  <2>3. \A k \in 1 .. Len(wanted') : Sound(wanted[k])' BY <2>2, <1>3, <1>4
  <2>4. zip' \in 0 .. Len(msg') - 1 /\ temp' \in Seq(Byte) BY <2>1, <1>1 DEF Parsing
  <2> QED BY <2>1, <2>3, <2>4, <1>3 DEF Parsing
<1> QED BY <1>4, <1>15, <1>16 DEF IInv

\* The answer the parser is at
LEMMA Current ==
  ASSUME IInv, Len(names) = Len(quests), Len(parsed) < Len(wanted)
  PROVE  /\ Len(parsed) + 1 \in 1 .. Len(wanted)
         /\ bufPos = wanted[Len(parsed) + 1].at
         /\ Type = wanted[Len(parsed) + 1].type
         /\ EndOf(wanted[Len(parsed) + 1]) = bufPos + 12 + RDLen
         /\ Place(Len(parsed) + 1 + 1) = bufPos + 12 + RDLen
         /\ DataAt(wanted[Len(parsed) + 1]) = bufPos + 12 + Len(Preference(Type))
<1> DEFINE n == Len(parsed) + 1
           w == wanted[n]
<1>1. Asking /\ Answered /\ Progress BY DEF IInv
<1>2. Len(parsed) \in Nat /\ Len(wanted) \in Nat
  <2>1. parsed \in Seq([type : Types, text : {Address} \cup Targets]) BY <1>1 DEF Progress
  <2>2. wanted \in Seq(Answer) BY <1>1 DEF Answered
  <2> QED BY <2>1, <2>2
<1>3. n \in 1 .. Len(wanted) /\ n <= Len(wanted) BY <1>2
<1>4. bufPos = Place(n)
  <2>1. ~ (Len(names) < Len(quests))
    <3>1. Len(quests) \in Nat BY <1>1, MsgSeq DEF Asked
    <3> QED BY <3>1
  <2> QED BY <2>1, <1>1 DEF Progress
<1>5. Place(n) = w.at BY <1>3 DEF Place
<1>6. Laid(w, Place(n + 1)) BY <1>1, <1>3, AnswerIs
<1>7. EndOf(w) = Place(n + 1) /\ Word(w.at + 2) = w.type BY <1>6 DEF Laid
<1> HIDE DEF n, w
<1>8. Type = w.type BY <1>4, <1>5, <1>7 DEF Type
<1>9. EndOf(w) = bufPos + 12 + RDLen BY <1>4, <1>5 DEF EndOf, RDLen
<1>10. DataAt(w) = bufPos + 12 + Len(Preference(Type)) BY <1>4, <1>5, <1>8 DEF DataAt
<1> QED BY <1>3, <1>4, <1>5, <1>7, <1>8, <1>9, <1>10 DEF n, w

\* When the text of an answer is known, the parser stands behind it.
LEMMA ParsedIs ==
  ASSUME IInv, Len(names) = Len(quests), Len(parsed) < Len(wanted),
         UNCHANGED <<made, msg, names>>, Parsed(wanted[Len(parsed) + 1].text)
  PROVE  Progress'
<1> DEFINE n == Len(parsed) + 1
           w == wanted[n]
           S == [type : Types, text : {Address} \cup Targets]
           new == [type |-> w.type, text |-> w.text]
<1>1. Asking /\ Answered /\ Progress BY DEF IInv
<1>2. /\ n \in 1 .. Len(wanted) /\ Type = w.type /\ Place(n + 1) = bufPos + 12 + RDLen
  BY Current
<1>3. parsed' = Append(parsed, new) /\ bufPos' = Place(n + 1) BY <1>2 DEF Parsed
<1>4. new \in S
  <2>1. w.type \in Types /\ w.text \in {Address} \cup Targets BY <1>1, <1>2, AnswerIs
  <2> QED BY <2>1
<1>5. /\ parsed \in Seq(S) /\ Len(parsed) \in Nat
      /\ \A i \in 1 .. Len(parsed) :
           parsed[i] = [type |-> wanted[i].type, text |-> wanted[i].text]
  BY <1>1 DEF Progress
<1>6. n = Len(parsed) + 1 /\ new = [type |-> wanted[n].type, text |-> wanted[n].text]
  OBVIOUS
<1>7. n \in Nat BY <1>5
<1> HIDE DEF n, w, S, new
<1>8. /\ parsed' \in Seq(S) /\ Len(parsed') = n
      /\ \A i \in 1 .. Len(parsed) : parsed'[i] = parsed[i]
      /\ parsed'[n] = new
  BY <1>3, <1>4, <1>5, <1>6, AppendProperties
<1>9. ASSUME NEW i \in 1 .. Len(parsed')
      PROVE  parsed'[i] = [type |-> wanted[i].type, text |-> wanted[i].text]
  <2>1. i \in 1 .. Len(parsed) \/ i = n BY <1>5, <1>6, <1>8
  <2> QED BY <2>1, <1>5, <1>6, <1>8
<1>10. /\ UNCHANGED <<made, msg>> /\ names' = names BY DEF made
<1>11. /\ names' \in Seq(QNames) /\ Len(names') <= Len(quests)
       /\ \A i \in 1 .. Len(names') : names'[i] = quests[i]
       /\ Len(names') = Len(quests)
  BY <1>1, <1>10 DEF Progress
<1>12. Len(parsed') <= Len(wanted) BY <1>2, <1>8
<1>13. bufPos' = IF Len(names') < Len(quests) THEN QuestAt(Len(names') + 1)
                 ELSE Place(Len(parsed') + 1)
  <2>1. ~ (Len(quests) < Len(quests))
    <3>1. Len(quests) \in Nat BY <1>1, MsgSeq DEF Asked
    <3> QED BY <3>1
  <2> QED BY <2>1, <1>3, <1>8, <1>11
<1> QED BY ONLY <1>8, <1>9, <1>10, <1>11, <1>12, <1>13, ProgressIs DEF S

\* urlParse is done, and the record has its text.
LEMMA ReadTextInv == IInv /\ ReadText => IInv'
<1> SUFFICES ASSUME IInv, ReadText PROVE IInv' OBVIOUS
<1>1. /\ step = "read" /\ step' = "quest" /\ Parsed(inetParse(temp))
      /\ UNCHANGED <<made, msg, temp, zip, names>>
  BY DEF ReadText
<1>2. Asking /\ Answered /\ Progress /\ Parsing BY DEF IInv
<1> DEFINE w == wanted[Len(parsed) + 1]
<1>3. /\ Len(names) = Len(quests) /\ Len(parsed) < Len(wanted)
      /\ w.type \in NameTypes /\ temp = inetFormat(w.text)
  BY <1>1, <1>2 DEF Parsing, Reading
<1>4. Len(parsed) + 1 \in 1 .. Len(wanted) BY <1>3, Current
<1>5. IsName(w.text) BY <1>2, <1>3, <1>4, AnswerName
<1>6. inetParse(temp) = w.text BY <1>3, <1>5, RoundTrip
<1>7. UNCHANGED <<made, msg>> /\ wanted' = wanted /\ msg' = msg BY <1>1 DEF made
<1>8. Progress' BY <1>1, <1>3, <1>6, ParsedIs
<1>9. Asking' /\ Answered' /\ \A k : Sound(k)' = Sound(k) BY <1>2, <1>7, Frame
<1>10. Parsing'
  <2>1. \A k \in 1 .. Len(wanted') : Sound(wanted[k])' BY <1>1, <1>2, <1>7, <1>9 DEF Parsing
  <2>2. zip' \in 0 .. Len(msg') - 1 /\ temp' \in Seq(Byte) BY <1>1, <1>2, <1>7 DEF Parsing
  <2> QED BY <1>1, <1>7, <2>1, <2>2 DEF Parsing
<1> QED BY <1>8, <1>9, <1>10 DEF IInv

\* What neither the message nor what is parsed of it changes, stays.
LEMMA Waits ==
  ASSUME Asking, Answered, Progress, UNCHANGED <<made, msg, bufPos, names, parsed>>
  PROVE  Asking' /\ Answered' /\ Progress'
<1>1. UNCHANGED <<made, msg>> /\ UNCHANGED <<quests, wanted, msg>> BY DEF made
<1>2. Asking' /\ Answered' BY <1>1, Frame
<1>3. Progress' BY <1>1 DEF Progress, QuestAt, Place
<1> QED BY <1>2, <1>3

\* The message is handed to the parser with answers that can all be read.
LEMMA DeliverInv == IInv /\ Deliver => IInv'
<1> SUFFICES ASSUME IInv, Deliver PROVE IInv' OBVIOUS
<1>1. /\ step' = "quest" /\ \A k \in DOMAIN wanted : Sound(wanted[k])
      /\ UNCHANGED <<made, msg, bufPos, temp, zip, names, parsed>>
  BY DEF Deliver
<1>2. Asking /\ Answered /\ Progress /\ Parsing BY DEF IInv
<1>3. UNCHANGED <<made, msg>> /\ wanted' = wanted /\ msg' = msg BY <1>1 DEF made
<1>4. Asking' /\ Answered' /\ Progress' BY <1>1, <1>2, Waits
<1>5. \A k : Sound(k)' = Sound(k) BY <1>3, Frame
<1>6. \A k \in 1 .. Len(wanted) : Sound(wanted[k])
  <2>1. wanted \in Seq(Answer) BY <1>2 DEF Answered
  <2>2. DOMAIN wanted = 1 .. Len(wanted) BY <2>1
  <2> QED BY <1>1, <2>2
<1>7. Parsing'
  <2>1. \A k \in 1 .. Len(wanted') : Sound(wanted[k])' BY <1>3, <1>5, <1>6
  <2>2. zip' \in 0 .. Len(msg') - 1 /\ temp' \in Seq(Byte) BY <1>1, <1>2, <1>3 DEF Parsing
  <2> QED BY <1>1, <2>1, <2>2, <1>3 DEF Parsing
<1> QED BY <1>4, <1>7 DEF IInv

\* Nothing is left to parse.
LEMMA ParseDoneInv == IInv /\ ParseDone => IInv'
<1> SUFFICES ASSUME IInv, ParseDone PROVE IInv' OBVIOUS
<1>1. /\ step = "quest" /\ step' = "done"
      /\ Len(names) = Len(quests) /\ Len(parsed) = Len(wanted)
      /\ UNCHANGED <<made, msg, bufPos, temp, zip, names, parsed>>
  BY DEF ParseDone
<1>2. Asking /\ Answered /\ Progress /\ Parsing BY DEF IInv
<1>3. UNCHANGED <<made, msg>> /\ wanted' = wanted /\ quests' = quests /\ msg' = msg
  BY <1>1 DEF made
<1>4. Asking' /\ Answered' /\ Progress' BY <1>1, <1>2, Waits
<1>5. \A k : Sound(k)' = Sound(k) BY <1>3, Frame
<1>6. Parsing'
  <2>1. \A k \in 1 .. Len(wanted') : Sound(wanted[k])' BY <1>1, <1>2, <1>3, <1>5 DEF Parsing
  <2>2. zip' \in 0 .. Len(msg') - 1 /\ temp' \in Seq(Byte) BY <1>1, <1>2, <1>3 DEF Parsing
  <2> QED BY <1>1, <2>1, <2>2, <1>3 DEF Parsing
<1> QED BY <1>4, <1>6 DEF IInv

\* The form of a name, as numbers and as bytes
LEMMA FormSeq ==
  ASSUME NEW t, IsName(t)
  PROVE  inetFormat(t) \in Seq(Int) /\ inetFormat(t) \in Seq(Byte)
<1>1. inetFormat(t) \in Seq(0 .. 191) BY FormIs
<1>2. 0 .. 191 \subseteq Int /\ 0 .. 191 \subseteq Byte BY DEF Byte
<1> QED BY <1>1, <1>2, SeqMonotonic

\* Its first bytes are bytes.
LEMMA FormPart ==
  ASSUME NEW t, IsName(t), NEW k \in Marks(t)
  PROVE  SubSeq(inetFormat(t), 1, k - 1) \in Seq(Byte) /\ Len(SubSeq(inetFormat(t), 1, k - 1)) = k - 1
<1> DEFINE F == inetFormat(t)
           j == k - 1
<1>1. F \in Seq(Byte) /\ Len(F) = Len(t) + 2 /\ Len(t) \in Nat BY FormSeq, FormIs, NameSeq
<1>2. k \in 1 .. Len(t) + 2 BY NameEnds
<1>3. j \in Int /\ 1 <= j + 1 /\ j <= Len(F) /\ j - 1 + 1 = j /\ 1 \in Int /\ 1 >= 1
  BY <1>1, <1>2
<1> HIDE DEF F, j
<1>4. SubSeq(F, 1, j) \in Seq(Byte) /\ Len(SubSeq(F, 1, j)) = j - 1 + 1
  BY ONLY <1>1, <1>3, Part
<1> QED BY <1>3, <1>4 DEF F, j

\* The answer whose name is put together
LEMMA ExpandAt ==
  ASSUME IInv, step = "expand"
  PROVE  \E w : /\ w = wanted[Len(parsed) + 1] /\ IsName(w.text) /\ w.type \in NameTypes
                /\ w.at \in Nat /\ w.at + 12 <= Len(msg) /\ msg[w.at + 1] >= 192
                /\ \E k \in Marks(w.text) :
                     /\ temp = SubSeq(inetFormat(w.text), 1, k - 1)
                     /\ Readable(msg, w.at, zip, Rest(w.text, k))
<1> DEFINE w == wanted[Len(parsed) + 1]
<1>1. Asking /\ Answered /\ Progress /\ Parsing BY DEF IInv
<1>2. /\ Len(names) = Len(quests) /\ Len(parsed) < Len(wanted) /\ w.type \in NameTypes
      /\ \E k \in Marks(w.text) : /\ temp = SubSeq(inetFormat(w.text), 1, k - 1)
                                  /\ Readable(msg, w.at, zip, Rest(w.text, k))
  BY <1>1 DEF Parsing, Reading
<1>3. Len(parsed) + 1 \in 1 .. Len(wanted) BY <1>2, Current
<1>4. IsName(w.text) BY <1>1, <1>2, <1>3, AnswerName
<1>5. /\ w.at \in Nat /\ w.at + 12 <= EndOf(w) /\ EndOf(w) <= Len(msg) /\ EndOf(w) \in Nat
      /\ msg[w.at + 1] >= 192
  BY <1>1, <1>3, AnswerIs
<1>6. Len(msg) \in Nat BY <1>1, MsgSeq
<1> HIDE DEF w
<1>7. w.at + 12 <= Len(msg)
  <2>1. PICK x \in Nat : x = w.at BY <1>5
  <2>2. PICK y \in Nat : y = EndOf(w) BY <1>5
  <2>3. x + 12 <= y /\ y <= Len(msg) BY <1>5, <2>1, <2>2
  <2>4. x + 12 <= Len(msg) BY ONLY <2>3, <1>6, x \in Nat, y \in Nat
  <2> QED BY <2>1, <2>4
<1> QED BY <1>2, <1>4, <1>5, <1>7 DEF w

\* A step of urlParse that keeps to the name keeps the invariant.
LEMMA ExpandInv ==
  ASSUME IInv, step = "expand", UNCHANGED <<made, msg, bufPos, names, parsed>>,
         NEW w, w = wanted[Len(parsed) + 1],
         zip' \in 0 .. Len(msg) - 1, temp' \in Seq(Byte),
         \/ /\ step' = "expand"
            /\ \E k \in Marks(w.text) : /\ temp' = SubSeq(inetFormat(w.text), 1, k - 1)
                                        /\ Readable(msg, w.at, zip', Rest(w.text, k))
         \/ step' = "read" /\ temp' = inetFormat(w.text)
  PROVE  IInv'
<1>1. Asking /\ Answered /\ Progress /\ Parsing BY DEF IInv
<1>2. /\ UNCHANGED <<made, msg>> /\ wanted' = wanted /\ quests' = quests /\ msg' = msg
      /\ parsed' = parsed /\ names' = names
  BY DEF made
<1>3. Asking' /\ Answered' /\ Progress' BY <1>1, Waits
<1>4. \A k : Sound(k)' = Sound(k) BY <1>2, Frame
<1>5. Reading(w) BY <1>1 DEF Parsing
<1>6. Reading(w)' 
  <2>1. /\ Len(names') = Len(quests') /\ Len(parsed') < Len(wanted')
        /\ w.type \in NameTypes
    BY <1>2, <1>5 DEF Reading
  <2> QED BY <1>2, <2>1 DEF Reading
<1>7. w' = wanted'[Len(parsed') + 1] /\ w' = w BY <1>2
<1>8. Parsing'
  <2>1. \A k \in 1 .. Len(wanted') : Sound(wanted[k])' BY <1>1, <1>2, <1>4 DEF Parsing
  <2>2. Reading(wanted[Len(parsed) + 1])' BY <1>2, <1>6 DEF Reading
  <2> QED BY <1>2, <2>1, <2>2 DEF Parsing
<1> QED BY <1>3, <1>8 DEF IInv

\* Where nothing is left of a name is its last mark.
LEMMA RestEmpty ==
  ASSUME NEW t, IsName(t), NEW k \in Marks(t), Rest(t, k) = <<>>
  PROVE  k = Len(t) + 2
<1> SUFFICES ASSUME k # Len(t) + 2 PROVE FALSE OBVIOUS
<1>1. IsName(<<>>) BY RestIs
<1>2. Len(<<>>) >= 1 BY <1>1, NameEnds
<1> QED BY <1>2

\* The end of the name
LEMMA ExpandEndInv == IInv /\ ExpandEnd => IInv'
<1> SUFFICES ASSUME IInv, ExpandEnd PROVE IInv' OBVIOUS
<1>1. /\ step = "expand" /\ At(zip) = 0 /\ temp' = Append(temp, 0) /\ step' = "read"
      /\ UNCHANGED <<made, msg, bufPos, zip, names, parsed>>
  BY DEF ExpandEnd
<1>2. PICK w : /\ w = wanted[Len(parsed) + 1] /\ IsName(w.text) /\ w.type \in NameTypes
               /\ w.at \in Nat
               /\ \E k \in Marks(w.text) :
                     /\ temp = SubSeq(inetFormat(w.text), 1, k - 1)
                     /\ Readable(msg, w.at, zip, Rest(w.text, k))
  BY <1>1, ExpandAt
<1> DEFINE t == w.text
           F == inetFormat(t)
<1>3. PICK k \in Marks(t) : /\ temp = SubSeq(F, 1, k - 1)
                            /\ Readable(msg, w.at, zip, Rest(t, k))
  BY <1>2
<1>4. Parsing BY DEF IInv
<1>5. Len(t) \in Nat BY <1>2, NameSeq
<1>6. F \in Seq(Byte) /\ Len(F) = Len(t) + 2 /\ F[Len(t) + 2] = 0
  BY <1>2, FormSeq, FormIs
<1> HIDE DEF t, F
<1>7. k = Len(t) + 2
  <2>1. PICK r : Spells(msg, w.at, zip, Rest(t, k), r) BY <1>3 DEF Readable
  <2>2. \/ msg[zip + 1] = 0 /\ Rest(t, k) = <<>>
        \/ IsName(Rest(t, k)) /\ msg[zip + 1] = LabelLen(Rest(t, k), 1)
        \/ msg[zip + 1] >= 192
    BY <2>1, SpellsStep
  <2>3. msg[zip + 1] = 0 BY <1>1 DEF At
  <2>4. ~ (msg[zip + 1] >= 192) BY <2>3
  <2>5. ~ (IsName(Rest(t, k)) /\ msg[zip + 1] = LabelLen(Rest(t, k), 1))
    <3> SUFFICES ASSUME IsName(Rest(t, k)), LabelLen(Rest(t, k), 1) = 0 PROVE FALSE
      BY <2>3
    <3> DEFINE s == Rest(t, k)
    <3>1. 1 \in Marks(s) /\ Len(s) \in Nat BY NameEnds
    <3>2. 1 # Len(s) + 2 BY <3>1
    <3>3. LabelLen(s, 1) \in 1 .. 63 BY <3>1, <3>2, LabelOf
    <3> QED BY <3>3
  <2>6. Rest(t, k) = <<>> BY <2>2, <2>4, <2>5
  <2> QED BY <2>6, <1>2, RestEmpty DEF t
<1>8. temp' = F
  <2>1. PICK n \in Nat : n = Len(t) + 1 BY <1>5
  <2>2. k - 1 = n /\ Len(F) = n + 1 BY <1>5, <1>6, <1>7, <2>1
  <2>3. temp = SubSeq(F, 1, n) BY <1>3, <2>2
  <2>4. F[n + 1] = 0
    <3>1. n + 1 = Len(t) + 2 BY <1>5, <2>1
    <3> QED BY <1>6, <3>1
  <2>5. /\ SubSeq(F, 1, n) \in Seq(Byte) /\ Len(SubSeq(F, 1, n)) = n
        /\ \A i \in 1 .. n : SubSeq(F, 1, n)[i] = F[i]
    <3>1. n \in Int /\ 1 <= n + 1 /\ n <= Len(F) /\ n - 1 + 1 = n /\ 1 \in Int /\ 1 >= 1
      BY <2>2
    <3>2. /\ SubSeq(F, 1, n) \in Seq(Byte) /\ Len(SubSeq(F, 1, n)) = n - 1 + 1
          /\ \A i \in 1 .. n - 1 + 1 : SubSeq(F, 1, n)[i] = F[1 + i - 1]
      BY ONLY <1>6, <3>1, Part
    <3>3. \A i \in 1 .. n : 1 + i - 1 = i OBVIOUS
    <3> QED BY <3>1, <3>2, <3>3
  <2> DEFINE x == SubSeq(F, 1, n)
             y == Append(x, 0)
  <2> HIDE DEF x
  <2>6. 0 \in Byte BY DEF Byte
  <2>7. /\ y \in Seq(Byte) /\ Len(y) = n + 1
        /\ \A i \in 1 .. n : y[i] = F[i]
        /\ y[n + 1] = 0
    BY <2>5, <2>6, AppendProperties DEF x
  <2> HIDE DEF y
  <2>8. ASSUME NEW i \in 1 .. Len(y) PROVE y[i] = F[i]
    <3>1. i \in 1 .. n \/ i = n + 1 BY <2>7
    <3> QED BY <3>1, <2>4, <2>7
  <2>9. y = F
    <3>1. y \in Seq(Byte) /\ F \in Seq(Byte) /\ Len(y) = Len(F) /\ \A i \in 1 .. Len(y) : y[i] = F[i]
      BY <1>6, <2>2, <2>7, <2>8
    <3> QED BY ONLY <3>1, SeqEqual
  <2> QED BY <1>1, <2>3, <2>9 DEF x, y
<1>9. zip' \in 0 .. Len(msg) - 1 /\ temp' \in Seq(Byte) BY <1>1, <1>4, <1>6, <1>8 DEF Parsing
<1>10. step' = "read" /\ temp' = inetFormat(w.text) BY <1>1, <1>8 DEF F, t
<1>11. UNCHANGED <<made, msg, bufPos, names, parsed>> BY <1>1
<1> QED BY <1>1, <1>2, <1>9, <1>10, <1>11, ExpandInv

\* A pointer leads on to the same rest.
LEMMA ExpandPointerInv == IInv /\ ExpandPointer => IInv'
<1> SUFFICES ASSUME IInv, ExpandPointer PROVE IInv' OBVIOUS
<1>1. /\ step = "expand" /\ IsPointer(zip)
      /\ IF IsPointer(zip + 2)
           THEN zip' = Target(zip) /\ UNCHANGED <<temp, step>>
           ELSE temp' = Append(temp, 0) /\ step' = "read" /\ UNCHANGED zip
      /\ UNCHANGED <<made, msg, bufPos, names, parsed>>
  BY DEF ExpandPointer
<1>2. PICK w : /\ w = wanted[Len(parsed) + 1] /\ IsName(w.text) /\ w.type \in NameTypes
               /\ w.at \in Nat /\ w.at + 12 <= Len(msg) /\ msg[w.at + 1] >= 192
               /\ \E k \in Marks(w.text) :
                     /\ temp = SubSeq(inetFormat(w.text), 1, k - 1)
                     /\ Readable(msg, w.at, zip, Rest(w.text, k))
  BY <1>1, ExpandAt
<1> DEFINE t == w.text
<1>3. PICK k \in Marks(t) : /\ temp = SubSeq(inetFormat(t), 1, k - 1)
                            /\ Readable(msg, w.at, zip, Rest(t, k))
  BY <1>2
<1>4. Parsing /\ Asking BY DEF IInv
<1>5. Len(msg) \in Nat BY <1>4, MsgSeq
<1>6. zip \in Int /\ w.at \in Nat BY <1>2, <1>4, <1>5 DEF Parsing
<1> HIDE DEF t
<1>7. PICK r : Spells(msg, w.at, zip, Rest(t, k), r) BY <1>3 DEF Readable
<1>8. /\ zip + 2 <= w.at /\ (zip + 2 = w.at \/ msg[zip + 3] >= 192)
      /\ \E q : Spells(msg, w.at, Leads(msg, zip), Rest(t, k), q)
  <2>1. \/ msg[zip + 1] = 0
        \/ IsName(Rest(t, k)) /\ msg[zip + 1] = LabelLen(Rest(t, k), 1)
        \/ /\ zip + 2 <= w.at /\ (zip + 2 = w.at \/ msg[zip + 3] >= 192)
           /\ \E q : Spells(msg, w.at, Leads(msg, zip), Rest(t, k), q)
    BY <1>7, SpellsStep
  <2>2. msg[zip + 1] >= 192 BY <1>1 DEF IsPointer, At
  <2>3. ~ (msg[zip + 1] = 0) BY <2>2
  <2>4. ~ (IsName(Rest(t, k)) /\ msg[zip + 1] = LabelLen(Rest(t, k), 1))
    <3> SUFFICES ASSUME IsName(Rest(t, k)), LabelLen(Rest(t, k), 1) >= 192 PROVE FALSE
      BY <2>2
    <3> DEFINE s == Rest(t, k)
    <3>1. 1 \in Marks(s) /\ Len(s) \in Nat BY NameEnds
    <3>2. 1 # Len(s) + 2 BY <3>1
    <3>3. LabelLen(s, 1) \in 1 .. 63 BY <3>1, <3>2, LabelOf
    <3> QED BY <3>3
  <2> QED BY <2>1, <2>3, <2>4
<1>9. IsPointer(zip + 2)
  <2>1. zip + 2 + 1 = zip + 3 /\ (zip + 2 = w.at => zip + 3 = w.at + 1) BY <1>6
  <2>2. msg[zip + 3] >= 192 BY <1>2, <1>8, <2>1
  <2> QED BY <2>1, <2>2 DEF IsPointer, At
<1>10. zip' = Leads(msg, zip) /\ temp' = temp /\ step' = step
  BY <1>1, <1>6, <1>9, TargetLeads
<1>11. Readable(msg, w.at, zip', Rest(t, k)) BY <1>8, <1>10 DEF Readable
<1>12. zip' \in 0 .. Len(msg) - 1
  <2>1. PICK q : Spells(msg, w.at, zip', Rest(t, k), q) BY <1>11 DEF Readable
  <2>2. zip' \in 0 .. w.at - 1 BY <2>1, SpellsStep
  <2>3. PICK x \in Nat : x = w.at BY <1>2
  <2>4. x + 12 <= Len(msg) BY <1>2, <2>3
  <2>5. 0 .. x - 1 \subseteq 0 .. Len(msg) - 1 BY ONLY <2>4, <1>5, x \in Nat
  <2> QED BY <2>2, <2>3, <2>5
<1>13. temp' \in Seq(Byte) BY <1>4, <1>10 DEF Parsing
<1>14. /\ step' = "expand"
       /\ \E i \in Marks(w.text) : /\ temp' = SubSeq(inetFormat(w.text), 1, i - 1)
                                   /\ Readable(msg, w.at, zip', Rest(w.text, i))
  BY <1>1, <1>3, <1>10, <1>11 DEF t
<1>15. UNCHANGED <<made, msg, bufPos, names, parsed>> BY <1>1
<1> QED BY <1>1, <1>2, <1>12, <1>13, <1>14, <1>15, ExpandInv

\* A label in the message continues the form of its name.
LEMMA LabelBytes ==
  ASSUME NEW t, IsName(t), NEW k \in Marks(t), k # Len(t) + 2, NEW m \in Seq(Nat),
         NEW z \in Nat, NEW l, l = LabelLen(t, k), z + 1 + l <= Len(m), m[z + 1] = l,
         \A i \in 1 .. l : m[z + 1 + i] = Rest(t, k)[i]
  PROVE  SubSeq(inetFormat(t), 1, k - 1) \o SubSeq(m, z + 1, z + 1 + l)
           = SubSeq(inetFormat(t), 1, k + l + 1 - 1)
<1> DEFINE F == inetFormat(t)
           j == k - 1
           n == l + 1
<1>1. /\ Len(t) \in Nat /\ k \in 1 .. Len(t) + 1 /\ l \in 1 .. 63 /\ k + l <= Len(t) + 1
  BY LabelOf
<1>2. F \in Seq(Int) /\ Len(F) = Len(t) + 2 BY FormSeq, FormIs
<1>3. F[k] = l BY FormIs
<1>4. /\ Len(Rest(t, k)) = Len(t) + 1 - k
      /\ \A i \in 1 .. Len(Rest(t, k)) : Rest(t, k)[i] = t[k + i - 1]
  BY RestIs
<1>5. ASSUME NEW i \in 1 .. l PROVE F[k + i] = m[z + 1 + i]
  <2>1. \A x \in Marks(t) : x <= k \/ x >= k + l + 1 BY NextMark
  <2>2. PICK p \in 1 .. Len(t) + 1 : p = k + i /\ ~ (p <= k) /\ ~ (p >= k + l + 1)
    BY ONLY <1>1, i \in 1 .. l
  <2>3. p \notin Marks(t) BY <2>1, <2>2
  <2>4. F[p] = t[p - 1]
    <3>1. \A x \in 1 .. Len(t) + 1 : x \notin Marks(t) => inetFormat(t)[x] = t[x - 1]
      BY FormIs
    <3> QED BY <2>3, <3>1
  <2>5. i \in 1 .. Len(Rest(t, k)) BY ONLY <1>1, <1>4, i \in 1 .. l
  <2>6. Rest(t, k)[i] = t[k + i - 1] BY <2>5, <1>4
  <2>7. m[z + 1 + i] = Rest(t, k)[i] OBVIOUS
  <2>8. p - 1 = k + i - 1 BY ONLY <2>2, <1>1, i \in 1 .. l
  <2>9. F[p] = m[z + 1 + i] BY <2>4, <2>6, <2>7, <2>8
  <2> QED BY <2>2, <2>9
<1> HIDE DEF F
<1>6. /\ j \in Nat /\ n \in Nat /\ j + n = k + l /\ j + 1 = k /\ z + n = z + 1 + l
      /\ j + n <= Len(F)
  BY ONLY <1>1, <1>2, z \in Nat
<1>7. SubSeq(m, z + 1, z + n) = SubSeq(F, j + 1, j + n)
  <2>1. m \in Seq(Int)
    <3>1. Nat \subseteq Int OBVIOUS
    <3> QED BY <3>1, SeqMonotonic
  <2>2. ASSUME NEW i \in 1 .. n PROVE m[z + i] = F[j + i]
    <3>1. CASE i = 1 BY <3>1, <1>3, <1>6
    <3>2. CASE i # 1
      <4>1. PICK p \in 1 .. l : i = p + 1 /\ z + i = z + 1 + p /\ j + i = k + p
        <5>1. i - 1 \in 1 .. l BY <1>1, <3>2
        <5>2. i = (i - 1) + 1 /\ z + i = z + 1 + (i - 1) /\ j + i = k + (i - 1)
          BY <1>1, <3>2
        <5> QED BY ONLY <5>1, <5>2
      <4> QED BY <4>1, <1>5
    <3> QED BY <3>1, <3>2
  <2> HIDE DEF j, n
  <2>3. z + n <= Len(m) BY <1>6
  <2>4. j + n <= Len(F) /\ j \in Nat /\ n \in Nat BY <1>6
  <2>5. F \in Seq(Int) /\ Agree(m, z, F, j, n) BY <1>2, <2>2 DEF Agree
  <2> QED BY ONLY <2>1, <2>3, <2>4, <2>5, z \in Nat, SameParts
<1>8. SubSeq(F, 1, j) \o SubSeq(F, j + 1, j + n) = SubSeq(F, 1, j + n)
  <2> DEFINE e == j + n
  <2>1. 1 \in 1 .. Len(F) + 1 /\ j \in 1 - 1 .. Len(F) /\ e \in j .. Len(F)
    <3> HIDE DEF j, n
    <3>1. PICK y \in Nat : y = Len(F) BY <1>1, <1>2
    <3>2. j \in Nat /\ n \in Nat /\ j + n <= y BY <1>6, <3>1
    <3>3. 1 \in 1 .. y + 1 /\ j \in 1 - 1 .. y /\ j + n \in j .. y BY ONLY <3>2, y \in Nat
    <3> QED BY <3>1, <3>3
  <2> HIDE DEF e, j, n
  <2>2. SubSeq(F, 1, j) \o SubSeq(F, j + 1, e) = SubSeq(F, 1, e)
    BY <2>1, <1>2, ConcatAdjacentSubSeq
  <2> QED BY <2>2 DEF e
<1>9. j + n = k + l + 1 - 1 BY <1>1
<1> QED BY <1>6, <1>7, <1>8, <1>9 DEF F

\* A label of the name, and the rest is behind it.
LEMMA ExpandLabelInv == IInv /\ ExpandLabel => IInv'
<1> SUFFICES ASSUME IInv, ExpandLabel PROVE IInv' OBVIOUS
<1>1. /\ step = "expand" /\ At(zip) # 0 /\ ~IsPointer(zip)
      /\ temp' = temp \o SubSeq(msg, zip + 1, zip + 1 + At(zip))
      /\ zip' = zip + At(zip) + 1
      /\ UNCHANGED <<made, msg, step, bufPos, names, parsed>>
  BY DEF ExpandLabel
<1>2. PICK w : /\ w = wanted[Len(parsed) + 1] /\ IsName(w.text) /\ w.type \in NameTypes
               /\ w.at \in Nat /\ w.at + 12 <= Len(msg) /\ msg[w.at + 1] >= 192
               /\ \E k \in Marks(w.text) :
                     /\ temp = SubSeq(inetFormat(w.text), 1, k - 1)
                     /\ Readable(msg, w.at, zip, Rest(w.text, k))
  BY <1>1, ExpandAt
<1> DEFINE t == w.text
<1>3. PICK k \in Marks(t) : /\ temp = SubSeq(inetFormat(t), 1, k - 1)
                            /\ Readable(msg, w.at, zip, Rest(t, k))
  BY <1>2
<1>4. Parsing /\ Asking BY DEF IInv
<1>5. Len(msg) \in Nat /\ msg \in Seq(Nat) BY <1>4, MsgSeq
<1>6. zip \in 0 .. Len(msg) - 1 /\ zip \in Nat /\ w.at \in Nat BY <1>2, <1>4, <1>5 DEF Parsing
<1>7. IsName(t) BY <1>2
<1> HIDE DEF t
<1> DEFINE l == LabelLen(t, k)
           s == Rest(t, k)
<1>8. PICK r : Spells(msg, w.at, zip, s, r) BY <1>3 DEF Readable
<1>9. /\ IsName(s) /\ msg[zip + 1] = LabelLen(s, 1)
      /\ \A i \in 1 .. LabelLen(s, 1) : msg[zip + 1 + i] = s[i]
      /\ \E q : Spells(msg, w.at, zip + 1 + LabelLen(s, 1), Rest(s, LabelLen(s, 1) + 2), q)
  <2>1. msg[zip + 1] # 0 /\ ~ (msg[zip + 1] >= 192) BY <1>1 DEF IsPointer, At
  <2> HIDE DEF s
  <2>2. \/ msg[zip + 1] = 0
        \/ /\ IsName(s) /\ msg[zip + 1] = LabelLen(s, 1)
           /\ \A i \in 1 .. LabelLen(s, 1) : msg[zip + 1 + i] = s[i]
           /\ \E q : Spells(msg, w.at, zip + 1 + LabelLen(s, 1),
                            Rest(s, LabelLen(s, 1) + 2), q)
        \/ msg[zip + 1] >= 192
    BY <1>8, SpellsStep
  <2> QED BY <2>1, <2>2
<1>10. k # Len(t) + 2
  <2> SUFFICES ASSUME k = Len(t) + 2 PROVE FALSE OBVIOUS
  <2>1. s = <<>> BY <1>7, RestEnds
  <2>2. Len(<<>>) >= 1 BY <2>1, <1>9, NameEnds
  <2> QED BY <2>2
<1>11. l \in 1 .. 63 /\ Len(t) \in Nat /\ k \in 1 .. Len(t) + 1 BY <1>7, <1>10, LabelOf
<1>12. LabelLen(s, 1) = l
  <2>1. \A i \in 1 .. Len(s) + 1 : LabelLen(s, i) = LabelLen(t, k + i - 1)
    BY <1>7, <1>10, RestIs
  <2>2. Len(s) \in Nat BY <1>9, NameSeq
  <2>3. 1 \in 1 .. Len(s) + 1 /\ k + 1 - 1 = k BY <2>2, <1>11
  <2> QED BY <2>1, <2>3
<1>13. k + l + 1 \in Marks(t) /\ Rest(s, l + 2) = Rest(t, k + l + 1)
  BY <1>7, <1>10, NextMark, RestRest
<1>14. PICK q : Spells(msg, w.at, zip + 1 + l, Rest(t, k + l + 1), q) BY <1>9, <1>12, <1>13
<1>15. zip' = zip + 1 + l
  <2>1. At(zip) = l BY <1>9, <1>12 DEF At
  <2> HIDE DEF l
  <2>2. zip + l + 1 = zip + 1 + l BY <1>6, <1>11
  <2> QED BY <2>1, <2>2, <1>1
<1>16. zip' \in 0 .. w.at - 1 /\ Readable(msg, w.at, zip', Rest(t, k + l + 1))
  BY <1>14, <1>15, SpellsStep DEF Readable
<1>17. zip' \in 0 .. Len(msg) - 1
  <2>1. PICK x \in Nat : x = w.at BY <1>2
  <2>2. x + 12 <= Len(msg) BY <1>2, <2>1
  <2>3. 0 .. x - 1 \subseteq 0 .. Len(msg) - 1 BY ONLY <2>2, <1>5, x \in Nat
  <2> QED BY <1>16, <2>1, <2>3
<1>18. temp' = SubSeq(inetFormat(t), 1, k + l + 1 - 1)
  <2>1. At(zip) = l BY <1>9, <1>12 DEF At
  <2>2. \A i \in 1 .. l : msg[zip + 1 + i] = Rest(t, k)[i] BY <1>9, <1>12
  <2>3. msg[zip + 1] = l BY <1>9, <1>12
  <2>4. zip + 1 + l <= Len(msg) BY <1>15, <1>17, <1>5
  <2>5. l = LabelLen(t, k) OBVIOUS
  <2> HIDE DEF l
  <2>6. SubSeq(inetFormat(t), 1, k - 1) \o SubSeq(msg, zip + 1, zip + 1 + l)
          = SubSeq(inetFormat(t), 1, k + l + 1 - 1)
    BY ONLY <2>2, <2>3, <2>4, <2>5, <1>5, <1>6, <1>7, <1>10, k \in Marks(t), LabelBytes
  <2> QED BY <2>1, <2>6, <1>1, <1>3
<1>19. PICK i \in Marks(t) : /\ temp' = SubSeq(inetFormat(t), 1, i - 1)
                             /\ Readable(msg, w.at, zip', Rest(t, i))
  <2> DEFINE x == k + l + 1
  <2> HIDE DEF l
  <2>1. x \in Marks(t) BY <1>13
  <2>2. temp' = SubSeq(inetFormat(t), 1, x - 1)
    <3>1. x - 1 = k + l + 1 - 1 BY ONLY <1>11
    <3> QED BY ONLY <1>18, <3>1
  <2>3. Readable(msg, w.at, zip', Rest(t, x)) BY <1>16
  <2> HIDE DEF x
  <2> QED BY <2>1, <2>2, <2>3
<1>20. temp' \in Seq(Byte) BY <1>7, <1>19, FormPart
<1>22. /\ step' = "expand"
       /\ \E x \in Marks(w.text) : /\ temp' = SubSeq(inetFormat(w.text), 1, x - 1)
                                   /\ Readable(msg, w.at, zip', Rest(w.text, x))
  BY <1>1, <1>19 DEF t
<1>21. UNCHANGED <<made, msg, bufPos, names, parsed>> BY <1>1
<1> QED BY <1>1, <1>2, <1>17, <1>20, <1>21, <1>22, ExpandInv

\* The name in the data of the answer, and where its last two bytes are
Src == SubSeq(RData, Len(Preference(Type)) + 1, RDLen)
Last == bufPos + 12 + RDLen - 2

\* An address is its four bytes.
LEMMA AddressRead ==
  ASSUME IInv, Len(names) = Len(quests), Len(parsed) < Len(wanted), Type = A
  PROVE  RData = wanted[Len(parsed) + 1].text
<1> DEFINE w == wanted[Len(parsed) + 1]
<1>1. Asking /\ Answered BY DEF IInv
<1>2. /\ Len(parsed) + 1 \in 1 .. Len(wanted) /\ bufPos = w.at /\ Type = w.type
      /\ EndOf(w) = bufPos + 12 + RDLen /\ Place(Len(parsed) + 1 + 1) = EndOf(w)
  BY Current
<1>3. Laid(w, EndOf(w)) /\ w.at \in Nat /\ EndOf(w) <= Len(msg) /\ EndOf(w) \in Nat
  BY <1>1, <1>2, AnswerIs
<1>4. /\ w.text = Address /\ EndOf(w) = w.at + 16
      /\ \A i \in 1 .. 4 : msg[w.at + 12 + i] = w.text[i]
  BY <1>2, <1>3 DEF Laid
<1> HIDE DEF w
<1>5. PICK x \in Nat : x = bufPos BY <1>2, <1>3
<1>6. x + 16 <= Len(msg) /\ x + 12 + RDLen = x + 16 BY <1>2, <1>3, <1>4, <1>5
<1>7. msg \in Seq(Nat) /\ Len(msg) \in Nat BY <1>1, MsgSeq
<1>8. x + 13 = x + 12 + 1 /\ x + 16 = x + 12 + 4 /\ x + 12 + 4 <= Len(msg) /\ x + 12 \in Nat
      /\ 4 \in Nat
  BY ONLY <1>6, x \in Nat
<1>9. RData = SubSeq(msg, x + 12 + 1, x + 12 + 4)
  <2>1. RData = SubSeq(msg, x + 13, x + 12 + RDLen) BY <1>5 DEF RData
  <2> QED BY ONLY <2>1, <1>6, <1>8
<1>10. Address \in Seq(Int) /\ Len(Address) = 4 /\ SubSeq(Address, 1, 4) = Address
  <2>1. Address \in Seq(Int) /\ Len(Address) = 4 BY DEF Address
  <2>2. SubSeq(Address, 1, Len(Address)) = Address BY <2>1
  <2> QED BY <2>1, <2>2
<1>11. SubSeq(msg, x + 12 + 1, x + 12 + 4) = SubSeq(Address, 1, 4)
  <2>1. msg \in Seq(Int)
    <3>1. Nat \subseteq Int OBVIOUS
    <3> QED BY <3>1, <1>7, SeqMonotonic
  <2>2. \A i \in 1 .. 4 : msg[x + 12 + i] = Address[i] BY <1>2, <1>4, <1>5
  <2>3. 4 <= Len(Address) BY <1>10
  <2> DEFINE a == x + 12
  <2>4. a \in Nat /\ a + 4 <= Len(msg) /\ \A i \in 1 .. 4 : msg[a + i] = Address[i]
    BY <1>8, <2>2
  <2> HIDE DEF a
  <2>5. SubSeq(msg, a + 1, a + 4) = SubSeq(Address, 1, 4)
    BY ONLY <2>1, <2>3, <2>4, <1>10, 4 \in Nat, SamePart
  <2> QED BY <2>5 DEF a
<1> QED BY <1>4, <1>9, <1>10, <1>11 DEF w

\* A name is all there, or up to the pointer that leads to the rest of it.
LEMMA NameRead ==
  ASSUME IInv, Len(names) = Len(quests), Len(parsed) < Len(wanted),
         NEW w, w = wanted[Len(parsed) + 1], w.type \in NameTypes, Sound(w)
  PROVE  /\ IsName(w.text)
         /\ \/ ~IsPointer(Last) /\ Src = inetFormat(w.text)
            \/ /\ IsPointer(Last)
               /\ \E k \in Marks(w.text) :
                    /\ SubSeq(Src, 1, Len(Src) - 2) = SubSeq(inetFormat(w.text), 1, k - 1)
                    /\ Readable(msg, w.at, Target(Last), Rest(w.text, k))
<1> DEFINE t == w.text
           F == inetFormat(t)
<1>1. Asking /\ Answered BY DEF IInv
<1>2. /\ Len(parsed) + 1 \in 1 .. Len(wanted) /\ bufPos = w.at /\ Type = w.type
      /\ EndOf(w) = bufPos + 12 + RDLen /\ Place(Len(parsed) + 1 + 1) = EndOf(w)
      /\ DataAt(w) = bufPos + 12 + Len(Preference(Type))
  BY Current
<1>3. /\ Laid(w, EndOf(w)) /\ w.at \in Nat /\ EndOf(w) <= Len(msg) /\ EndOf(w) \in Nat
      /\ DataAt(w) \in Nat
  BY <1>1, <1>2, AnswerIs
<1>4. IsName(t) BY <1>1, <1>2, AnswerName
<1>5. Named(w) BY <1>3 DEF Laid
<1>6. msg \in Seq(Nat) /\ Len(msg) \in Nat BY <1>1, MsgSeq
<1>7. PICK x \in Nat : x = bufPos BY <1>2, <1>3
<1>8. PICK p \in Nat : p = Len(Preference(Type))
  <2>1. Len(Bytes(Addition)) = 2 /\ Len(<<>>) = 0 BY DEF Bytes
  <2>2. Len(Preference(Type)) \in Nat BY <2>1 DEF Preference
  <2> QED BY <2>2
<1>9. RDLen \in Int
  <2>1. PICK y \in Int : y = EndOf(w) BY <1>3
  <2>2. RDLen = Word(x + 10) BY <1>7 DEF RDLen
  <2>3. Word(x + 10) = (256 * msg[x + 10 + 1]) + msg[x + 10 + 1 + 1] BY DEF Word, At
  <2>4. /\ msg[x + 10 + 1] \in Nat /\ msg[x + 10 + 1 + 1] \in Nat
    <3>1. x + 12 <= Len(msg)
      <4>1. w.at + 12 <= EndOf(w) BY <1>3 DEF Laid
      <4>2. x + 12 <= y /\ y <= Len(msg) BY <4>1, <2>1, <1>2, <1>3, <1>7
      <4> QED BY ONLY <4>2, x \in Nat, y \in Int, <1>6
    <3>2. x + 10 + 1 \in 1 .. Len(msg) /\ x + 10 + 1 + 1 \in 1 .. Len(msg)
      BY ONLY <3>1, x \in Nat, <1>6
    <3> QED BY <3>2, <1>6, ElementOfSeq
  <2> QED BY <2>2, <2>3, <2>4
<1>10. PICK l \in Int : l = RDLen BY <1>9
<1>11. PICK d \in Nat : d = DataAt(w) /\ d = x + 12 + p BY <1>2, <1>3, <1>7, <1>8
<1>12. PICK e \in Nat : e = EndOf(w) /\ e = x + 12 + l /\ e <= Len(msg)
  BY <1>2, <1>3, <1>7, <1>10
<1>13. PICK cut \in 0 .. Len(t) + 1 :
        /\ Literal(msg, d, t, cut)
        /\ \/ cut = Len(t) + 1 /\ msg[d + cut + 1] = 0 /\ e = d + cut + 1
           \/ /\ cut < Len(t) + 1 /\ msg[d + cut + 1] >= 192 /\ e = d + cut + 2
              /\ Readable(msg, w.at, Leads(msg, d + cut), Rest(t, cut + 1))
  BY <1>5, <1>11, <1>12 DEF Named
<1>14. /\ Len(t) \in Nat /\ F \in Seq(Int) /\ Len(F) = Len(t) + 2 /\ F[Len(t) + 2] = 0
       /\ \A i \in 1 .. Len(t) + 1 : F[i] \in 1 .. 191
  BY <1>4, NameSeq, FormSeq, FormIs
<1>15. cut + 1 \in Marks(t) /\ \A i \in 1 .. cut : msg[d + i] = F[i] BY <1>13 DEF Literal
<1> HIDE DEF t, F
<1>16. msg \in Seq(Int)
  <2>1. Nat \subseteq Int OBVIOUS
  <2> QED BY <2>1, <1>6, SeqMonotonic
<1>17. cut \in Nat /\ d <= e /\ d + cut < e
  <2>1. e = d + cut + 1 \/ e = d + cut + 2 BY <1>13
  <2> QED BY ONLY <2>1, <1>14, d \in Nat, e \in Nat, cut \in 0 .. Len(t) + 1
<1>18. Src = SubSeq(msg, d + 1, e)
  <2> DEFINE k == x + 13
             i == p + 1
  <2>1. /\ k \in Int /\ k >= 1 /\ k <= e + 1 /\ i \in Int /\ i >= 1 /\ i <= l + 1
        /\ l <= e - k + 1 /\ k + i - 1 = d + 1 /\ k + l - 1 = e
    BY ONLY <1>11, <1>12, <1>17, x \in Nat, p \in Nat, l \in Int, d \in Nat, e \in Nat
  <2>2. e \in Int /\ e <= Len(msg) BY <1>12
  <2>3. Src = SubSeq(SubSeq(msg, k, e), i, l)
    <3>1. RData = SubSeq(msg, x + 13, x + 12 + l) BY <1>7, <1>10 DEF RData
    <3> QED BY <3>1, <1>8, <1>10, <1>12 DEF Src
  <2> HIDE DEF k, i
  <2>4. SubSeq(SubSeq(msg, k, e), i, l) = SubSeq(msg, k + i - 1, k + l - 1)
    BY ONLY <2>1, <2>2, <1>16, l \in Int, PartOfPart
  <2> QED BY <2>1, <2>3, <2>4
<1>19. Last = e - 2 BY ONLY <1>7, <1>10, <1>12, x \in Nat, l \in Int, e \in Nat DEF Last
<1>20. CASE cut = Len(t) + 1 /\ msg[d + cut + 1] = 0 /\ e = d + cut + 1
  <2>1. PICK y \in Nat : y = Len(t) BY <1>14
  <2>2. /\ e = d + (y + 2) /\ e - 2 + 1 = d + (y + 1) /\ y + 1 \in 1 .. cut
        /\ y + 2 = cut + 1 /\ cut = y + 1 /\ y + 1 \in 1 .. y + 1
        /\ d + cut + 1 = d + (y + 2)
    BY ONLY <2>1, <1>20, d \in Nat, y \in Nat
  <2>3. ~IsPointer(Last)
    <3>1. msg[d + (y + 1)] = F[y + 1] BY <1>15, <2>2
    <3>2. PICK c \in 1 .. 191 : c = F[y + 1] BY <1>14, <2>1, <2>2
    <3>3. At(Last) = c BY <3>1, <3>2, <1>19, <2>2 DEF At
    <3>4. ~ (c >= 192) OBVIOUS
    <3> QED BY <3>3, <3>4 DEF IsPointer
  <2>4. ASSUME NEW i \in 1 .. y + 2 PROVE msg[d + i] = F[i]
    <3>1. CASE i = y + 2 BY <3>1, <1>14, <1>20, <2>1, <2>2
    <3>2. CASE i # y + 2
      <4>1. i \in 1 .. cut BY <3>2, <2>2
      <4> QED BY <4>1, <1>15
    <3> QED BY <3>1, <3>2
  <2>5. SubSeq(msg, d + 1, d + (y + 2)) = SubSeq(F, 1, y + 2)
    <3>1. y + 2 \in Nat /\ d + (y + 2) <= Len(msg) /\ y + 2 <= Len(F)
      <4>1. Len(F) = y + 2 BY <1>14, <2>1
      <4> QED BY <4>1, <1>12, <2>2
    <3> DEFINE n == y + 2
    <3>2. n \in Nat /\ d + n <= Len(msg) /\ n <= Len(F) /\ \A i \in 1 .. n : msg[d + i] = F[i]
      BY <3>1, <2>4
    <3> HIDE DEF n
    <3>3. SubSeq(msg, d + 1, d + n) = SubSeq(F, 1, n)
      BY ONLY <3>2, <1>14, <1>16, d \in Nat, SamePart
    <3> QED BY <3>3 DEF n
  <2>6. SubSeq(F, 1, y + 2) = F
    <3>1. Len(F) = y + 2 BY <1>14, <2>1
    <3>2. SubSeq(F, 1, Len(F)) = F BY <1>14
    <3> QED BY <3>1, <3>2
  <2>7. Src = F BY <1>18, <2>2, <2>5, <2>6
  <2> QED BY <2>3, <2>7, <1>4 DEF t, F
<1>21. CASE /\ cut < Len(t) + 1 /\ msg[d + cut + 1] >= 192 /\ e = d + cut + 2
            /\ Readable(msg, w.at, Leads(msg, d + cut), Rest(t, cut + 1))
  <2>1. e - 2 = d + cut BY ONLY <1>21, <1>17, d \in Nat
  <2>2. IsPointer(Last) BY <2>1, <1>19, <1>21 DEF IsPointer, At
  <2>3. Target(Last) = Leads(msg, d + cut)
    <3>1. d + cut \in Int BY <1>17
    <3> QED BY <3>1, <2>1, <1>19, TargetLeads
  <2>4. SubSeq(Src, 1, Len(Src) - 2) = SubSeq(msg, d + 1, d + cut)
    <3> DEFINE k == d + 1
    <3>1. /\ k \in Int /\ k >= 1 /\ e \in Int /\ k <= e + 1 /\ e <= Len(msg)
          /\ 1 \in Int /\ 1 >= 1 /\ cut \in Int /\ 1 <= cut + 1 /\ cut <= e - k + 1
          /\ k + 1 - 1 = d + 1 /\ k + cut - 1 = d + cut /\ e - k + 1 - 2 = cut
          /\ (e - k + 1) - 2 = cut
      BY ONLY <1>12, <1>17, <1>21, d \in Nat, e \in Nat, <1>6
    <3> HIDE DEF k
    <3>2. SubSeq(SubSeq(msg, k, e), 1, cut) = SubSeq(msg, k + 1 - 1, k + cut - 1)
      BY ONLY <3>1, <1>16, PartOfPart
    <3>3. Len(SubSeq(msg, k, e)) = e - k + 1 BY ONLY <3>1, <1>16, Part
    <3>4. Src = SubSeq(msg, k, e) BY <1>18 DEF k
    <3> QED BY <3>1, <3>2, <3>3, <3>4
  <2>5. SubSeq(msg, d + 1, d + cut) = SubSeq(F, 1, cut)
    <3>1. cut \in Nat /\ d + cut <= Len(msg) /\ cut <= Len(F)
      <4>1. Len(F) = Len(t) + 2 BY <1>14
      <4> QED BY ONLY <4>1, <1>12, <1>14, <1>17, <1>21, <1>6, d \in Nat, e \in Nat
    <3> QED BY ONLY <3>1, <1>14, <1>15, <1>16, d \in Nat, SamePart
  <2>6. cut + 1 \in Marks(t) /\ (cut + 1) - 1 = cut BY <1>15, <1>17
  <2>7. PICK k \in Marks(t) : /\ SubSeq(Src, 1, Len(Src) - 2) = SubSeq(F, 1, k - 1)
                              /\ Readable(msg, w.at, Target(Last), Rest(t, k))
    BY <2>3, <2>4, <2>5, <2>6, <1>21
  <2> QED BY <2>2, <2>7, <1>4 DEF t, F
<1> QED BY <1>13, <1>20, <1>21

\* packetParse takes the next answer: an address at once, a name with its rest.
LEMMA ParseAnswerInv == IInv /\ ParseAnswer => IInv'
<1> SUFFICES ASSUME IInv, ParseAnswer PROVE IInv' OBVIOUS
<1> DEFINE w == wanted[Len(parsed) + 1]
<1>1. /\ step = "quest" /\ Len(names) = Len(quests) /\ Len(parsed) < Len(wanted)
      /\ \/ Type = A /\ Parsed(RData) /\ UNCHANGED <<step, temp, zip>>
         \/ /\ Type \in NameTypes /\ IsPointer(Last)
            /\ temp' = SubSeq(Src, 1, Len(Src) - 2) /\ zip' = Target(Last)
            /\ step' = "expand" /\ UNCHANGED <<bufPos, parsed>>
         \/ /\ Type \in NameTypes /\ ~IsPointer(Last)
            /\ temp' = Src /\ step' = "read" /\ UNCHANGED <<bufPos, zip, parsed>>
      /\ UNCHANGED <<made, msg, names>>
  BY DEF ParseAnswer, Src, Last
<1>2. Asking /\ Answered /\ Progress /\ Parsing BY DEF IInv
<1>3. /\ Len(parsed) + 1 \in 1 .. Len(wanted) /\ Type = w.type BY <1>1, Current
<1>4. /\ UNCHANGED <<made, msg>> /\ wanted' = wanted /\ quests' = quests /\ msg' = msg
      /\ names' = names
  BY <1>1 DEF made
<1>5. Asking' /\ Answered' /\ \A k : Sound(k)' = Sound(k) BY <1>2, <1>4, Frame
<1>6. \A k \in 1 .. Len(wanted) : Sound(wanted[k]) BY <1>1, <1>2 DEF Parsing
<1>7. \A k \in 1 .. Len(wanted') : Sound(wanted[k])' BY <1>4, <1>5, <1>6
<1>8. zip \in 0 .. Len(msg) - 1 /\ temp \in Seq(Byte) BY <1>2 DEF Parsing
<1>9. CASE Type = A /\ Parsed(RData) /\ UNCHANGED <<step, temp, zip>>
  <2>1. RData = w.text BY <1>1, <1>9, AddressRead
  <2>2. Progress' BY <1>1, <1>4, <1>9, <2>1, ParsedIs
  <2>3. Parsing' BY <1>1, <1>4, <1>7, <1>8, <1>9 DEF Parsing
  <2> QED BY <1>5, <2>2, <2>3 DEF IInv
<1>10. ASSUME Type \in NameTypes
       PROVE  /\ IsName(w.text)
              /\ \/ ~IsPointer(Last) /\ Src = inetFormat(w.text)
                 \/ /\ IsPointer(Last)
                    /\ \E k \in Marks(w.text) :
                         /\ SubSeq(Src, 1, Len(Src) - 2) = SubSeq(inetFormat(w.text), 1, k - 1)
                         /\ Readable(msg, w.at, Target(Last), Rest(w.text, k))
  <2>1. Sound(w) /\ w.type \in NameTypes BY <1>3, <1>6, <1>10
  <2> HIDE DEF w
  <2>2. w = wanted[Len(parsed) + 1] BY DEF w
  <2> QED BY <1>1, <2>1, <2>2, NameRead
<1>11. ASSUME UNCHANGED <<bufPos, parsed>>, zip' \in 0 .. Len(msg) - 1, temp' \in Seq(Byte),
              step' \in {"expand", "read"}, Reading(w)'
       PROVE  IInv'
  <2>1. UNCHANGED <<made, msg, bufPos, names, parsed>> BY <1>4, <1>11
  <2>2. Progress' BY <2>1, <1>2, Waits
  <2>3. Reading(wanted[Len(parsed) + 1])' BY <1>11, <1>4
  <2>4. Parsing' BY <1>4, <1>7, <1>11, <2>3 DEF Parsing
  <2> QED BY <1>5, <2>2, <2>4 DEF IInv
<1>12. ASSUME Type \in NameTypes, UNCHANGED parsed,
              \/ /\ step' = "expand"
                 /\ \E k \in Marks(w.text) :
                      /\ temp' = SubSeq(inetFormat(w.text), 1, k - 1)
                      /\ Readable(msg, w.at, zip', Rest(w.text, k))
              \/ step' = "read" /\ temp' = inetFormat(w.text)
       PROVE  Reading(w)'
  <2>1. w.type \in NameTypes BY <1>3, <1>12
  <2>2. w' = w BY <1>4, <1>12
  <2> HIDE DEF w
  <2> QED BY <1>1, <1>4, <1>12, <2>1, <2>2 DEF Reading
<1>13. CASE /\ Type \in NameTypes /\ IsPointer(Last)
            /\ temp' = SubSeq(Src, 1, Len(Src) - 2) /\ zip' = Target(Last)
            /\ step' = "expand" /\ UNCHANGED <<bufPos, parsed>>
  <2>1. PICK k \in Marks(w.text) :
          /\ temp' = SubSeq(inetFormat(w.text), 1, k - 1)
          /\ Readable(msg, w.at, zip', Rest(w.text, k))
    BY <1>10, <1>13
  <2>2. IsName(w.text) BY <1>10, <1>13
  <2>3. temp' \in Seq(Byte) BY <2>1, <2>2, FormPart
  <2>4. zip' \in 0 .. Len(msg) - 1
    <3>1. PICK r : Spells(msg, w.at, zip', Rest(w.text, k), r) BY <2>1 DEF Readable
    <3>2. zip' \in 0 .. w.at - 1 BY <3>1, SpellsStep
    <3>3. PICK x \in Nat : x = w.at BY <1>2, <1>3, AnswerIs
    <3>4. PICK y \in Nat : y = EndOf(w) BY <1>2, <1>3, AnswerIs
    <3>5. x + 12 <= y /\ y <= Len(msg) /\ Len(msg) \in Nat
      BY <1>2, <1>3, <3>3, <3>4, AnswerIs, MsgSeq
    <3>6. 0 .. x - 1 \subseteq 0 .. Len(msg) - 1 BY ONLY <3>5, x \in Nat, y \in Nat
    <3> QED BY <3>2, <3>3, <3>6
  <2>5. Reading(w)' BY <1>12, <1>13, <2>1
  <2> QED BY <1>11, <1>13, <2>3, <2>4, <2>5
<1>14. CASE /\ Type \in NameTypes /\ ~IsPointer(Last)
            /\ temp' = Src /\ step' = "read" /\ UNCHANGED <<bufPos, zip, parsed>>
  <2>1. temp' = inetFormat(w.text) /\ IsName(w.text) BY <1>10, <1>14
  <2>2. temp' \in Seq(Byte) BY <2>1, FormSeq
  <2>3. zip' \in 0 .. Len(msg) - 1 BY <1>8, <1>14
  <2>4. Reading(w)' BY <1>12, <1>14, <2>1
  <2> QED BY <1>11, <1>14, <2>2, <2>3, <2>4
<1> QED BY <1>1, <1>9, <1>13, <1>14
----------------------------------------------------------------------------
(* The invariant while answers are put in *)

\* An answer stays readable while others are put behind it.
LEMMA LaidGrow ==
  ASSUME Asking, Answered, UNCHANGED <<quests, relay>>,
         Extends(msg', msg, Len(msg)), Len(msg') \in Nat, Len(msg) <= Len(msg'),
         NEW k \in 1 .. Len(wanted), NEW w, w = wanted[k], NEW end, end = Place(k + 1)
  PROVE  Laid(w, end)'
<1>1. /\ Laid(w, end) /\ EndOf(w) \in Nat /\ EndOf(w) <= Len(msg) /\ w.at \in Nat
      /\ w.at + 12 <= EndOf(w) /\ DataAt(w) \in Nat /\ DataAt(w) >= w.at + 12
  BY AnswerIs
<1>2. /\ w.at + 12 <= end /\ end <= Len(msg) /\ EndOf(w) = end
      /\ msg[w.at + 1] >= 192 /\ Word(w.at + 2) = w.type
      /\ relay => Leads(msg, w.at) = NamePointer(w.quest)
      /\ w.type = A => /\ w.text = Address /\ end = w.at + 16
                       /\ \A i \in 1 .. 4 : msg[w.at + 12 + i] = w.text[i]
      /\ w.type \in NameTypes => w.text \in Targets
      /\ w.type \in NameTypes /\ Sound(w) => Named(w)
  BY <1>1 DEF Laid
<1>3. Len(msg) \in Nat /\ msg \in Seq(Nat) BY MsgSeq
<1>4. \A i \in 1 .. Len(msg) : msg'[i] = msg[i] BY DEF Extends
<1>5. PICK x \in Nat : x = w.at BY <1>1
<1>6. PICK e \in Nat : e = end /\ e = EndOf(w) BY <1>1, <1>2
<1>7. x + 12 <= e /\ e <= Len(msg) BY <1>2, <1>5, <1>6
<1>8. /\ msg'[x + 1] = msg[x + 1] /\ msg'[x + 2] = msg[x + 2]
      /\ msg'[x + 2 + 1] = msg[x + 2 + 1] /\ msg'[x + 2 + 1 + 1] = msg[x + 2 + 1 + 1]
      /\ msg'[x + 10 + 1] = msg[x + 10 + 1] /\ msg'[x + 10 + 1 + 1] = msg[x + 10 + 1 + 1]
  <2>1. /\ x + 1 \in 1 .. Len(msg) /\ x + 2 \in 1 .. Len(msg) /\ x + 2 + 1 \in 1 .. Len(msg)
        /\ x + 2 + 1 + 1 \in 1 .. Len(msg) /\ x + 10 + 1 \in 1 .. Len(msg)
        /\ x + 10 + 1 + 1 \in 1 .. Len(msg)
    BY ONLY <1>3, <1>7, x \in Nat, e \in Nat
  <2> QED BY <1>4, <2>1
<1>9. Word(x + 2)' = Word(x + 2) /\ Word(x + 10)' = Word(x + 10) BY <1>8 DEF Word, At
<1>10. EndOf(w)' = EndOf(w)
  <2>1. EndOf(w) = x + 12 + Word(x + 10) BY <1>5 DEF EndOf
  <2>2. EndOf(w)' = x + 12 + Word(x + 10)' BY <1>5 DEF EndOf
  <2> QED BY <1>9, <2>1, <2>2
<1>11. Leads(msg', w.at) = Leads(msg, w.at) BY <1>5, <1>8 DEF Leads
<1>12. NamePointer(w.quest)' = NamePointer(w.quest) BY DEF NamePointer
<1>13. Sound(w)' = Sound(w) BY DEF Sound, Compressed, Glued
<1>14. ASSUME w.type = A, NEW i \in 1 .. 4 PROVE msg'[w.at + 12 + i] = w.text[i]
  <2>1. e = x + 16 BY <1>2, <1>5, <1>6, <1>14
  <2>2. x + 12 + i \in 1 .. Len(msg) BY ONLY <1>3, <1>7, <2>1, x \in Nat, i \in 1 .. 4
  <2>3. msg'[x + 12 + i] = msg[x + 12 + i] BY <1>4, <2>2
  <2> QED BY <1>2, <1>5, <1>14, <2>3
<1>15. ASSUME Named(w) PROVE Named(w)'
  <2> DEFINE t == w.text
  <2>1. PICK d \in Nat : d = DataAt(w) BY <1>1
  <2>2. PICK cut \in 0 .. Len(t) + 1 :
          /\ Literal(msg, d, t, cut)
          /\ \/ cut = Len(t) + 1 /\ msg[d + cut + 1] = 0 /\ e = d + cut + 1
             \/ /\ cut < Len(t) + 1 /\ msg[d + cut + 1] >= 192 /\ e = d + cut + 2
                /\ Readable(msg, w.at, Leads(msg, d + cut), Rest(t, cut + 1))
    BY <1>6, <1>15, <2>1 DEF Named
  <2> HIDE DEF t
  <2>3. /\ cut \in Nat /\ cut + 1 \in Marks(t) /\ d + cut < Len(msg)
        /\ \A i \in 1 .. cut : msg[d + i] = inetFormat(t)[i]
        /\ msg[d + cut + 1] = 0 \/ msg[d + cut + 1] >= 192
    BY <2>2 DEF Literal
  <2>4. msg'[d + cut + 1] = msg[d + cut + 1]
    <3>1. d + cut + 1 \in 1 .. Len(msg) BY <1>3, <2>3
    <3> QED BY <1>4, <3>1
  <2>5. Literal(msg', d, t, cut)
    <3>1. ASSUME NEW i \in 1 .. cut PROVE msg'[d + i] = inetFormat(t)[i]
      <4>1. d + i \in 1 .. Len(msg) BY ONLY <1>3, <2>3, d \in Nat, i \in 1 .. cut
      <4> QED BY <1>4, <2>3, <4>1
    <3>2. d + cut < Len(msg')
      <4>1. PICK y \in Nat : y = Len(msg') OBVIOUS
      <4>2. Len(msg) <= y BY <4>1
      <4>3. d + cut < y BY ONLY <4>2, <1>3, <2>3, d \in Nat, y \in Nat
      <4> QED BY <4>1, <4>3
    <3> QED BY <2>3, <2>4, <3>1, <3>2 DEF Literal
  <2>6. ASSUME e = d + cut + 2, Readable(msg, w.at, Leads(msg, d + cut), Rest(t, cut + 1))
        PROVE  Readable(msg', w.at, Leads(msg', d + cut), Rest(t, cut + 1))
    <3>1. msg'[d + cut + 2] = msg[d + cut + 2]
      <4>1. d + cut + 2 \in 1 .. Len(msg) BY ONLY <1>3, <1>7, <2>3, <2>6, d \in Nat, e \in Nat
      <4> QED BY <1>4, <4>1
    <3>2. Leads(msg', d + cut) = Leads(msg, d + cut) BY <2>4, <3>1 DEF Leads
    <3>3. Extends(msg', msg, x)
      <4>1. 1 .. x \subseteq 1 .. Len(msg) BY ONLY <1>3, <1>7, x \in Nat, e \in Nat
      <4> QED BY <1>4, <4>1 DEF Extends
    <3> DEFINE o == Leads(msg, d + cut)
               s == Rest(t, cut + 1)
    <3>4. PICK r : Spells(msg, x, o, s, r) BY <1>5, <2>6 DEF Readable
    <3> HIDE DEF o, s
    <3>5. Spells(msg', x, o, s, r)
      <4>1. x <= x /\ x = x OBVIOUS
      <4> QED BY ONLY <3>3, <3>4, <4>1, x \in Nat, SpellsGrow
    <3> QED BY <1>5, <3>2, <3>5 DEF Readable, o, s
  <2>7. DataAt(w)' = DataAt(w) BY DEF DataAt
  <2>8. EndOf(w)' = e BY <1>6, <1>10
  <2>9. /\ cut \in 0 .. Len(w.text) + 1
        /\ Literal(msg', DataAt(w)', w.text, cut)
        /\ \/ /\ cut = Len(w.text) + 1 /\ msg'[DataAt(w)' + cut + 1] = 0
              /\ EndOf(w)' = DataAt(w)' + cut + 1
           \/ /\ cut < Len(w.text) + 1 /\ msg'[DataAt(w)' + cut + 1] >= 192
              /\ EndOf(w)' = DataAt(w)' + cut + 2
              /\ Readable(msg', w.at, Leads(msg', DataAt(w)' + cut), Rest(w.text, cut + 1))
    BY <2>1, <2>2, <2>4, <2>5, <2>6, <2>7, <2>8 DEF t
  <2> HIDE DEF t
  <2> QED BY <2>9 DEF Named
<1>16. end <= Len(msg')
  <2>1. PICK y \in Nat : y = Len(msg') OBVIOUS
  <2>2. Len(msg) <= y BY <2>1
  <2>3. e <= y BY ONLY <2>2, <1>3, <1>7, y \in Nat, e \in Nat
  <2> QED BY <1>6, <2>1, <2>3
<1>17. /\ w.at + 12 <= end /\ end <= Len(msg') /\ EndOf(w)' = end
       /\ msg'[w.at + 1] >= 192 /\ Word(w.at + 2)' = w.type
       /\ relay' => Leads(msg', w.at) = NamePointer(w.quest)'
       /\ w.type = A => /\ w.text = Address /\ end = w.at + 16
                        /\ \A i \in 1 .. 4 : msg'[w.at + 12 + i] = w.text[i]
       /\ w.type \in NameTypes => w.text \in Targets
       /\ w.type \in NameTypes /\ Sound(w)' => Named(w)'
  BY <1>2, <1>5, <1>8, <1>9, <1>10, <1>11, <1>12, <1>13, <1>14, <1>15, <1>16
<1> QED BY <1>17 DEF Laid

\* An answer that is laid behind the others keeps the invariant.
LEMMA Grow ==
  ASSUME IInv, step = "answer", UNCHANGED <<quests, relay, step, bufPos, temp, zip, names, parsed>>,
         NEW R \in Seq(Byte), R # <<>>, msg' = msg \o R, Len(msg') <= BUFFER_SIZE,
         NEW w \in Answer, w.at = Len(msg), wanted' = Append(wanted, w),
         NEW end, end = Len(msg'), Laid(w, end)'
  PROVE  IInv'
<1> DEFINE y == Len(msg)
<1>1. Asking /\ Answered /\ Progress /\ Parsing BY DEF IInv
<1>2. msg \in Seq(Byte) /\ y \in Nat BY <1>1, MsgSeq
<1>3. Joined(msg', msg, R, Byte) BY <1>2, CatIs
<1>4. /\ msg' \in Seq(Byte) /\ Len(msg') \in Nat /\ y <= Len(msg')
      /\ Extends(msg', msg, y)
  <2>1. /\ msg' \in Seq(Byte) /\ Len(msg') = y + Len(R)
        /\ \A i \in 1 .. y : msg'[i] = msg[i]
    BY <1>3 DEF Joined
  <2>2. Len(R) \in Nat OBVIOUS
  <2> HIDE DEF y
  <2>3. Len(msg') \in Nat /\ y <= Len(msg') BY <1>2, <2>1, <2>2
  <2> QED BY <2>1, <2>3 DEF Extends
<1>0. wanted \in Seq(Answer) BY <1>1 DEF Answered
<1>5. PICK n \in Nat : n = Len(wanted) /\ wanted \in Seq(Answer) BY <1>0
<1>6. /\ wanted' \in Seq(Answer) /\ Len(wanted') = n + 1
      /\ \A k \in 1 .. n : wanted'[k] = wanted[k]
      /\ wanted'[n + 1] = w
  BY <1>5, AppendProperties
<1>7. QueryKept'
  <2>1. /\ Asked(quests) /\ Len(quests) >= 1
        /\ Len(Query(quests)) <= y
        /\ Extends(msg, Query(quests), Len(Query(quests)))
    BY <1>1 DEF Asking, QueryKept
  <2>2. PICK q \in Nat : q = Len(Query(quests))
    <3>1. Query(quests) \in Seq(Byte) BY <2>1, QueryIs
    <3> QED BY <3>1
  <2> HIDE DEF y
  <2>3. q <= Len(msg') BY <1>2, <1>4, <2>1, <2>2
  <2>4. \A i \in 1 .. q : msg'[i] = Query(quests)[i]
    <3> TAKE i \in 1 .. q
    <3>1. i \in 1 .. y BY <1>2, <2>1, <2>2
    <3>2. msg'[i] = msg[i] BY <1>4, <3>1 DEF Extends
    <3>3. msg[i] = Query(quests)[i] BY <2>1, <2>2 DEF Extends
    <3> QED BY <3>2, <3>3
  <2>5. Extends(msg', Query(quests), Len(Query(quests))) BY <2>2, <2>4 DEF Extends
  <2>6. quests' = quests OBVIOUS
  <2> QED BY <1>4, <2>1, <2>2, <2>3, <2>5, <2>6 DEF QueryKept
<1>8. Asking'
  <2>1. quests' \in Seq(QNames) /\ relay' \in BOOLEAN BY <1>1 DEF Asking
  <2> QED BY <1>7, <2>1 DEF Asking
<1>9. \A k \in 1 .. n + 1 : Place(k)' = Place(k)
  <2> TAKE k \in 1 .. n + 1
  <2>1. k <= n + 1 /\ (k <= n => k \in 1 .. n) /\ (~ (k <= n) => k = n + 1) BY <1>5
  <2>2. CASE k <= n
    <3>1. Place(k) = wanted[k].at BY <2>2, <1>5 DEF Place
    <3>2. Place(k)' = wanted'[k].at BY <2>1, <1>6 DEF Place
    <3> QED BY <2>1, <2>2, <3>1, <3>2, <1>6
  <2>3. CASE ~ (k <= n)
    <3>1. Place(k) = Len(msg) BY <2>3, <1>5 DEF Place
    <3>2. Place(k)' = wanted'[k].at BY <2>1, <1>6 DEF Place
    <3> QED BY <2>1, <2>3, <3>1, <3>2, <1>6
  <2> QED BY <2>2, <2>3
<1>10. Place(n + 1 + 1)' = end
  <2>1. ~ (n + 1 + 1 <= n + 1) BY <1>5
  <2> QED BY <2>1, <1>6 DEF Place
<1>11. Answered'
  <2>1. ASSUME NEW k \in 1 .. n + 1 PROVE Laid(wanted[k], Place(k + 1))'
    <3>1. CASE k \in 1 .. n
      <4>1. PICK u : u = wanted[k] OBVIOUS
      <4>2. PICK e : e = Place(k + 1) OBVIOUS
      <4>3. Laid(u, e)'
        <5>1. UNCHANGED <<quests, relay>> OBVIOUS
        <5>2. k \in 1 .. Len(wanted) BY <1>5, <3>1
        <5> QED BY ONLY <1>1, <1>4, <5>2, <4>1, <4>2, <5>1, LaidGrow
      <4>4. wanted'[k] = u BY <1>6, <3>1, <4>1
      <4>5. Place(k + 1)' = e
        <5>1. k + 1 \in 1 .. n + 1 BY <3>1, <1>5
        <5> QED BY <1>9, <4>2, <5>1
      <4> QED BY <4>3, <4>4, <4>5
    <3>2. CASE k \notin 1 .. n
      <4>1. k = n + 1 BY <3>2, <1>5
      <4>2. wanted'[k] = w /\ Place(k + 1)' = end BY <4>1, <1>6, <1>10
      <4> QED BY <4>2
    <3> QED BY <3>1, <3>2
  <2>2. Place(1)' = Len(Query(quests'))
    <3>1. 1 \in 1 .. n + 1 BY <1>5
    <3>2. Place(1) = Len(Query(quests)) BY <1>1 DEF Answered
    <3>3. quests' = quests OBVIOUS
    <3> QED BY <1>9, <3>1, <3>2, <3>3
  <2>3. Answer' = Answer BY DEF Answer
  <2> QED BY <1>6, <2>1, <2>2, <2>3 DEF Answered
<1>12. /\ names = <<>> /\ parsed = <<>> /\ zip \in 0 .. y - 1 /\ temp \in Seq(Byte)
  BY <1>1 DEF Parsing
<1>13. Progress'
  <2>1. bufPos = QuestAt(1)
    <3>1. Len(names) = 0 /\ Len(names) < Len(quests) /\ 0 + 1 = 1
      <4>1. Len(names) = 0 BY <1>12
      <4>2. Len(quests) \in Nat /\ Len(quests) >= 1 BY <1>1 DEF Asking, QueryKept, Asked
      <4> QED BY <4>1, <4>2
    <3> QED BY <1>1, <3>1 DEF Progress
  <2>2. names' = <<>> /\ parsed' = <<>> /\ bufPos' = bufPos /\ quests' = quests BY <1>12
  <2>3. Len(quests') \in Nat /\ Len(quests') >= 1 BY <1>8 DEF Asking, QueryKept, Asked
  <2>4. Len(names') = 0 /\ Len(parsed') = 0 BY <2>2
  <2>5. /\ Len(names') < Len(quests')
        /\ bufPos' = HeaderLen + Len(Section(quests')[(Len(names') + 1) - 1])
    <3>1. 1 - 1 = (0 + 1) - 1 OBVIOUS
    <3>2. bufPos = HeaderLen + Len(Section(quests)[(0 + 1) - 1]) BY <2>1, <3>1 DEF QuestAt
    <3> QED BY <2>2, <2>3, <2>4, <3>2
  <2>6. names' \in Seq(QNames) /\ parsed' \in Seq([type : Types, text : {Address} \cup Targets])
    BY <2>2, EmptySeq
  <2>7. /\ Len(names') <= Len(quests') /\ Len(parsed') <= Len(wanted')
        /\ ~ (Len(parsed') > 0)
        /\ \A i \in 1 .. Len(names') : names'[i] = quests'[i]
        /\ \A i \in 1 .. Len(parsed') :
             parsed'[i] = [type |-> wanted'[i].type, text |-> wanted'[i].text]
    <3>1. Len(wanted') \in Nat BY <1>5, <1>6
    <3> QED BY <2>3, <2>4, <3>1
  <2> QED BY <2>5, <2>6, <2>7 DEF Progress, QuestAt
<1>14. Parsing'
  <2>1. zip' \in 0 .. Len(msg') - 1
    <3> HIDE DEF y
    <3>1. PICK x \in Nat : x = Len(msg') BY <1>4
    <3>2. y <= x BY <1>4, <3>1
    <3>3. 0 .. y - 1 \subseteq 0 .. x - 1 BY ONLY <1>2, <3>2, x \in Nat
    <3> QED BY <1>12, <3>1, <3>3
  <2> QED BY <1>12, <2>1 DEF Parsing
<1> QED BY <1>8, <1>11, <1>13, <1>14 DEF IInv

\* A record has 12 bytes besides its data, whatever is in it.
LEMMA ResourceLen ==
  ASSUME NEW type \in Int, NEW p \in Int, NEW rdata \in Seq(Byte)
  PROVE  /\ Resource(type, p, rdata) \in Seq(Int)
         /\ Len(Resource(type, p, rdata)) = 12 + Len(rdata)
<1> DEFINE a == PointerTo(p)
           c == Bytes(type)
           e == Bytes(1)
           f == <<0, 0, 0, 0>>
           l == Bytes(Len(rdata))
<1>1. \A n \in Int : Bytes(n) \in Seq(Int) /\ Len(Bytes(n)) = 2 BY DEF Bytes
<1>2. /\ a \in Seq(Int) /\ Len(a) = 2 /\ c \in Seq(Int) /\ Len(c) = 2
      /\ e \in Seq(Int) /\ Len(e) = 2 /\ l \in Seq(Int) /\ Len(l) = 2
  <2>1. 3 * OffsetMod + p \in Int /\ Len(rdata) \in Int /\ 1 \in Int BY Limits
  <2> QED BY <1>1, <2>1 DEF PointerTo
<1>3. f \in Seq(Int) /\ Len(f) = 4 OBVIOUS
<1>4. rdata \in Seq(Int)
  <2>1. Byte \subseteq Int BY DEF Byte
  <2> QED BY <2>1, SeqMonotonic
<1>5. Resource(type, p, rdata) = a \o c \o e \o f \o l \o rdata BY DEF Resource
<1> HIDE DEF a, c, e, f, l
<1> DEFINE S == Int
           ac == a \o c
           ace == ac \o e
           acef == ace \o f
           s == acef \o l
<1>6. rdata \in Seq(S) /\ a \in Seq(S) /\ c \in Seq(S) /\ e \in Seq(S) /\ f \in Seq(S) /\ l \in Seq(S)
  BY <1>2, <1>3, <1>4
<1>7. Resource(type, p, rdata) = s \o rdata BY <1>5
<1> HIDE DEF S, ac, ace, acef, s
<1>8. ac \in Seq(S) /\ Len(ac) = 4
  <2>1. Joined(a \o c, a, c, S) BY <1>6, CatIs
  <2> QED BY <2>1, <1>2 DEF Joined, ac
<1>9. ace \in Seq(S) /\ Len(ace) = 6
  <2>1. Joined(ac \o e, ac, e, S) BY <1>6, <1>8, CatIs
  <2> QED BY <2>1, <1>2, <1>8 DEF Joined, ace
<1>10. acef \in Seq(S) /\ Len(acef) = 10
  <2>1. Joined(ace \o f, ace, f, S) BY <1>6, <1>9, CatIs
  <2> QED BY <2>1, <1>3, <1>9 DEF Joined, acef
<1>11. s \in Seq(S) /\ Len(s) = 12
  <2>1. Joined(acef \o l, acef, l, S) BY <1>6, <1>10, CatIs
  <2> QED BY <2>1, <1>2, <1>10 DEF Joined, s
<1>12. Joined(s \o rdata, s, rdata, S) BY <1>6, <1>11, CatIs
<1> QED BY <1>7, <1>11, <1>12 DEF Joined, S

\* Data that holds a name: the bytes of the preference, some labels, and a 0 or a
\* pointer to a name that can be read in the message.
Holds(rdata, type, text) ==
  \E cut \in 0 .. Len(text) + 1, n \in Nat :
    /\ n = Len(Preference(type)) /\ cut + 1 \in Marks(text)
    /\ \A i \in 1 .. cut : rdata[n + i] = inetFormat(text)[i]
    /\ \/ /\ cut = Len(text) + 1 /\ rdata[n + cut + 1] = 0
          /\ Len(rdata) = n + cut + 1
       \/ /\ cut < Len(text) + 1 /\ rdata[n + cut + 1] >= 192
          /\ Len(rdata) = n + cut + 2
          /\ Readable(msg, Len(msg), Leads(rdata, n + cut), Rest(text, cut + 1))

\* Where the parts of a record are, once it is behind the message
LEMMA Placed ==
  ASSUME Asking, NEW type \in Types, NEW p \in 0 .. OffsetMod - 1, NEW rdata \in Seq(Byte),
         msg' = msg \o Resource(type, p, rdata), Len(msg') <= BUFFER_SIZE
  PROVE  /\ Resource(type, p, rdata) \in Seq(Byte) /\ Resource(type, p, rdata) # <<>>
         /\ Len(msg') = Len(msg) + 12 + Len(rdata)
         /\ msg'[Len(msg) + 1] >= 192
         /\ Leads(msg', Len(msg)) = p
         /\ (256 * msg'[Len(msg) + 3]) + msg'[Len(msg) + 4] = type
         /\ (256 * msg'[Len(msg) + 11]) + msg'[Len(msg) + 12] = Len(rdata)
         /\ \A i \in 1 .. Len(rdata) : msg'[Len(msg) + 12 + i] = rdata[i]
         /\ Extends(msg', msg, Len(msg))
<1> DEFINE R == Resource(type, p, rdata)
<1>1. msg \in Seq(Byte) /\ Len(msg) \in Nat BY MsgSeq
<1>2. PICK y \in Nat : y = Len(msg) BY <1>1
<1>3. PICK l \in Nat : l = Len(rdata) OBVIOUS
<1>4. type \in 0 .. WordMod - 1 /\ type \in Int /\ p \in Int
  <2>1. type \in {1, 2, 5, 15} BY PacketCodecAssumption DEF NameTypes
  <2>2. WordMod > 255 /\ WordMod \in Nat /\ OffsetMod \in Nat BY Limits
  <2> QED BY <2>1, <2>2
<1>5. Len(R) = 12 + l BY <1>3, <1>4, ResourceLen
<1>6. Len(rdata) < WordMod
  <2>1. BUFFER_SIZE \in 0 .. OffsetMod BY PacketCodecAssumption
  <2>2. Len(msg') = y + (12 + l)
    <3>1. R \in Seq(Int) BY <1>4, ResourceLen
    <3>2. msg \in Seq(Int)
      <4>1. Byte \subseteq Int BY DEF Byte
      <4> QED BY <1>1, <4>1, SeqMonotonic
    <3> HIDE DEF R
    <3>3. Len(msg \o R) = Len(msg) + Len(R) BY <3>1, <3>2, ConcatProperties
    <3>4. msg' = msg \o R BY DEF R
    <3> QED BY <1>2, <1>5, <3>3, <3>4
  <2>3. y + (12 + l) <= BUFFER_SIZE BY <2>2
  <2>4. l < WordMod BY ONLY <2>1, <2>3, Limits, y \in Nat, l \in Nat
  <2> QED BY <1>3, <2>4
<1>7. /\ R \in Seq(Byte) /\ R[1] >= 192
      /\ ((256 * R[1]) + R[2]) % OffsetMod = p
      /\ (256 * R[3]) + R[4] = type
      /\ (256 * R[11]) + R[12] = l
      /\ \A i \in 1 .. l : R[12 + i] = rdata[i]
  BY <1>3, <1>4, <1>6, ResourceIs
<1>8. msg' = msg \o R OBVIOUS
<1> HIDE DEF R
<1>9. Joined(msg', msg, R, Byte) BY <1>1, <1>7, <1>8, CatIs
<1>10. /\ Len(msg') = y + (12 + l)
       /\ \A i \in 1 .. y : msg'[i] = msg[i]
       /\ \A i \in 1 .. 12 + l : msg'[y + i] = R[i]
  BY <1>2, <1>5, <1>9 DEF Joined
<1>11. /\ msg'[y + 1] = R[1] /\ msg'[y + 2] = R[2] /\ msg'[y + 3] = R[3]
       /\ msg'[y + 4] = R[4] /\ msg'[y + 11] = R[11] /\ msg'[y + 12] = R[12]
  <2>1. /\ 1 \in 1 .. 12 + l /\ 2 \in 1 .. 12 + l /\ 3 \in 1 .. 12 + l /\ 4 \in 1 .. 12 + l
        /\ 11 \in 1 .. 12 + l /\ 12 \in 1 .. 12 + l
    OBVIOUS
  <2> QED BY <1>10, <2>1
<1>12. ASSUME NEW i \in 1 .. l PROVE msg'[y + 12 + i] = rdata[i]
  <2>1. 12 + i \in 1 .. 12 + l /\ y + 12 + i = y + (12 + i) OBVIOUS
  <2>2. msg'[y + (12 + i)] = R[12 + i] BY <1>10, <2>1
  <2> QED BY <1>7, <2>1, <2>2
<1>13. R # <<>>
  <2>1. Len(R) # 0 BY <1>5
  <2> QED BY <2>1
<1>14. Leads(msg', y) = p BY <1>7, <1>11 DEF Leads
<1>15. Extends(msg', msg, y) BY <1>10 DEF Extends
<1>16. y + (12 + l) = y + 12 + l OBVIOUS
<1> QED BY <1>2, <1>3, <1>7, <1>10, <1>11, <1>12, <1>13, <1>14, <1>15, <1>16 DEF R

\* A record for an answer, behind the others, with an owner and data as they
\* should be, keeps the invariant.
LEMMA Added ==
  ASSUME IInv, NEW type \in Types, NEW q \in 1 .. Len(quests),
         NEW text \in {Address} \cup Targets, NEW p \in 0 .. OffsetMod - 1,
         NEW rdata \in Seq(Byte), Want(q, type, text),
         msg' = msg \o Resource(type, p, rdata), Len(msg') <= BUFFER_SIZE,
         UNCHANGED <<quests, relay, step, bufPos, temp, zip, names, parsed>>,
         NEW w, w = [quest |-> q, type |-> type, text |-> text, at |-> Len(msg)],
         relay => p = NamePointer(q),
         type = A => text = Address /\ rdata = Address,
         type \in NameTypes => text \in Targets,
         type \in NameTypes /\ Sound(w) => Holds(rdata, type, text)
  PROVE  IInv'
<1> DEFINE R == Resource(type, p, rdata)
<1>1. Asking /\ Answered BY DEF IInv
<1>2. /\ R \in Seq(Byte) /\ R # <<>>
      /\ Len(msg') = Len(msg) + 12 + Len(rdata)
      /\ msg'[Len(msg) + 1] >= 192
      /\ Leads(msg', Len(msg)) = p
      /\ (256 * msg'[Len(msg) + 3]) + msg'[Len(msg) + 4] = type
      /\ (256 * msg'[Len(msg) + 11]) + msg'[Len(msg) + 12] = Len(rdata)
      /\ \A i \in 1 .. Len(rdata) : msg'[Len(msg) + 12 + i] = rdata[i]
      /\ Extends(msg', msg, Len(msg))
  BY <1>1, Placed
<1>3. msg \in Seq(Nat) /\ Len(msg) \in Nat BY <1>1, MsgSeq
<1>4. PICK y \in Nat : y = Len(msg) BY <1>3
<1>5. PICK l \in Nat : l = Len(rdata) OBVIOUS
<1>6. /\ w.quest = q /\ w.type = type /\ w.text = text /\ w.at = y /\ w \in Answer
  BY <1>4 DEF Answer
<1>7. PICK end \in Nat : end = Len(msg') /\ end = y + 12 + l
  <2>1. y + 12 + l \in Nat OBVIOUS
  <2> QED BY <2>1, <1>2, <1>4, <1>5
<1>8. Word(y + 2)' = type /\ Word(y + 10)' = l
  <2>1. y + 2 + 1 = y + 3 /\ y + 2 + 1 + 1 = y + 4 /\ y + 10 + 1 = y + 11 /\ y + 10 + 1 + 1 = y + 12
    OBVIOUS
  <2>2. /\ Word(y + 2)' = (256 * msg'[y + 2 + 1]) + msg'[y + 2 + 1 + 1]
        /\ Word(y + 10)' = (256 * msg'[y + 10 + 1]) + msg'[y + 10 + 1 + 1]
    BY DEF Word, At
  <2>3. /\ Word(y + 2)' = (256 * msg'[y + 3]) + msg'[y + 4]
        /\ Word(y + 10)' = (256 * msg'[y + 11]) + msg'[y + 12]
    BY ONLY <2>1, <2>2
  <2>4. /\ (256 * msg'[y + 3]) + msg'[y + 4] = type
        /\ (256 * msg'[y + 11]) + msg'[y + 12] = l
    BY ONLY <1>2, <1>4, <1>5
  <2> QED BY ONLY <2>3, <2>4
<1>9. EndOf(w)' = end
  <2>1. EndOf(w)' = y + 12 + Word(y + 10)' BY <1>6 DEF EndOf
  <2> QED BY <2>1, <1>7, <1>8
<1>10. ASSUME type = A
       PROVE  end = y + 16 /\ \A i \in 1 .. 4 : msg'[y + 12 + i] = text[i]
  <2>1. rdata = Address /\ text = Address BY <1>10
  <2>2. Len(rdata) = 4 BY <2>1 DEF Address
  <2>3. l = 4 BY <1>5, <2>2
  <2>4. end = y + 16 BY <1>7, <2>3
  <2> QED BY <1>2, <1>4, <1>5, <2>1, <2>3, <2>4
<1>12. Sound(w)' = Sound(w) BY DEF Sound, Compressed, Glued
<1>13. ASSUME Holds(rdata, type, text) PROVE Named(w)'
  <2>1. PICK cut \in 0 .. Len(text) + 1, n \in Nat :
          /\ n = Len(Preference(type)) /\ cut + 1 \in Marks(text)
          /\ \A i \in 1 .. cut : rdata[n + i] = inetFormat(text)[i]
          /\ \/ cut = Len(text) + 1 /\ rdata[n + cut + 1] = 0 /\ l = n + cut + 1
             \/ /\ cut < Len(text) + 1 /\ rdata[n + cut + 1] >= 192 /\ l = n + cut + 2
                /\ Readable(msg, Len(msg), Leads(rdata, n + cut), Rest(text, cut + 1))
    BY <1>5, <1>13 DEF Holds
  <2>2. PICK d \in Nat : d = y + 12 + n OBVIOUS
  <2>3. DataAt(w) = d /\ DataAt(w)' = d BY <1>6, <2>1, <2>2 DEF DataAt
  <2>4. \A i \in 1 .. l : msg'[y + 12 + i] = rdata[i] BY <1>2, <1>4, <1>5
  <2>5. cut \in Nat
    <3>1. Len(text) \in Nat
      <4>1. text \in Targets => IsName(text) BY PacketCodecAssumption
      <4>2. Len(Address) = 4 BY DEF Address
      <4> QED BY <4>1, <4>2, NameSeq
    <3> QED BY <3>1
  <2>6. n + cut + 1 <= l
    <3>1. l = n + cut + 1 \/ l = n + cut + 2 BY <2>1
    <3> QED BY ONLY <3>1, <2>5, n \in Nat, l \in Nat
  <2>7. ASSUME NEW i \in 1 .. cut + 1 PROVE msg'[d + i] = rdata[n + i]
    <3>1. n + i \in 1 .. l /\ d + i = y + 12 + (n + i)
      BY ONLY <2>2, <2>5, <2>6, i \in 1 .. cut + 1, n \in Nat, y \in Nat, l \in Nat, d \in Nat
    <3> QED BY <2>4, <3>1
  <2>8. msg'[d + cut + 1] = rdata[n + cut + 1]
    <3>1. cut + 1 \in 1 .. cut + 1 /\ d + cut + 1 = d + (cut + 1) /\ n + cut + 1 = n + (cut + 1)
      BY <2>5
    <3> QED BY <2>7, <3>1
  <2>9. Literal(msg', d, text, cut)
    <3>1. \A i \in 1 .. cut : msg'[d + i] = inetFormat(text)[i]
      <4> TAKE i \in 1 .. cut
      <4>1. i \in 1 .. cut + 1 BY <2>5
      <4> QED BY <2>1, <2>7, <4>1
    <3>2. d + cut < Len(msg')
      <4>1. d + cut < end BY ONLY <2>2, <2>5, <2>6, <1>7, n \in Nat, y \in Nat, l \in Nat
      <4> QED BY <4>1, <1>7
    <3>3. msg'[d + cut + 1] = 0 \/ msg'[d + cut + 1] >= 192 BY <2>1, <2>8
    <3> QED BY <2>1, <2>5, <3>1, <3>2, <3>3 DEF Literal
  <2>10. ASSUME l = n + cut + 2,
                Readable(msg, Len(msg), Leads(rdata, n + cut), Rest(text, cut + 1))
         PROVE  Readable(msg', y, Leads(msg', d + cut), Rest(text, cut + 1))
    <3>1. msg'[d + cut + 2] = rdata[n + cut + 2]
      <4>1. n + cut + 2 \in 1 .. l /\ d + cut + 2 = y + 12 + (n + cut + 2)
        BY ONLY <2>2, <2>5, <2>10, n \in Nat, y \in Nat, l \in Nat, d \in Nat
      <4> QED BY <2>4, <4>1
    <3>2. Leads(msg', d + cut) = Leads(rdata, n + cut) BY <2>8, <3>1 DEF Leads
    <3> DEFINE o == Leads(rdata, n + cut)
               s == Rest(text, cut + 1)
    <3>3. PICK r : Spells(msg, y, o, s, r) BY <1>4, <2>10 DEF Readable
    <3>4. Extends(msg', msg, y) BY <1>2, <1>4
    <3> HIDE DEF o, s
    <3>5. Spells(msg', y, o, s, r)
      <4>1. y <= y /\ y = y OBVIOUS
      <4> QED BY ONLY <3>3, <3>4, <4>1, y \in Nat, SpellsGrow
    <3> QED BY <3>2, <3>5 DEF Readable, o, s
  <2>11. /\ (l = n + cut + 1 => end = d + cut + 1) /\ (l = n + cut + 2 => end = d + cut + 2)
    BY ONLY <2>2, <2>5, <1>7, n \in Nat, y \in Nat, l \in Nat
  <2>12. /\ cut \in 0 .. Len(w.text) + 1
         /\ Literal(msg', d, w.text, cut)
         /\ \/ /\ cut = Len(w.text) + 1 /\ msg'[d + cut + 1] = 0
               /\ end = d + cut + 1
            \/ /\ cut < Len(w.text) + 1 /\ msg'[d + cut + 1] >= 192
               /\ end = d + cut + 2
               /\ Readable(msg', w.at, Leads(msg', d + cut), Rest(w.text, cut + 1))
    BY <1>6, <2>1, <2>8, <2>9, <2>10, <2>11
  <2> QED BY <1>9, <2>3, <2>12 DEF Named
<1>14. y + 12 <= end BY <1>7
<1>15. /\ w.at + 12 <= end /\ end <= Len(msg') /\ EndOf(w)' = end
       /\ msg'[w.at + 1] >= 192 /\ Word(w.at + 2)' = w.type
       /\ relay' => Leads(msg', w.at) = NamePointer(w.quest)'
       /\ w.type = A => /\ w.text = Address /\ end = w.at + 16
                        /\ \A i \in 1 .. 4 : msg'[w.at + 12 + i] = w.text[i]
       /\ w.type \in NameTypes => w.text \in Targets
       /\ w.type \in NameTypes /\ Sound(w)' => Named(w)'
  <2>1. w.at + 12 <= end /\ end <= Len(msg') /\ EndOf(w)' = end BY <1>6, <1>7, <1>9, <1>14
  <2>2. msg'[w.at + 1] >= 192 BY <1>2, <1>4, <1>6
  <2>3. Word(w.at + 2)' = w.type
    <3>1. w.at + 2 = y + 2 BY <1>6
    <3>2. Word(w.at + 2)' = (256 * msg'[w.at + 2 + 1]) + msg'[w.at + 2 + 1 + 1]
      BY DEF Word, At
    <3>3. Word(y + 2)' = (256 * msg'[y + 2 + 1]) + msg'[y + 2 + 1 + 1] BY DEF Word, At
    <3> QED BY <1>6, <1>8, <3>2, <3>3
  <2>4. relay' => Leads(msg', w.at) = NamePointer(w.quest)'
    <3>1. relay' => Leads(msg', y) = NamePointer(q) BY <1>2, <1>4
    <3>2. NamePointer(w.quest)' = NamePointer(w.quest) BY DEF NamePointer
    <3> QED BY <1>6, <3>1, <3>2
  <2>5. w.type = A => /\ w.text = Address /\ end = w.at + 16
                      /\ \A i \in 1 .. 4 : msg'[w.at + 12 + i] = w.text[i]
    BY <1>6, <1>10
  <2>6. w.type \in NameTypes => w.text \in Targets BY <1>6
  <2>7. w.type \in NameTypes /\ Sound(w)' => Named(w)' BY <1>6, <1>12, <1>13
  <2> QED BY <2>1, <2>2, <2>3, <2>4, <2>5, <2>6, <2>7
<1>16. Laid(w, end)' BY <1>15 DEF Laid
<1>17. /\ step = "answer" /\ wanted' = Append(wanted, w) /\ w.at = Len(msg) /\ end = Len(msg')
       /\ UNCHANGED <<quests, relay, step, bufPos, temp, zip, names, parsed>>
  BY <1>4, <1>6, <1>7 DEF Want
<1>18. msg' = msg \o R /\ Len(msg') <= BUFFER_SIZE OBVIOUS
<1> HIDE DEF R
<1> QED BY ONLY IInv, <1>2, <1>6, <1>16, <1>17, <1>18, Grow

\* The preference of an MX takes two bytes; nothing else has one.
LEMMA PreferenceIs ==
  ASSUME NEW type
  PROVE  Preference(type) \in Seq(Byte) /\ Len(Preference(type)) \in Nat
<1>1. Bytes(Addition) \in Seq(Byte) /\ Len(Bytes(Addition)) = 2
  BY PacketCodecAssumption, BytesAre
<1>2. <<>> \in Seq(Byte) /\ Len(<<>>) = 0 OBVIOUS
<1> QED BY <1>1, <1>2 DEF Preference

\* Data with all the labels of a name holds it.
LEMMA HoldsWhole ==
  ASSUME NEW type, NEW text, IsName(text)
  PROVE  /\ Preference(type) \o inetFormat(text) \in Seq(Byte)
         /\ Len(Preference(type) \o inetFormat(text)) = Len(Preference(type)) + (Len(text) + 2)
         /\ Holds(Preference(type) \o inetFormat(text), type, text)
<1> DEFINE P == Preference(type)
           F == inetFormat(text)
           rdata == P \o F
           S == Byte
<1>1. P \in Seq(S) /\ Len(P) \in Nat BY PreferenceIs
<1>2. /\ F \in Seq(S) /\ Len(F) = Len(text) + 2 /\ F[Len(text) + 2] = 0
      /\ Len(text) \in Nat /\ Len(text) + 2 \in Marks(text)
  BY FormSeq, FormIs, NameEnds
<1> HIDE DEF P, F, S
<1>3. Joined(rdata, P, F, S) BY <1>1, <1>2, CatIs
<1> HIDE DEF rdata
<1>4. PICK n \in Nat : n = Len(P) BY <1>1
<1>5. PICK y \in Nat : y = Len(text) BY <1>2
<1>6. /\ rdata \in Seq(S) /\ Len(rdata) = n + (y + 2)
      /\ \A i \in 1 .. y + 2 : rdata[n + i] = F[i]
  BY <1>2, <1>3, <1>4, <1>5 DEF Joined
<1>7. /\ y + 1 \in 0 .. y + 1 /\ y + 1 + 1 = y + 2 /\ n + (y + 2) = n + (y + 1) + 1
      /\ y + 2 \in 1 .. y + 2 /\ 1 .. y + 1 \subseteq 1 .. y + 2
  OBVIOUS
<1>8. Holds(rdata, type, text)
  <2> DEFINE cut == y + 1
  <2>1. /\ cut \in 0 .. Len(text) + 1 /\ n = Len(Preference(type)) /\ cut + 1 \in Marks(text)
        /\ \A i \in 1 .. cut : rdata[n + i] = inetFormat(text)[i]
        /\ cut = Len(text) + 1 /\ rdata[n + cut + 1] = 0 /\ Len(rdata) = n + cut + 1
    <3>1. cut \in 0 .. Len(text) + 1 /\ cut + 1 \in Marks(text) /\ cut = Len(text) + 1
      BY <1>2, <1>5, <1>7
    <3>2. n = Len(Preference(type)) BY <1>4 DEF P
    <3>3. \A i \in 1 .. cut : rdata[n + i] = inetFormat(text)[i] BY <1>6, <1>7 DEF F
    <3>4. rdata[n + (y + 2)] = 0 BY <1>2, <1>5, <1>6, <1>7
    <3>5. rdata[n + cut + 1] = 0 /\ Len(rdata) = n + cut + 1 BY <1>6, <1>7, <3>4
    <3> QED BY <3>1, <3>2, <3>3, <3>5
  <2> HIDE DEF cut
  <2> QED BY <2>1 DEF Holds
<1>9. Len(rdata) = Len(P) + (Len(text) + 2) BY <1>4, <1>5, <1>6
<1> QED BY <1>6, <1>8, <1>9 DEF rdata, P, F, S

\* Data of some bytes of a name's form and a pointer are bytes.
LEMMA CutIs ==
  ASSUME NEW type, NEW text, IsName(text), NEW cut \in Nat, cut <= Len(text) + 1,
         NEW o \in 0 .. OffsetMod - 1
  PROVE  Preference(type) \o SubSeq(inetFormat(text), 1, cut) \o PointerTo(o) \in Seq(Byte)
<1> DEFINE F == inetFormat(text)
<1>1. F \in Seq(Byte) /\ Len(F) = Len(text) + 2 /\ Len(text) \in Nat
  BY FormSeq, FormIs, NameEnds
<1> HIDE DEF F
<1>2. 1 \in Int /\ 1 >= 1 /\ cut \in Int /\ 1 <= cut + 1 /\ cut <= Len(F) BY <1>1
<1>3. SubSeq(F, 1, cut) \in Seq(Byte) BY ONLY <1>1, <1>2, Part
<1>4. PointerTo(o) \in Seq(Byte) BY PointerIs
<1>5. Preference(type) \in Seq(Byte) BY PreferenceIs
<1> QED BY <1>3, <1>4, <1>5, ConcatProperties DEF F

\* When the rest of the name can be read where the pointer leads, they hold it.
LEMMA HoldsCut ==
  ASSUME NEW type, NEW text, IsName(text), NEW cut \in Nat, cut < Len(text) + 1,
         cut + 1 \in Marks(text), NEW o \in 0 .. OffsetMod - 1,
         Readable(msg, Len(msg), o, Rest(text, cut + 1))
  PROVE  Holds(Preference(type) \o SubSeq(inetFormat(text), 1, cut) \o PointerTo(o), type, text)
<1> DEFINE P == Preference(type)
           F == inetFormat(text)
           L == SubSeq(F, 1, cut)
           T == PointerTo(o)
           pl == P \o L
           rdata == pl \o T
           S == Byte
<1>1. P \in Seq(S) /\ Len(P) \in Nat BY PreferenceIs
<1>2. F \in Seq(S) /\ Len(F) = Len(text) + 2 /\ Len(text) \in Nat
  BY FormSeq, FormIs, NameEnds
<1>3. T \in Seq(S) /\ Len(T) = 2 /\ T[1] >= 192 /\ ((256 * T[1]) + T[2]) % OffsetMod = o
  BY PointerIs
<1> HIDE DEF P, F, S, T
<1>4. L \in Seq(S) /\ Len(L) = cut /\ \A i \in 1 .. cut : L[i] = F[i]
  <2>1. /\ 1 \in Int /\ 1 >= 1 /\ cut \in Int /\ 1 <= cut + 1 /\ cut <= Len(F)
        /\ cut - 1 + 1 = cut /\ \A i \in 1 .. cut : 1 + i - 1 = i
    BY <1>2
  <2>2. /\ L \in Seq(S) /\ Len(L) = cut - 1 + 1
        /\ \A i \in 1 .. cut - 1 + 1 : L[i] = F[1 + i - 1]
    BY ONLY <1>2, <2>1, Part
  <2> HIDE DEF L
  <2> QED BY <2>1, <2>2
<1> HIDE DEF L
<1>5. Joined(pl, P, L, S) BY <1>1, <1>4, CatIs
<1> HIDE DEF pl
<1>6. PICK n \in Nat : n = Len(P) BY <1>1
<1>7. pl \in Seq(S) /\ Len(pl) = n + cut /\ \A i \in 1 .. cut : pl[n + i] = F[i]
  BY <1>4, <1>5, <1>6 DEF Joined
<1>8. Joined(rdata, pl, T, S) BY <1>3, <1>7, CatIs
<1> HIDE DEF rdata
<1>9. /\ Len(rdata) = n + cut + 2
      /\ \A i \in 1 .. n + cut : rdata[i] = pl[i]
      /\ \A i \in 1 .. 2 : rdata[n + cut + i] = T[i]
  BY <1>3, <1>7, <1>8 DEF Joined
<1>10. rdata[n + cut + 1] = T[1] /\ rdata[n + cut + 2] = T[2]
  <2>1. 1 \in 1 .. 2 /\ 2 \in 1 .. 2 OBVIOUS
  <2> QED BY <1>9, <2>1
<1>11. \A i \in 1 .. cut : rdata[n + i] = F[i]
  <2> TAKE i \in 1 .. cut
  <2>1. n + i \in 1 .. n + cut OBVIOUS
  <2> QED BY <1>7, <1>9, <2>1
<1>12. Leads(rdata, n + cut) = o BY <1>3, <1>10 DEF Leads
<1>13. /\ cut \in 0 .. Len(text) + 1 /\ n = Len(Preference(type))
       /\ \A i \in 1 .. cut : rdata[n + i] = inetFormat(text)[i]
       /\ rdata[n + cut + 1] >= 192
       /\ Readable(msg, Len(msg), Leads(rdata, n + cut), Rest(text, cut + 1))
  <2>1. cut \in 0 .. Len(text) + 1 BY <1>2
  <2>2. rdata[n + cut + 1] >= 192 BY <1>3, <1>10
  <2> QED BY <1>6, <1>11, <1>12, <2>1, <2>2 DEF P, F
<1>14. Holds(rdata, type, text) BY <1>9, <1>13 DEF Holds
<1> QED BY <1>14 DEF rdata, pl, T, L, P, F
----------------------------------------------------------------------------
(* The two that answer *)

\* From each of its labels on, a question can be read, in the bytes up to its end
\* and in any more of them.
LEMMA QuestSpells ==
  ASSUME Asking, NEW q \in 1 .. Len(quests), NEW k \in Marks(quests[q]),
         NEW b \in Nat, QuestAt(q) + Len(quests[q]) + 6 <= b
  PROVE  Spells(msg, b, QuestAt(q) + k - 1, Rest(quests[q], k), Len(quests[q]) + 2 - k)
<1> DEFINE t == quests[q]
<1>1. /\ IsName(t) /\ QuestAt(q) \in Nat
      /\ \A i \in 1 .. Len(t) + 2 : msg[QuestAt(q) + i] = inetFormat(t)[i]
      /\ Literal(msg, QuestAt(q), t, Len(t) + 1)
  BY QuestIs DEF Asking
<1>2. Len(t) \in Nat /\ Marks(t) \subseteq 1 .. Len(t) + 2 /\ k \in Marks(t) BY <1>1, NameEnds
<1>3. inetFormat(t)[Len(t) + 2] = 0 BY <1>1, FormIs
<1>4. msg \in Seq(Nat) BY MsgSeq
<1>5. PICK d \in Nat : d = QuestAt(q) BY <1>1
<1>7. PICK cut \in Nat : cut = Len(t) + 1 BY <1>2
<1>8. Rest(t, cut + 1) = <<>>
  <2>1. cut + 1 = Len(t) + 2 BY <1>2, <1>7
  <2> QED BY <1>1, <2>1, RestEnds
<1>9. Literal(msg, d, t, cut) BY <1>1, <1>5, <1>7
<1>6. d + Len(t) + 6 <= b BY <1>5
<1> HIDE DEF t
<1>10. /\ d + cut \in 0 .. b - 1 /\ 0 + cut < b /\ Len(t) + 2 \in 1 .. Len(t) + 2
       /\ d + cut + 1 = d + (Len(t) + 2) /\ k <= cut + 1
  <2>2. k \in 1 .. Len(t) + 2 BY <1>2
  <2> QED BY ONLY <1>6, <2>2, <1>2, <1>7, d \in Nat, b \in Nat, cut \in Nat
<1>11. msg[d + cut + 1] = 0 BY <1>1, <1>3, <1>5, <1>10
<1>12. Spells(msg, b, d + cut, <<>>, 0) BY <1>10, <1>11, SpellsEnd
<1>13. Spells(msg, b, d + cut, Rest(t, cut + 1), 0) BY <1>8, <1>12
<1>14. Spells(msg, b, d + k - 1, Rest(t, k), 0 + cut + 1 - k)
  <2>1. 0 \in Nat OBVIOUS
  <2> QED BY ONLY <1>1, <1>2, <1>4, <1>9, <1>10, <1>13, <2>1, b \in Nat, SpellsName
<1>15. 0 + cut + 1 - k = Len(t) + 2 - k BY <1>2, <1>7
<1> QED BY <1>5, <1>14, <1>15 DEF t

\* In the whole message, that is.
LEMMA QuestReadable ==
  ASSUME Asking, NEW q \in 1 .. Len(quests), NEW k \in Marks(quests[q])
  PROVE  Readable(msg, Len(msg), QuestAt(q) + k - 1, Rest(quests[q], k))
<1>1. QuestAt(q) + Len(quests[q]) + 6 <= Len(msg) BY QuestIs DEF Asking
<1>2. Len(msg) \in Nat BY MsgSeq
<1>3. Spells(msg, Len(msg), QuestAt(q) + k - 1, Rest(quests[q], k), Len(quests[q]) + 2 - k)
  BY <1>1, <1>2, QuestSpells
<1> QED BY <1>3 DEF Readable

\* The answers come after the query.
LEMMA AnswersAfter ==
  ASSUME Asking, Answered, NEW k \in 1 .. Len(wanted)
  PROVE  Len(Query(quests)) <= wanted[k].at
<1> DEFINE n == Len(wanted)
           H == {0} \cup {i \in 1 .. n : Len(Query(quests)) <= wanted[i].at}
<1>1. n \in Nat /\ Place(1) = Len(Query(quests))
  <2>1. wanted \in Seq(Answer) BY DEF Answered
  <2> QED BY <2>1 DEF Answered
<1>2. Len(Query(quests)) \in Nat
  <2>1. Query(quests) \in Seq(Byte) BY MsgSeq, QueryIs
  <2> QED BY <2>1
<1>3. ASSUME NEW i \in 1 .. n, i - 1 \in H PROVE i \in H
  <2>1. Place(i) = wanted[i].at BY <1>1 DEF Place
  <2>2. CASE i = 1 BY <2>1, <2>2, <1>1, <1>2
  <2>3. CASE i # 1
    <3> HIDE DEF n
    <3>1. i - 1 \in 1 .. n /\ i - 1 # 0 /\ i - 1 + 1 = i BY <2>3, <1>1
    <3>2. Len(Query(quests)) <= wanted[i - 1].at BY <1>3, <3>1
    <3>3. /\ wanted[i - 1].at \in Nat /\ wanted[i - 1].at + 12 <= EndOf(wanted[i - 1])
          /\ EndOf(wanted[i - 1]) \in Nat /\ Laid(wanted[i - 1], Place(i - 1 + 1))
      BY <3>1, AnswerIs DEF n
    <3>4. EndOf(wanted[i - 1]) = wanted[i].at BY <2>1, <3>1, <3>3 DEF Laid
    <3>5. PICK x \in Nat : x = wanted[i - 1].at BY <3>3
    <3>6. PICK y \in Nat : y = wanted[i].at BY <3>3, <3>4
    <3>7. x + 12 <= y BY <3>3, <3>4, <3>5, <3>6
    <3>8. Len(Query(quests)) <= y BY <3>2, <3>5, <3>7, <1>2
    <3> QED BY <3>6, <3>8
  <2> QED BY <2>2, <2>3
<1>4. 0 \in H OBVIOUS
<1>5. k \in H
  <2>1. k \in 0 .. n BY <1>1
  <2> HIDE DEF H, n
  <2> QED BY <1>1, <1>3, <1>4, <2>1, UpTo
<1>6. k # 0 BY <1>1
<1> QED BY <1>5, <1>6

\* So can the owner of an answer to the first question, which is a pointer to it.
LEMMA OwnerReads ==
  ASSUME Asking, Answered, relay, NEW k \in 1 .. Len(wanted), wanted[k].quest = 1
  PROVE  ReadName(wanted[k].at) = quests[1]
<1> DEFINE w == wanted[k]
           t == quests[1]
<1>1. /\ w.quest \in 1 .. Len(quests) /\ w.at \in Nat /\ Laid(w, Place(k + 1))
      /\ EndOf(w) <= Len(msg) /\ w.at + 12 <= EndOf(w) /\ EndOf(w) \in Nat
      /\ msg[w.at + 1] >= 192
  BY AnswerIs
<1>2. 1 \in 1 .. Len(quests) BY <1>1
<1>3. msg \in Seq(Nat) /\ Len(msg) \in Nat /\ Asked(quests) BY MsgSeq
<1>4. IsName(t) BY <1>2, QuestIs DEF Asking
<1>5. 1 \in Marks(t) /\ Rest(t, 1) = t /\ Len(t) \in Nat BY <1>4, NameEnds, RestEnds
<1>6. QuestAt(1) = 12 BY <1>3, QuestPlaces
<1>7. Leads(msg, w.at) = 12
  <2>1. Leads(msg, w.at) = NamePointer(1) BY <1>1 DEF Laid
  <2>2. NamePointer(1) = QuestAt(1) - (1 - 1) BY <1>2, <1>3, NamePointerIs
  <2> QED BY <1>6, <2>1, <2>2
<1>8. PICK o \in Nat : o = w.at BY <1>1
<1>9. PICK l \in Nat : l = Len(t) BY <1>5
<1>10. 12 + l + 6 <= o
  <2>1. QuestAt(1) + Len(t) + 6 <= Len(Query(quests)) BY <1>2, <1>3, QuestOrder
  <2>2. Len(Query(quests)) <= o BY <1>8, AnswersAfter
  <2>3. Len(Query(quests)) \in Nat
    <3>1. Query(quests) \in Seq(Byte) BY <1>3, QueryIs
    <3> QED BY <3>1
  <2> QED BY <2>1, <2>2, <2>3, <1>6, <1>9
<1>11. Spells(msg, o, 12, t, l + 1)
  <2>1. QuestAt(1) + Len(quests[1]) + 6 <= o BY <1>6, <1>9, <1>10
  <2>2. 1 \in Marks(quests[1]) BY <1>5
  <2>3. Spells(msg, o, QuestAt(1) + 1 - 1, Rest(quests[1], 1), Len(quests[1]) + 2 - 1)
    BY ONLY Asking, <1>2, <2>1, <2>2, o \in Nat, QuestSpells
  <2>4. 12 + 1 - 1 = 12 /\ l + 2 - 1 = l + 1 OBVIOUS
  <2> QED BY <2>3, <2>4, <1>5, <1>6, <1>9
<1>12. PICK b \in Nat : b = o + 2 OBVIOUS
<1>13. /\ o \in 0 .. b - 1 /\ l + 1 \in 0 .. b - 2 /\ o + 2 = b /\ o <= b
       /\ b <= Len(msg)
  <2>1. o + 12 <= Len(msg) BY <1>1, <1>3, <1>8
  <2> QED BY <1>3, <1>10, <1>12, <2>1
<1>14. msg[o + 1] >= 192 /\ Leads(msg, o) = 12 BY <1>1, <1>7, <1>8
<1> HIDE DEF w, t
<1>15. Spells(msg, b, Leads(msg, o), t, l + 1)
  <2>1. Extends(msg, msg, o) BY DEF Extends
  <2>2. l + 1 \in Nat OBVIOUS
  <2>3. Spells(msg, b, 12, t, l + 1)
    BY ONLY <1>11, <1>13, <1>14, <2>1, o \in Nat, b \in Nat, SpellsGrow
  <2> QED BY <2>3, <1>14
<1>16. Spells(msg, b, o, t, l + 1 + 1)
  <2>1. PICK r \in 0 .. b - 2 : r = l + 1 BY <1>13
  <2> QED BY ONLY <2>1, <1>13, <1>14, <1>15, b \in Nat, SpellsPointer
<1>17. Readable(msg, b, o, t) BY <1>16 DEF Readable
<1> QED BY <1>3, <1>8, <1>13, <1>17, ReadSpelled DEF w, t

\* What the invariant says of the answers is what the readers of the message need.
LEMMA Reads == Asking /\ Answered => AnswersReadable
<1> SUFFICES ASSUME Asking, Answered, NEW k \in DOMAIN wanted, relay
             PROVE  /\ wanted[k].quest = 1 => ReadName(wanted[k].at) = quests[1]
                    /\ wanted[k].type \in NameTypes /\ Sound(wanted[k]) =>
                         /\ ReadName(DataAt(wanted[k])) = wanted[k].text
                         /\ AfterName(DataAt(wanted[k])) = EndOf(wanted[k])
  BY DEF AnswersReadable
<1>1. k \in 1 .. Len(wanted)
  <2>1. wanted \in Seq(Answer) BY DEF Answered
  <2> QED BY <2>1
<1>2. Laid(wanted[k], Place(k + 1)) BY <1>1, AnswerIs
<1>3. ASSUME wanted[k].type \in NameTypes, Sound(wanted[k])
      PROVE  /\ ReadName(DataAt(wanted[k])) = wanted[k].text
             /\ AfterName(DataAt(wanted[k])) = EndOf(wanted[k])
  <2>1. Named(wanted[k]) BY <1>2, <1>3 DEF Laid
  <2> QED BY <1>1, <1>3, <2>1, NamedReads
<1>4. wanted[k].quest = 1 => ReadName(wanted[k].at) = quests[1] BY <1>1, OwnerReads
<1> QED BY <1>3, <1>4

\* So can the name in an answer, from each of the labels that are there.
LEMMA NamedStart ==
  ASSUME Asking, Answered, NEW k \in 1 .. Len(wanted), wanted[k].type \in NameTypes,
         Named(wanted[k]), NEW o \in Labels(msg, DataAt(wanted[k]))
  PROVE  \E s : Readable(msg, Len(msg), o, s)
<1> DEFINE w == wanted[k]
           t == w.text
<1>1. /\ EndOf(w) \in Nat /\ EndOf(w) <= Len(msg) /\ Laid(w, Place(k + 1))
      /\ DataAt(w) \in Nat
  BY AnswerIs
<1>2. PICK cut \in Nat :
        /\ Literal(msg, DataAt(w), t, cut)
        /\ \A j \in Marks(t) :
             j <= cut + 1 => Readable(msg, EndOf(w), DataAt(w) + j - 1, Rest(t, j))
  BY NamedReadable
<1>3. IsName(t) BY AnswerName
<1>4. msg \in Seq(Nat) /\ Len(msg) \in Nat BY MsgSeq
<1>5. EndOf(w) = Place(k + 1) BY <1>1 DEF Laid
<1>6. PICK d \in Nat : d = DataAt(w) BY <1>1
<1>7. PICK b \in Nat : b = EndOf(w) BY <1>1
<1>8. Literal(msg, d, t, cut) /\ o \in Labels(msg, d) BY <1>2, <1>6
<1> HIDE DEF w, t
<1>9. Labels(msg, d) = MarksAt(d, t, cut) BY <1>3, <1>4, <1>8, LiteralLabels
<1>10. PICK j \in Marks(t) : j = o - d + 1 /\ o \in d .. d + cut BY <1>8, <1>9 DEF MarksAt
<1>11. j <= cut + 1 /\ d + j - 1 = o BY <1>10
<1>12. Readable(msg, b, o, Rest(t, j)) BY <1>2, <1>6, <1>7, <1>11
<1>13. b = Len(msg) \/ msg[b + 1] >= 192
  <2>1. CASE k + 1 <= Len(wanted)
    <3>1. wanted \in Seq(Answer) BY DEF Answered
    <3>2. k + 1 \in 1 .. Len(wanted) BY <2>1, <3>1
    <3>3. msg[wanted[k + 1].at + 1] >= 192 BY <3>2, AnswerIs
    <3>4. b = wanted[k + 1].at BY <1>5, <1>7, <2>1 DEF Place
    <3> QED BY <3>3, <3>4
  <2>2. CASE ~ (k + 1 <= Len(wanted)) BY <2>2, <1>5, <1>7 DEF Place
  <2> QED BY <2>1, <2>2
<1>14. Readable(msg, Len(msg), o, Rest(t, j))
  <2> DEFINE s == Rest(t, j)
             b2 == Len(msg)
  <2>1. PICK r : Spells(msg, b, o, s, r) BY <1>12 DEF Readable
  <2>2. Extends(msg, msg, b) BY DEF Extends
  <2>3. b2 \in Nat /\ b <= b2 /\ (b2 = b \/ msg[b + 1] >= 192) BY <1>1, <1>4, <1>7, <1>13
  <2> HIDE DEF s, b2
  <2>4. Spells(msg, b2, o, s, r) BY ONLY <2>1, <2>2, <2>3, b \in Nat, SpellsGrow
  <2> QED BY <2>4 DEF Readable, s, b2
<1> QED BY <1>14

\* Where an upstream server may point to, some name can be read.
LEMMA StartReadable ==
  ASSUME Asking, Answered, ~relay, NEW o \in Starts
  PROVE  \E s : Readable(msg, Len(msg), o, s)
<1>1. \/ \E q \in DOMAIN quests : o \in Labels(msg, QuestAt(q))
      \/ \E k \in 1 .. Len(wanted) : /\ wanted[k].type \in NameTypes
                                     /\ o \in Labels(msg, DataAt(wanted[k]))
  <2>1. o \in QuestStarts \/ o \in AnswerStarts BY DEF Starts
  <2>2. CASE o \in QuestStarts BY <2>2 DEF QuestStarts
  <2>3. CASE o \in AnswerStarts BY <2>3 DEF AnswerStarts, DataAt
  <2> QED BY <2>1, <2>2, <2>3
<1>2. ASSUME NEW q \in DOMAIN quests, o \in Labels(msg, QuestAt(q))
      PROVE  \E s : Readable(msg, Len(msg), o, s)
  <2> DEFINE t == quests[q]
             cut == Len(t) + 1
  <2>1. q \in 1 .. Len(quests)
    <3>1. quests \in Seq(QNames) BY DEF Asking
    <3> QED BY <3>1
  <2>2. IsName(t) /\ QuestAt(q) \in Nat /\ Literal(msg, QuestAt(q), t, cut)
    BY <2>1, QuestIs DEF Asking
  <2>3. msg \in Seq(Nat) BY MsgSeq
  <2>4. PICK d \in Nat : d = QuestAt(q) BY <2>2
  <2>5. Literal(msg, d, t, cut) /\ o \in Labels(msg, d) BY <1>2, <2>2, <2>4
  <2> HIDE DEF cut
  <2>6. Labels(msg, d) = MarksAt(d, t, cut)
    <3> HIDE DEF t
    <3> QED BY <2>2, <2>3, <2>5, LiteralLabels
  <2>7. PICK j \in Marks(t) : j = o - d + 1 /\ o \in d .. d + cut BY <2>5, <2>6 DEF MarksAt
  <2>8. d + j - 1 = o
    <3>1. cut \in Nat BY <2>2 DEF Literal
    <3> QED BY ONLY <3>1, <2>7, d \in Nat
  <2>9. Readable(msg, Len(msg), QuestAt(q) + j - 1, Rest(quests[q], j))
    BY <2>1, <2>7, QuestReadable
  <2> QED BY <2>4, <2>8, <2>9
<1>3. ASSUME NEW k \in 1 .. Len(wanted), wanted[k].type \in NameTypes,
             o \in Labels(msg, DataAt(wanted[k]))
      PROVE  \E s : Readable(msg, Len(msg), o, s)
  <2>1. Laid(wanted[k], Place(k + 1)) BY AnswerIs
  <2>2. Sound(wanted[k]) BY DEF Sound
  <2>3. Named(wanted[k]) BY <1>3, <2>1, <2>2 DEF Laid
  <2> QED BY <1>3, <2>3, NamedStart
<1> QED BY <1>1, <1>2, <1>3

\* What an answer holds is an address, or a name that is one.
LEMMA DataIs ==
  ASSUME NEW type \in Types, NEW url \in Data(type)
  PROVE  /\ type = A \/ type \in NameTypes
         /\ type = A => url = Address /\ url \in Seq(Byte) /\ type \notin NameTypes
         /\ type \in NameTypes => url \in Targets /\ IsName(url) /\ type # A
         /\ url \in {Address} \cup Targets
<1>1. type = A \/ type \in NameTypes BY PacketCodecAssumption
<1>2. type \in NameTypes => type # A BY DEF NameTypes
<1>3. type = A => url = Address BY DEF Data
<1>4. type # A => url \in Targets BY DEF Data
<1>5. Address \in Seq(Byte) BY DEF Address, Byte
<1> QED BY <1>1, <1>2, <1>3, <1>4, <1>5, PacketCodecAssumption

\* An upstream server's answer may point to any name before it.
LEMMA UpstreamAnswerInv ==
  ASSUME IInv, NEW type \in Types, NEW url \in Data(type), UpstreamAnswer(type, url)
  PROVE  IInv'
<1> DEFINE P == Preference(type)
           F == inetFormat(url)
           w == [quest |-> 1, type |-> type, text |-> url, at |-> Len(msg)]
<1>1. /\ ~relay /\ Want(1, type, url)
      /\ \/ msg' = msg \o Resource(type, HeaderLen, Form(type, url))
         \/ \E o \in Starts, cut \in {0} \cup {k \in DOMAIN url : url[k] = DOT} :
              /\ type \in NameTypes
              /\ ReadName(o) = SubSeq(url, cut + 1, Len(url))
              /\ msg' = msg \o Resource(type, HeaderLen, P \o SubSeq(F, 1, cut) \o PointerTo(o))
      /\ Len(msg') <= BUFFER_SIZE
      /\ UNCHANGED <<quests, relay, step, bufPos, temp, zip, names, parsed>>
  BY DEF UpstreamAnswer
<1>2. Asking /\ Answered BY DEF IInv
<1>3. /\ type = A \/ type \in NameTypes
      /\ type = A => url = Address /\ url \in Seq(Byte) /\ type \notin NameTypes
      /\ type \in NameTypes => url \in Targets /\ IsName(url) /\ type # A
      /\ url \in {Address} \cup Targets
  BY DataIs
<1>4. 1 \in 1 .. Len(quests) BY <1>2 DEF Asking, QueryKept, Asked
<1>5. 12 \in 0 .. OffsetMod - 1 BY Limits
<1>6. msg \in Seq(Nat) /\ Len(msg) \in Nat BY <1>2, MsgSeq
<1> HIDE DEF P, F, w
<1>7. ASSUME NEW rdata \in Seq(Byte), msg' = msg \o Resource(type, 12, rdata),
             type = A => rdata = Address,
             type \in NameTypes => Holds(rdata, type, url)
      PROVE  IInv'
  <2>1. w = [quest |-> 1, type |-> type, text |-> url, at |-> Len(msg)] BY DEF w
  <2>2. /\ type = A => url = Address /\ rdata = Address
        /\ type \in NameTypes => url \in Targets
        /\ type \in NameTypes /\ Sound(w) => Holds(rdata, type, url)
        /\ relay => 12 = NamePointer(1)
    BY <1>1, <1>3, <1>7
  <2> QED BY ONLY IInv, type \in Types, rdata \in Seq(Byte), <1>1, <1>3, <1>4, <1>5, <1>7,
                  <2>1, <2>2, Added
<1>8. CASE msg' = msg \o Resource(type, 12, Form(type, url))
  <2>1. CASE type = A
    <3>1. Form(type, url) = url /\ url = Address /\ url \in Seq(Byte) BY <1>3, <2>1 DEF Form
    <3> QED BY <1>3, <1>7, <1>8, <2>1, <3>1
  <2>2. CASE type \in NameTypes
    <3>1. Form(type, url) = P \o F BY <1>3, <2>2 DEF Form, P, F
    <3>2. P \o F \in Seq(Byte) /\ Holds(P \o F, type, url) BY <1>3, <2>2, HoldsWhole DEF P, F
    <3> QED BY <1>3, <1>7, <1>8, <2>2, <3>1, <3>2
  <2> QED BY <1>3, <2>1, <2>2
<1>9. ASSUME NEW o \in Starts, NEW cut \in {0} \cup {k \in DOMAIN url : url[k] = DOT},
             type \in NameTypes, ReadName(o) = SubSeq(url, cut + 1, Len(url)),
             msg' = msg \o Resource(type, 12, P \o SubSeq(F, 1, cut) \o PointerTo(o))
      PROVE  IInv'
  <2>1. IsName(url) /\ url \in Targets /\ type # A BY <1>3, <1>9
  <2>2. url \in Seq(Int) /\ Len(url) \in Nat BY <2>1, NameSeq
  <2>3. cut \in 0 .. Len(url) /\ (cut = 0 \/ url[cut] = DOT) BY <2>2
  <2>4. cut \in Nat /\ cut < Len(url) + 1 /\ cut <= Len(url) + 1 BY <2>2, <2>3
  <2>5. cut + 1 \in Marks(url)
    <3>1. cut + 1 \in 1 .. Len(url) + 1 /\ (cut + 1) - 1 = cut /\ (cut = 0 => cut + 1 = 1)
      BY <2>2, <2>3
    <3> QED BY <2>3, <3>1 DEF Marks
  <2>6. PICK s : Readable(msg, Len(msg), o, s) BY <1>1, <1>2, StartReadable
  <2>7. ReadName(o) = s
    <3> DEFINE b == Len(msg)
    <3>1. b \in Nat /\ b <= Len(msg) /\ Readable(msg, b, o, s) BY <1>6, <2>6
    <3> HIDE DEF b
    <3> QED BY <1>6, <3>1, ReadSpelled
  <2>8. Readable(msg, Len(msg), o, Rest(url, cut + 1)) BY <1>9, <2>6, <2>7 DEF Rest
  <2>9. o \in 0 .. OffsetMod - 1
    <3>1. PICK r : Spells(msg, Len(msg), o, s, r) BY <2>6 DEF Readable
    <3>2. o \in 0 .. Len(msg) - 1 BY <3>1, SpellsStep
    <3>3. Len(msg) <= OffsetMod
      <4>1. BUFFER_SIZE \in 0 .. OffsetMod /\ Len(msg) <= BUFFER_SIZE
        BY <1>2, PacketCodecAssumption DEF Asking
      <4> QED BY <4>1, <1>6, Limits
    <3> QED BY <3>2, <3>3, <1>6, Limits
  <2> DEFINE rdata == P \o SubSeq(F, 1, cut) \o PointerTo(o)
  <2>10. rdata \in Seq(Byte) BY <2>1, <2>4, <2>9, CutIs DEF P, F
  <2>11. Holds(rdata, type, url) BY <2>1, <2>4, <2>5, <2>8, <2>9, HoldsCut DEF P, F
  <2>12. msg' = msg \o Resource(type, 12, rdata) BY <1>9
  <2> HIDE DEF rdata
  <2> QED BY <1>7, <2>1, <2>10, <2>11, <2>12
<1> QED BY <1>1, <1>8, <1>9

\* The longest common end of two names is common to them.
LEMMA CommonIs ==
  ASSUME NEW url \in Seq(Int), NEW name \in Seq(Int)
  PROVE  /\ Common(url, name) \in 0 .. Len(name) /\ Common(url, name) <= Len(url)
         /\ \A i \in 1 .. Common(url, name) :
              url[Len(url) - Common(url, name) + i] = name[Len(name) - Common(url, name) + i]
<1> DEFINE T == {m \in 0 .. Len(name) : m <= Len(url) /\
                   SubSeq(url, Len(url) - m + 1, Len(url))
                     = SubSeq(name, Len(name) - m + 1, Len(name))}
<1>1. PICK u \in Nat : u = Len(url) OBVIOUS
<1>2. PICK n \in Nat : n = Len(name) OBVIOUS
<1>3. 0 \in T
  <2>1. /\ u + 1 \in Int /\ u + 1 >= 1 /\ u + 1 <= u + 1 /\ u <= Len(url)
        /\ n + 1 \in Int /\ n + 1 >= 1 /\ n + 1 <= n + 1 /\ n <= Len(name)
        /\ u \in Int /\ n \in Int /\ u - (u + 1) + 1 = 0 /\ n - (n + 1) + 1 = 0
    BY <1>1, <1>2
  <2>2. SubSeq(url, u + 1, u) \in Seq(Int) /\ Len(SubSeq(url, u + 1, u)) = u - (u + 1) + 1
    BY ONLY <2>1, url \in Seq(Int), Part
  <2>3. SubSeq(name, n + 1, n) \in Seq(Int) /\ Len(SubSeq(name, n + 1, n)) = n - (n + 1) + 1
    BY ONLY <2>1, name \in Seq(Int), Part
  <2>4. SubSeq(url, u + 1, u) = <<>> /\ SubSeq(name, n + 1, n) = <<>>
    BY <2>1, <2>2, <2>3, EmptySeq
  <2>5. u - 0 + 1 = u + 1 /\ n - 0 + 1 = n + 1 /\ 0 \in 0 .. n /\ 0 <= u OBVIOUS
  <2> QED BY <1>1, <1>2, <2>4, <2>5
<1>4. T \subseteq 0 .. n /\ T # {} BY <1>2, <1>3
<1>5. Common(url, name) = MaxOf(T) BY DEF Common
<1>6. Common(url, name) \in T
  <2> HIDE DEF T
  <2> QED BY <1>4, <1>5, MaxOfIs
<1>7. PICK m \in 0 .. n : m = Common(url, name) /\ m <= u
        /\ SubSeq(url, u - m + 1, u) = SubSeq(name, n - m + 1, n)
  BY <1>1, <1>2, <1>6
<1> HIDE DEF T
<1>8. PICK a \in Nat : a = u - m BY <1>7
<1>9. PICK c \in Nat : c = n - m BY <1>7
<1>10. m \in Nat /\ a + m = u /\ c + m = n BY <1>8, <1>9
<1>11. SubSeq(url, a + 1, u) = SubSeq(name, c + 1, n) BY <1>7, <1>8, <1>9
<1>12. ASSUME NEW i \in 1 .. m PROVE url[a + i] = name[c + i]
  <2>1. /\ a + 1 \in Int /\ a + 1 >= 1 /\ u \in Int /\ a + 1 <= u + 1 /\ u - (a + 1) + 1 = m
        /\ c + 1 \in Int /\ c + 1 >= 1 /\ n \in Int /\ c + 1 <= n + 1 /\ n - (c + 1) + 1 = m
        /\ (a + 1) + i - 1 = a + i /\ (c + 1) + i - 1 = c + i
    BY ONLY <1>10, a \in Nat, c \in Nat, u \in Nat, n \in Nat, i \in 1 .. m
  <2>2. u <= Len(url) /\ n <= Len(name) BY <1>1, <1>2
  <2>3. \A k \in 1 .. u - (a + 1) + 1 : SubSeq(url, a + 1, u)[k] = url[(a + 1) + k - 1]
    BY ONLY <2>1, <2>2, url \in Seq(Int), Part
  <2>4. \A k \in 1 .. n - (c + 1) + 1 : SubSeq(name, c + 1, n)[k] = name[(c + 1) + k - 1]
    BY ONLY <2>1, <2>2, name \in Seq(Int), Part
  <2>5. SubSeq(url, a + 1, u)[i] = url[a + i] BY <2>1, <2>3
  <2>6. SubSeq(name, c + 1, n)[i] = name[c + i] BY <2>1, <2>4
  <2> QED BY <1>11, <2>5, <2>6
<1> QED BY <1>1, <1>2, <1>7, <1>8, <1>9, <1>12

\* What urlFormat takes for repeated is repeated: it is the rest of both names,
\* from a label of the question on.  It is from a label of the answer on too,
\* unless it is the whole question.
LEMMA RepeatedIs ==
  ASSUME NEW url, IsName(url), NEW name, IsName(name), Repeated(url, name) # -1
  PROVE  \E pos \in Nat, cut \in Nat :
           /\ pos = Repeated(url, name) /\ cut = Len(url) - (Len(name) - pos)
           /\ pos + 1 \in Marks(name) /\ pos < Len(name) /\ cut < Len(url)
           /\ pos # 0 \/ cut = 0 \/ url[cut] = DOT => cut + 1 \in Marks(url)
           /\ Rest(url, cut + 1) = Rest(name, pos + 1)
<1> DEFINE m == Common(url, name)
           dots == {j \in Len(name) - m + 1 .. Len(name) : name[j] = DOT}
<1>1. /\ url \in Seq(Int) /\ name \in Seq(Int) /\ Len(url) >= 1 /\ Len(name) >= 1
      /\ name[Len(name)] # DOT
  BY NameSeq, NameEnds
<1>2. PICK u \in Nat : u = Len(url) /\ u >= 1 BY <1>1
<1>3. PICK n \in Nat : n = Len(name) /\ n >= 1 BY <1>1
<1>4. /\ m \in 0 .. n /\ m <= u
      /\ \A i \in 1 .. m : url[u - m + i] = name[n - m + i]
  BY ONLY <1>1, <1>2, <1>3, CommonIs
<1>5. Repeated(url, name) = IF m = n THEN 0 ELSE IF dots = {} THEN -1 ELSE MinOf(dots)
  BY <1>3 DEF Repeated
<1> HIDE DEF m
<1>6. dots # {} => MinOf(dots) \in n - m + 1 .. n /\ name[MinOf(dots)] = DOT
  <2>1. dots \subseteq Nat BY <1>3, <1>4
  <2>2. dots # {} => MinOf(dots) \in dots
    <3> HIDE DEF dots
    <3> QED BY <2>1, MinOfIs
  <2> QED BY <2>2, <1>3
<1> HIDE DEF dots
<1>7. PICK pos \in Nat : /\ pos = Repeated(url, name)
                         /\ \/ pos = 0 /\ m = n
                            \/ pos \in n - m + 1 .. n /\ pos # 0 /\ name[pos] = DOT
  <2>1. CASE m = n BY <1>5, <2>1
  <2>2. CASE m # n
    <3>1. Repeated(url, name) = MinOf(dots) /\ dots # {} BY <1>5, <2>2
    <3>2. MinOf(dots) \in n - m + 1 .. n /\ name[MinOf(dots)] = DOT BY <1>6, <3>1
    <3>3. MinOf(dots) \in Nat /\ MinOf(dots) # 0 BY <1>4, <3>2
    <3> QED BY <3>1, <3>2, <3>3
  <2> QED BY <2>1, <2>2
<1>8. pos < n /\ n - pos <= m
  <2>1. name[n] # DOT BY <1>1, <1>3
  <2>2. pos # n BY <1>7, <2>1, <1>3
  <2> QED BY <1>3, <1>4, <1>7, <2>2
<1>9. PICK cut \in Nat : cut = u - (n - pos) /\ cut < u
  <2>1. u - (n - pos) \in Nat /\ u - (n - pos) < u BY <1>4, <1>8
  <2> QED BY <2>1
<1>10. pos + 1 \in Marks(name)
  <2>1. pos + 1 \in 1 .. n + 1 /\ (pos + 1) - 1 = pos /\ (pos = 0 => pos + 1 = 1) BY <1>8
  <2> QED BY <1>3, <1>7, <2>1 DEF Marks
<1>11. pos # 0 => url[cut] = DOT
  <2>1. SUFFICES ASSUME pos # 0 PROVE url[cut] = DOT OBVIOUS
  <2>2. pos \in n - m + 1 .. n /\ name[pos] = DOT BY <1>7, <2>1
  <2>3. PICK i \in 1 .. m : i = m - n + pos
    <3>1. m - n + pos \in 1 .. m BY <1>4, <2>2
    <3> QED BY <3>1
  <2>4. u - m + i = cut /\ n - m + i = pos BY <1>4, <1>9, <2>3
  <2>5. url[u - m + i] = name[n - m + i] BY <1>4
  <2> QED BY <2>2, <2>4, <2>5
<1>12. pos # 0 \/ cut = 0 \/ url[cut] = DOT => cut + 1 \in Marks(url)
  <2>1. cut + 1 \in 1 .. u + 1 /\ (cut + 1) - 1 = cut /\ (cut = 0 => cut + 1 = 1) BY <1>9
  <2> QED BY <1>2, <1>11, <2>1 DEF Marks
<1>13. Rest(url, cut + 1) = Rest(name, pos + 1)
  <2>1. PICK l \in Nat : l = n - pos /\ cut + l = u /\ pos + l = n /\ l <= m
    <3>1. n - pos \in Nat /\ cut + (n - pos) = u /\ pos + (n - pos) = n BY <1>8, <1>9
    <3> QED BY <1>8, <3>1
  <2>2. ASSUME NEW i \in 1 .. l PROVE url[cut + i] = name[pos + i]
    <3>1. PICK k \in 1 .. m : k = m - l + i
      <4>1. m - l + i \in 1 .. m BY <1>4, <2>1
      <4> QED BY <4>1
    <3>2. u - m + k = cut + i /\ n - m + k = pos + i BY <1>4, <2>1, <3>1
    <3>3. url[u - m + k] = name[n - m + k] BY <1>4
    <3> QED BY <3>2, <3>3
  <2>3. cut + l <= Len(url) /\ pos + l <= Len(name) BY <1>2, <1>3, <2>1
  <2>4. url \in Seq(Int) /\ name \in Seq(Int) BY <1>1
  <2>5. Agree(url, cut, name, pos, l) BY <2>2 DEF Agree
  <2>6. SubSeq(url, cut + 1, cut + l) = SubSeq(name, pos + 1, pos + l)
    BY ONLY <2>3, <2>4, <2>5, cut \in Nat, pos \in Nat, l \in Nat, SameParts
  <2> QED BY <1>2, <1>3, <2>1, <2>6 DEF Rest
<1> QED BY <1>2, <1>3, <1>7, <1>8, <1>9, <1>10, <1>12, <1>13

\* The pointer to a question, and the one behind some of its bytes, fit 14 bits.
LEMMA NamePointerFits ==
  ASSUME Asking, NEW q \in 1 .. Len(quests)
  PROVE  /\ NamePointer(q) \in 0 .. OffsetMod - 1
         /\ \A i \in 0 .. Len(quests[q]) : NamePointer(q) + i \in 0 .. OffsetMod - 1
<1>1. NamePointer(q) = QuestAt(q) - (q - 1) /\ NamePointer(q) \in Nat
  BY NamePointerIs DEF Asking, QueryKept
<1>2. /\ QuestAt(q) \in Nat /\ QuestAt(q) + Len(quests[q]) + 6 <= Len(msg)
      /\ IsName(quests[q])
  BY QuestIs DEF Asking
<1>3. PICK d \in Nat : d = QuestAt(q) BY <1>2
<1>4. PICK p \in Nat : p = NamePointer(q) BY <1>1
<1>5. PICK n \in Nat : n = Len(quests[q]) BY <1>2, NameEnds
<1>6. PICK y \in Nat : y = Len(msg) BY MsgSeq
<1>7. y <= BUFFER_SIZE /\ BUFFER_SIZE \in 0 .. OffsetMod
  BY <1>6, PacketCodecAssumption DEF Asking
<1>8. q \in Nat /\ q >= 1
  <2>1. Len(quests) \in Nat BY DEF Asking
  <2> QED BY <2>1
<1>9. p = d - (q - 1) /\ d + n + 6 <= y BY <1>1, <1>2, <1>3, <1>4, <1>5, <1>6
<1>10. p + n + 6 <= OffsetMod BY ONLY <1>7, <1>8, <1>9, Limits, p \in Nat, d \in Nat, n \in Nat, y \in Nat
<1>11. p \in 0 .. OffsetMod - 1 /\ \A i \in 0 .. n : p + i \in 0 .. OffsetMod - 1
  BY ONLY <1>10, Limits, p \in Nat, n \in Nat
<1> QED BY <1>4, <1>5, <1>11

\* A name that has nothing in common with the question is there as a whole; only
\* behind a preference it lacks its last bytes.
LEMMA WholeAnswer ==
  ASSUME NEW type, NEW url, IsName(url)
  PROVE  LET rdata == SubSeq(Preference(type) \o inetFormat(url), 1, Len(url) + 2) IN
         /\ rdata \in Seq(Byte)
         /\ type # MX => Holds(rdata, type, url)
<1> DEFINE P == Preference(type)
           F == inetFormat(url)
           s == P \o F
           rdata == SubSeq(s, 1, Len(url) + 2)
<1>1. s \in Seq(Byte) /\ Len(s) = Len(P) + (Len(url) + 2) /\ Holds(s, type, url)
  BY HoldsWhole
<1>2. PICK n \in Nat : n = Len(P) BY PreferenceIs
<1>3. PICK y \in Nat : y = Len(url) BY NameEnds
<1> HIDE DEF s
<1>4. 1 \in Int /\ 1 >= 1 /\ y + 2 \in Int /\ 1 <= (y + 2) + 1 /\ y + 2 <= Len(s)
  BY <1>1, <1>2, <1>3
<1>5. SubSeq(s, 1, y + 2) \in Seq(Byte) BY ONLY <1>1, <1>4, Part
<1>6. ASSUME type # MX PROVE rdata = s
  <2>1. P = <<>> BY <1>6 DEF Preference
  <2>2. Len(s) = y + 2
    <3>1. Len(P) = 0 BY <2>1
    <3> HIDE DEF P
    <3> QED BY <1>1, <1>3, <3>1
  <2>3. SubSeq(s, 1, Len(s)) = s BY <1>1, SubSeqProperties
  <2> QED BY <1>3, <2>2, <2>3
<1>7. rdata \in Seq(Byte) BY <1>3, <1>5
<1> HIDE DEF rdata
<1>8. type # MX => Holds(rdata, type, url) BY <1>1, <1>6
<1> QED BY <1>7, <1>8 DEF rdata, s, P, F

\* The relay's answer points to the question it answers.
LEMMA AddAnswerInv ==
  ASSUME IInv, NEW q \in DOMAIN quests, NEW type \in Types, NEW url \in Data(type),
         AddAnswer(q, type, url)
  PROVE  IInv'
<1> DEFINE w == [quest |-> q, type |-> type, text |-> url, at |-> Len(msg)]
           p == NamePointer(q)
           name == quests[q]
           rdata == urlFormat(url, type, name, p)
<1>1. /\ relay /\ Want(q, type, url)
      /\ msg' = msg \o Resource(type, p, rdata)
      /\ Len(msg') <= BUFFER_SIZE
      /\ UNCHANGED <<quests, relay, step, bufPos, temp, zip, names, parsed>>
  BY DEF AddAnswer
<1>2. Asking /\ Answered BY DEF IInv
<1>3. /\ type = A \/ type \in NameTypes
      /\ type = A => url = Address /\ url \in Seq(Byte) /\ type \notin NameTypes
      /\ type \in NameTypes => url \in Targets /\ IsName(url) /\ type # A
      /\ url \in {Address} \cup Targets
  BY DataIs
<1>4. q \in 1 .. Len(quests)
  <2>1. quests \in Seq(QNames) BY <1>2 DEF Asking
  <2> QED BY <2>1
<1>5. IsName(name) BY <1>2, <1>4, QuestIs DEF Asking
<1>6. p \in 0 .. OffsetMod - 1 /\ \A i \in 0 .. Len(name) : p + i \in 0 .. OffsetMod - 1
  BY <1>2, <1>4, NamePointerFits
<1>7. w = [quest |-> q, type |-> type, text |-> url, at |-> Len(msg)] OBVIOUS
<1>8. w.quest = q /\ w.type = type /\ w.text = url OBVIOUS
<1>9. rdata = IF type = A THEN url
              ELSE IF Repeated(url, name) = -1
                THEN SubSeq(Preference(type) \o inetFormat(url), 1, Len(url) + 2)
              ELSE Preference(type)
                     \o SubSeq(inetFormat(url), 1, Len(url) - (Len(name) - Repeated(url, name)))
                     \o PointerTo(p + Repeated(url, name))
  <2> HIDE DEF p, name
  <2> QED BY DEF urlFormat
<1> HIDE DEF w, p, rdata
<1>10. rdata \in Seq(Byte) /\ (type = A => rdata = Address)
       /\ (type \in NameTypes /\ Sound(w) => Holds(rdata, type, url))
  <2>1. CASE type = A BY <1>3, <1>9, <2>1
  <2>2. CASE type # A /\ Repeated(url, name) = -1
    <3>1. IsName(url) BY <1>3, <2>2
    <3>2. rdata = SubSeq(Preference(type) \o inetFormat(url), 1, Len(url) + 2)
      BY <1>9, <2>2
    <3>3. rdata \in Seq(Byte) /\ (type # MX => Holds(rdata, type, url))
      BY <3>1, <3>2, WholeAnswer
    <3>4. Sound(w) => type # MX
      <4>1. ~ Compressed(w) BY <1>8, <2>2 DEF Compressed
      <4> QED BY <1>1, <1>8, <2>2, <4>1 DEF Sound
    <3> QED BY <2>2, <3>3, <3>4
  <2>3. CASE type # A /\ Repeated(url, name) # -1
    <3>1. IsName(url) /\ Len(url) \in Nat /\ Len(name) \in Nat BY <1>3, <1>5, <2>3, NameEnds
    <3>2. PICK pos \in Nat, cut \in Nat :
            /\ pos = Repeated(url, name) /\ cut = Len(url) - (Len(name) - pos)
            /\ pos + 1 \in Marks(name) /\ pos < Len(name) /\ cut < Len(url)
            /\ pos # 0 \/ cut = 0 \/ url[cut] = DOT => cut + 1 \in Marks(url)
            /\ Rest(url, cut + 1) = Rest(name, pos + 1)
      <4> HIDE DEF name
      <4> QED BY <1>5, <2>3, <3>1, RepeatedIs
    <3>3. rdata = Preference(type) \o SubSeq(inetFormat(url), 1, cut) \o PointerTo(p + pos)
      BY <1>9, <2>3, <3>2
    <3>4. p + pos \in 0 .. OffsetMod - 1 BY <1>6, <3>1, <3>2
    <3>5. cut <= Len(url) + 1 /\ cut < Len(url) + 1 BY <3>1, <3>2
    <3>6. rdata \in Seq(Byte)
      BY <3>1, <3>3, <3>4, <3>5, CutIs
    <3>7. ASSUME Sound(w) PROVE Holds(rdata, type, url)
      <4>1. q = 1 /\ ~ Glued(w)
        <5>1. Compressed(w) BY <1>8, <2>3 DEF Compressed
        <5> QED BY <1>1, <1>8, <2>3, <3>7, <5>1 DEF Sound
      <4>2. cut + 1 \in Marks(url)
        <5>1. pos = 0 /\ cut # 0 => url[cut] = DOT
          <6>1. SUFFICES ASSUME pos = 0, cut # 0, url[cut] # DOT PROVE FALSE OBVIOUS
          <6>2. cut = Len(url) - Len(name) /\ cut > 0 BY <3>1, <3>2, <6>1
          <6>3. Glued(w) BY <1>8, <3>2, <6>1, <6>2 DEF Glued
          <6> QED BY <4>1, <6>3
        <5> QED BY <3>2, <5>1
      <4>3. p = QuestAt(1) /\ QuestAt(1) = 12
        <5>1. Asked(quests) BY <1>2, MsgSeq
        <5>2. NamePointer(q) = QuestAt(q) - (q - 1) BY <1>4, <5>1, NamePointerIs
        <5>3. QuestAt(1) = 12 BY <5>1, QuestPlaces
        <5>4. 12 - (1 - 1) = 12 OBVIOUS
        <5> QED BY <4>1, <5>2, <5>3, <5>4 DEF p
      <4>4. Readable(msg, Len(msg), QuestAt(q) + (pos + 1) - 1, Rest(name, pos + 1))
        BY <1>2, <1>4, <3>2, QuestReadable
      <4>5. QuestAt(q) + (pos + 1) - 1 = p + pos
        <5>1. 12 + (pos + 1) - 1 = 12 + pos OBVIOUS
        <5> QED BY <4>1, <4>3, <5>1
      <4>6. Readable(msg, Len(msg), p + pos, Rest(url, cut + 1)) BY <3>2, <4>4, <4>5
      <4> QED BY <3>1, <3>3, <3>4, <3>5, <4>2, <4>6, HoldsCut
    <3> QED BY <2>3, <3>6, <3>7
  <2> QED BY <2>1, <2>2, <2>3
<1> HIDE DEF name
<1>11. /\ type = A => url = Address /\ rdata = Address
       /\ type \in NameTypes => url \in Targets
       /\ type \in NameTypes /\ Sound(w) => Holds(rdata, type, url)
       /\ relay => p = NamePointer(q)
  BY <1>3, <1>10 DEF p
<1>12. IInv'
  BY ONLY IInv, type \in Types, <1>1, <1>3, <1>4, <1>6, <1>7, <1>10, <1>11, Added
<1> QED BY <1>12
----------------------------------------------------------------------------
(* The theorems *)

\* Every step keeps the invariant.
LEMMA NextInv == IInv /\ [Next]_vars => IInv'
<1> SUFFICES ASSUME IInv, [Next]_vars PROVE IInv' OBVIOUS
<1>1. ASSUME NEW q \in DOMAIN quests, NEW type \in Types, NEW url \in Data(type),
             AddAnswer(q, type, url)
      PROVE  IInv'
  BY <1>1, AddAnswerInv
<1>2. ASSUME NEW type \in Types, NEW url \in Data(type), UpstreamAnswer(type, url)
      PROVE  IInv'
  BY <1>2, UpstreamAnswerInv
<1>3. CASE Deliver BY <1>3, DeliverInv
<1>4. CASE packetParse
  BY <1>4, ParseQuestInv, ParseAnswerInv, ExpandEndInv, ExpandLabelInv, ExpandPointerInv,
     ReadTextInv, ParseDoneInv DEF packetParse
<1>5. CASE UNCHANGED vars
  <2>1. UNCHANGED <<made, msg, step, bufPos, temp, zip, names, parsed>> BY <1>5 DEF vars
  <2>2. Asking /\ Answered /\ Progress /\ Parsing BY DEF IInv
  <2>3. Asking' /\ Answered' /\ Progress' BY <2>1, <2>2, Waits
  <2>4. UNCHANGED <<quests, wanted, relay>> BY <2>1 DEF made
  <2>5. \A w : Sound(w)' = Sound(w) BY <2>1, Frame
  <2>6. step \in {"expand", "read"} => Reading(wanted[Len(parsed) + 1])'
    <3>1. SUFFICES ASSUME step \in {"expand", "read"}
                   PROVE  Reading(wanted[Len(parsed) + 1])'
      OBVIOUS
    <3>2. Reading(wanted[Len(parsed) + 1]) BY <2>2, <3>1 DEF Parsing
    <3> QED BY <2>1, <2>4, <3>2 DEF Reading
  <2>7. Parsing' BY <2>1, <2>2, <2>4, <2>5, <2>6 DEF Parsing
  <2> QED BY <2>3, <2>7 DEF IInv
<1> QED BY <1>1, <1>2, <1>3, <1>4, <1>5 DEF Next

\* A name is text, and so is an address.
LEMMA Texts ==
  /\ \A t : IsName(t) => t \in Text
  /\ QNames \subseteq Text /\ {Address} \cup Targets \subseteq Text
<1>1. ASSUME NEW t, IsName(t) PROVE t \in Text
  <2>1. t \in Seq(1 .. 191) BY <1>1, NameSeq
  <2>2. 1 .. 191 \subseteq Byte BY DEF Byte
  <2>3. Seq(1 .. 191) \subseteq Seq(Byte) BY <2>2, SeqMonotonic
  <2> QED BY <2>1, <2>3 DEF Text
<1>2. Address \in Text BY DEF Address, Byte, Text
<1> QED BY <1>1, <1>2, PacketCodecAssumption

\* The invariant holds in every state that can be reached.
LEMMA Invariant == Spec => []IInv
BY InitInv, NextInv, PTL DEF Spec

\* The invariant gives the types.
LEMMA Typed == IInv => TypeOK
<1> SUFFICES ASSUME IInv PROVE TypeOK OBVIOUS
<1>1. Asking /\ Answered /\ Progress /\ Parsing BY DEF IInv
<1>2. msg \in Seq(Byte) /\ Len(msg) \in Nat BY <1>1, MsgSeq
<1>3. quests \in Seq(Text) /\ names \in Seq(Text)
  <2>1. Seq(QNames) \subseteq Seq(Text) BY Texts, SeqMonotonic
  <2> QED BY <1>1, <2>1 DEF Asking, Progress
<1>4. PICK n \in Nat : n = Len(wanted) /\ DOMAIN wanted = 1 .. n
  <2>1. wanted \in Seq(Answer) BY <1>1 DEF Answered
  <2> QED BY <2>1
<1>5. DOMAIN quests = 1 .. Len(quests) BY <1>3
<1>6. ASSUME NEW k \in DOMAIN wanted
      PROVE  wanted[k].quest \in DOMAIN quests /\ wanted[k].at \in 0 .. Len(msg) - 1
  <2>1. k \in 1 .. Len(wanted) BY <1>4
  <2>2. /\ wanted[k].quest \in 1 .. Len(quests) /\ wanted[k].at \in Nat
        /\ EndOf(wanted[k]) \in Nat /\ EndOf(wanted[k]) <= Len(msg)
        /\ wanted[k].at + 12 <= EndOf(wanted[k])
    BY <1>1, <2>1, AnswerIs
  <2>3. wanted[k].at \in 0 .. Len(msg) - 1 BY <1>2, <2>2
  <2> QED BY <1>5, <2>2, <2>3
<1>7. bufPos \in 0 .. Len(msg)
  <2>1. CASE Len(names) < Len(quests)
    <3>1. bufPos = QuestAt(Len(names) + 1) BY <1>1, <2>1 DEF Progress
    <3>2. Len(names) + 1 \in 1 .. Len(quests) BY <1>3, <2>1
    <3>3. /\ QuestAt(Len(names) + 1) \in Nat /\ IsName(quests[Len(names) + 1])
          /\ QuestAt(Len(names) + 1) + Len(quests[Len(names) + 1]) + 6 <= Len(msg)
      BY <1>1, <3>2, QuestIs DEF Asking
    <3>4. Len(quests[Len(names) + 1]) \in Nat BY <3>3, NameEnds
    <3> QED BY <1>2, <3>1, <3>3, <3>4
  <2>2. CASE ~ (Len(names) < Len(quests))
    <3>1. bufPos = Place(Len(parsed) + 1) BY <1>1, <2>2 DEF Progress
    <3>2. CASE Len(parsed) + 1 <= Len(wanted)
      <4>1. Len(parsed) + 1 \in 1 .. n
        <5>1. parsed \in Seq([type : Types, text : {Address} \cup Targets])
          BY <1>1 DEF Progress
        <5> QED BY <1>4, <3>2, <5>1
      <4>2. wanted[Len(parsed) + 1].at \in 0 .. Len(msg) - 1 BY <1>4, <1>6, <4>1
      <4> QED BY <1>2, <3>1, <3>2, <4>2 DEF Place
    <3>3. CASE ~ (Len(parsed) + 1 <= Len(wanted)) BY <1>2, <3>1, <3>3 DEF Place
    <3> QED BY <3>2, <3>3
  <2> QED BY <2>1, <2>2
<1>8. ASSUME NEW k \in DOMAIN parsed PROVE parsed[k].text \in Text
  <2>1. parsed \in Seq([type : Types, text : {Address} \cup Targets])
    BY <1>1 DEF Progress
  <2>2. parsed[k] \in [type : Types, text : {Address} \cup Targets]
    <3> DEFINE S == [type : Types, text : {Address} \cup Targets]
    <3>1. parsed \in Seq(S) BY <2>1
    <3> HIDE DEF S
    <3>2. parsed[k] \in S BY <3>1
    <3> QED BY <3>2 DEF S
  <2>3. parsed[k].text \in {Address} \cup Targets BY <2>2
  <2> QED BY <2>3, Texts
<1>9. relay \in BOOLEAN BY <1>1 DEF Asking
<1>10. /\ step \in {"answer", "quest", "expand", "read", "done"}
       /\ temp \in Text /\ zip \in 0 .. Len(msg) - 1
  BY <1>1 DEF Parsing, Text
<1> QED BY <1>2, <1>3, <1>6, <1>7, <1>8, <1>9, <1>10 DEF TypeOK

\* What has been parsed in the end is what was put together.
LEMMA PutTogether == IInv => ParsesBack
<1> SUFFICES ASSUME IInv, step = "done"
             PROVE  /\ names = quests
                    /\ bufPos = Len(msg)
                    /\ \A k \in DOMAIN wanted :
                         parsed[k] = [type |-> wanted[k].type, text |-> wanted[k].text]
  BY DEF ParsesBack
<1>1. Asking /\ Answered /\ Progress /\ Parsing BY DEF IInv
<1>2. Len(names) = Len(quests) /\ Len(parsed) = Len(wanted) BY <1>1 DEF Parsing
<1>3. names = quests
  <2>1. /\ names \in Seq(QNames) /\ quests \in Seq(QNames)
        /\ \A i \in 1 .. Len(names) : names[i] = quests[i]
    BY <1>1 DEF Asking, Progress
  <2>2. names \in Seq(QNames) /\ quests \in Seq(QNames) /\ Len(names) = Len(quests)
        /\ \A i \in 1 .. Len(names) : names[i] = quests[i]
    BY <1>2, <2>1
  <2> QED BY ONLY <2>2, SeqEqual
<1>4. wanted \in Seq(Answer) /\ quests \in Seq(QNames) BY <1>1 DEF Answered, Asking
<1>5. bufPos = Len(msg)
  <2>1. ~ (Len(names) < Len(quests)) BY <1>2, <1>4
  <2>2. bufPos = Place(Len(parsed) + 1) BY <1>1, <2>1 DEF Progress
  <2>3. ~ (Len(parsed) + 1 <= Len(wanted)) BY <1>2, <1>4
  <2> QED BY <2>2, <2>3 DEF Place
<1>6. ASSUME NEW k \in DOMAIN wanted
      PROVE  parsed[k] = [type |-> wanted[k].type, text |-> wanted[k].text]
  <2>1. k \in 1 .. Len(parsed) BY <1>2, <1>4
  <2> QED BY <1>1, <2>1 DEF Progress
<1> QED BY <1>3, <1>5, <1>6

\* Every length, offset and pointer of packet.c and url.c fits its bytes, whatever
\* is asked and answered.
THEOREM TypeCorrect == Spec => []TypeOK
BY Invariant, Typed, PTL

\* The name in an answer of responseFormat reads as the name that was given, and
\* has the length that urlFormat returned, however it was compressed; an answer
\* to the first question belongs to the name of that question.
THEOREM RelayAnswersRead == Spec => []AnswersReadable
<1>1. IInv => AnswersReadable BY Reads DEF IInv
<1> QED BY <1>1, Invariant, PTL

\* packetParse takes every message apart as it was put together.
THEOREM ParsedBack == Spec => []ParsesBack
BY Invariant, PutTogether, PTL
=============================================================================
