------------------------- MODULE LRUCacheRefinement -------------------------
(***************************************************************************)
(* The cache of LRUCache, pointer by pointer, is the list of LruList, for  *)
(* any capacity.  The ring of the slots is written as a function from      *)
(* 0 .. m + 1 that begins and ends with the head; the list operations take *)
(* an element out of it or put one behind the head.                        *)
(***************************************************************************)
EXTENDS LRUCacheProofs, Induction

(* A ring *)

\* From the head through the m slots of S, each once, back to the head.
RingOf(e, m, nx, S) ==
  /\ m \in Nat
  /\ e[0] = HEAD /\ e[m + 1] = HEAD
  /\ \A k \in 1 .. m : e[k] \in S
  /\ \A s \in S : \E k \in 1 .. m : e[k] = s
  /\ \A j, k \in 1 .. m : e[j] = e[k] => j = k
  /\ \A k \in 0 .. m : nx[e[k]] = e[k + 1]

\* Behind the head, or at place j, the ring has one node more or less.
Push(e, m, n) ==
  [k \in 0 .. m + 2 |-> IF k = 0 THEN HEAD ELSE IF k = 1 THEN n ELSE e[k - 1]]
Drop(e, m, j) == [k \in 0 .. m |-> IF k < j THEN e[k] ELSE e[k + 1]]

\* A ring begins and ends with the head and meets it nowhere else.
LEMMA RingHead ==
  ASSUME NEW e, NEW m, NEW nx, NEW S \in SUBSET Slots, RingOf(e, m, nx, S)
  PROVE  /\ m \in Nat
         /\ \A k \in 0 .. m + 1 : e[k] \in S \cup {HEAD}
         /\ \A k \in 0 .. m + 1 : e[k] = HEAD => k = 0 \/ k = m + 1
         /\ \A j \in 1 .. m, k \in 0 .. m + 1 : e[j] = e[k] => j = k
<1>1. m \in Nat /\ HEAD \notin S BY Apart DEF RingOf
<1>2. \A k \in 0 .. m + 1 : k = 0 \/ k = m + 1 \/ k \in 1 .. m BY <1>1
<1> QED BY <1>1, <1>2 DEF RingOf

\* mylist_add_head lengthens the ring.
LEMMA PushRing ==
  ASSUME NEW e, NEW m, NEW nx, NEW S \in SUBSET Slots, RingOf(e, m, nx, S),
         NEW n \in Slots \ S, NEW nx2,
         nx2[HEAD] = n, nx2[n] = nx[HEAD], \A s \in S : nx2[s] = nx[s]
  PROVE  RingOf(Push(e, m, n), m + 1, nx2, S \cup {n})
<1> DEFINE d == Push(e, m, n)
<1>1. m \in Nat /\ HEAD \notin S /\ n # HEAD BY Apart DEF RingOf
<1>2. /\ d[0] = HEAD /\ d[1] = n /\ \A k \in 1 .. m + 1 : d[k + 1] = e[k]
  BY <1>1 DEF Push
<1> HIDE DEF d
<1>3. \A k \in 2 .. m + 1 : k - 1 \in 1 .. m /\ d[k] = e[k - 1]
  <2> SUFFICES ASSUME NEW k \in 2 .. m + 1
               PROVE  k - 1 \in 1 .. m /\ d[k] = e[k - 1]
    OBVIOUS
  <2>1. k - 1 \in 1 .. m + 1 /\ (k - 1) + 1 = k /\ k - 1 \in 1 .. m BY <1>1
  <2>2. d[(k - 1) + 1] = e[k - 1] BY <1>2, <2>1
  <2> QED BY <2>1, <2>2
<1>4. \A k \in 1 .. m + 1 : k = 1 \/ k \in 2 .. m + 1 BY <1>1
<1>5. d[(m + 1) + 1] = HEAD
  <2>1. m + 1 \in 1 .. m + 1 BY <1>1
  <2> QED BY <1>2, <2>1 DEF RingOf
<1>6. \A k \in 1 .. m + 1 : d[k] \in S \cup {n} BY <1>2, <1>3, <1>4 DEF RingOf
<1>7. \A s \in S \cup {n} : \E k \in 1 .. m + 1 : d[k] = s
  <2> SUFFICES ASSUME NEW s \in S \cup {n} PROVE \E k \in 1 .. m + 1 : d[k] = s
    OBVIOUS
  <2>1. CASE s = n
    <3>1. 1 \in 1 .. m + 1 BY <1>1
    <3> QED BY <1>2, <2>1, <3>1
  <2>2. CASE s \in S
    <3>1. PICK k \in 1 .. m : e[k] = s BY <2>2 DEF RingOf
    <3>2. k + 1 \in 1 .. m + 1 /\ k \in 1 .. m + 1 BY <1>1
    <3> QED BY <1>2, <3>1, <3>2
  <2> QED BY <2>1, <2>2
<1>8. \A j, k \in 1 .. m + 1 : d[j] = d[k] => j = k
  <2> SUFFICES ASSUME NEW j \in 1 .. m + 1, NEW k \in 1 .. m + 1, d[j] = d[k]
               PROVE  j = k
    OBVIOUS
  <2>1. \A l \in 2 .. m + 1 : d[l] # n BY <1>3 DEF RingOf
  <2>2. CASE j = 1 BY <1>2, <1>4, <2>1, <2>2
  <2>3. CASE k = 1 BY <1>2, <1>4, <2>1, <2>3
  <2>4. CASE j \in 2 .. m + 1 /\ k \in 2 .. m + 1
    <3>1. j - 1 = k - 1 BY <1>3, <2>4 DEF RingOf
    <3> QED BY <2>4, <3>1
  <2> QED BY <1>4, <2>2, <2>3, <2>4
<1>9. \A k \in 0 .. m + 1 : nx2[d[k]] = d[k + 1]
  <2> SUFFICES ASSUME NEW k \in 0 .. m + 1 PROVE nx2[d[k]] = d[k + 1]
    OBVIOUS
  <2>1. CASE k = 0 BY <1>2, <2>1
  <2>2. CASE k = 1
    <3>1. 0 \in 0 .. m /\ 1 \in 1 .. m + 1 BY <1>1
    <3>2. nx[e[0]] = e[0 + 1] /\ e[0] = HEAD BY <3>1 DEF RingOf
    <3>3. d[1 + 1] = e[1] BY <1>2, <3>1
    <3> QED BY <1>2, <2>2, <3>2, <3>3
  <2>3. CASE k \in 2 .. m + 1
    <3>1. k - 1 \in 1 .. m /\ d[k] = e[k - 1] /\ k - 1 \in 0 .. m /\ k \in 1 .. m + 1
      BY <1>1, <1>3, <2>3
    <3>2. e[k - 1] \in S /\ nx[e[k - 1]] = e[(k - 1) + 1] BY <3>1 DEF RingOf
    <3>3. (k - 1) + 1 = k /\ d[k + 1] = e[k] BY <1>2, <3>1
    <3> QED BY <3>1, <3>2, <3>3
  <2>4. k = 0 \/ k = 1 \/ k \in 2 .. m + 1 BY <1>1
  <2> QED BY <2>1, <2>2, <2>3, <2>4
<1>10. m + 1 \in Nat BY <1>1
<1>11. RingOf(d, m + 1, nx2, S \cup {n})
  BY <1>2, <1>5, <1>6, <1>7, <1>8, <1>9, <1>10 DEF RingOf
<1> QED BY <1>11 DEF d

\* _mylist_del shortens it: the node before the one at place j is led past it.
LEMMA DropRing ==
  ASSUME NEW e, NEW m, NEW nx, NEW S \in SUBSET Slots, RingOf(e, m, nx, S),
         NEW j \in 1 .. m, NEW nx2,
         nx2[e[j - 1]] = nx[e[j]],
         \A k \in 0 .. m : k # j - 1 /\ k # j => nx2[e[k]] = nx[e[k]]
  PROVE  RingOf(Drop(e, m, j), m - 1, nx2, S \ {e[j]})
<1> DEFINE d == Drop(e, m, j)
<1>1. m \in Nat /\ m - 1 \in Nat /\ (m - 1) + 1 = m BY DEF RingOf
<1>2. /\ \A k \in 0 .. j - 1 : d[k] = e[k]
      /\ \A k \in j .. m : d[k] = e[k + 1]
  BY <1>1 DEF Drop
<1> HIDE DEF d
<1>3. \A k \in 1 .. m - 1 : \/ k \in 1 .. j - 1 /\ k \in 0 .. j - 1 /\ k \in 1 .. m
                            \/ k \in j .. m /\ k + 1 \in j + 1 .. m /\ k + 1 \in 1 .. m
  BY <1>1
<1>4. d[0] = HEAD /\ d[(m - 1) + 1] = HEAD
  <2>1. 0 \in 0 .. j - 1 /\ m \in j .. m BY <1>1
  <2> QED BY <1>1, <1>2, <2>1 DEF RingOf
<1>5. \A k \in 1 .. m - 1 : d[k] \in S \ {e[j]}
  <2> SUFFICES ASSUME NEW k \in 1 .. m - 1 PROVE d[k] \in S \ {e[j]} OBVIOUS
  <2>1. CASE k \in 1 .. j - 1 /\ k \in 0 .. j - 1 /\ k \in 1 .. m
    BY <1>2, <2>1 DEF RingOf
  <2>2. CASE k \in j .. m /\ k + 1 \in j + 1 .. m /\ k + 1 \in 1 .. m
    BY <1>2, <2>2 DEF RingOf
  <2> QED BY <1>3, <2>1, <2>2
<1>6. \A s \in S \ {e[j]} : \E k \in 1 .. m - 1 : d[k] = s
  <2> SUFFICES ASSUME NEW s \in S \ {e[j]} PROVE \E k \in 1 .. m - 1 : d[k] = s
    OBVIOUS
  <2>1. PICK k \in 1 .. m : e[k] = s /\ k # j BY DEF RingOf
  <2>2. CASE k < j
    <3>1. k \in 0 .. j - 1 /\ k \in 1 .. m - 1 BY <1>1, <2>2
    <3> QED BY <1>2, <2>1, <3>1
  <2>3. CASE k > j
    <3>1. k - 1 \in j .. m /\ k - 1 \in 1 .. m - 1 /\ (k - 1) + 1 = k BY <1>1, <2>3
    <3> QED BY <1>2, <2>1, <3>1
  <2> QED BY <2>1, <2>2, <2>3
<1>7. \A a, b \in 1 .. m - 1 : d[a] = d[b] => a = b
  <2> SUFFICES ASSUME NEW a \in 1 .. m - 1, NEW b \in 1 .. m - 1, d[a] = d[b]
               PROVE  a = b
    OBVIOUS
  <2> DEFINE up(k) == IF k < j THEN k ELSE k + 1
  <2>1. \A k \in 1 .. m - 1 : d[k] = e[up(k)] /\ up(k) \in 1 .. m
    BY <1>1, <1>2, <1>3
  <2>2. up(a) = up(b)
    <3> HIDE DEF up
    <3> QED BY <2>1 DEF RingOf
  <2> QED BY <2>2
<1>8. \A k \in 0 .. m - 1 : nx2[d[k]] = d[k + 1]
  <2> SUFFICES ASSUME NEW k \in 0 .. m - 1 PROVE nx2[d[k]] = d[k + 1]
    OBVIOUS
  <2>1. CASE k = j - 1
    <3>1. k \in 0 .. j - 1 /\ k + 1 \in j .. m /\ k + 1 = j /\ j \in 0 .. m
      BY <1>1, <2>1
    <3>2. nx[e[j]] = e[j + 1] BY <3>1 DEF RingOf
    <3>3. d[k] = e[j - 1] /\ d[k + 1] = e[j + 1] BY <1>2, <2>1, <3>1
    <3> QED BY <3>2, <3>3
  <2>2. CASE k < j - 1
    <3>1. /\ k \in 0 .. j - 1 /\ k + 1 \in 0 .. j - 1 /\ k \in 0 .. m
          /\ k # j - 1 /\ k # j
      BY <1>1, <2>2
    <3>2. nx2[e[k]] = nx[e[k]] /\ nx[e[k]] = e[k + 1] BY <3>1 DEF RingOf
    <3> QED BY <1>2, <3>1, <3>2
  <2>3. CASE k >= j
    <3>1. /\ k \in j .. m /\ k + 1 \in j .. m /\ k + 1 \in 0 .. m
          /\ k + 1 # j - 1 /\ k + 1 # j
      BY <1>1, <2>3
    <3>2. nx2[e[k + 1]] = nx[e[k + 1]] /\ nx[e[k + 1]] = e[(k + 1) + 1]
      BY <3>1 DEF RingOf
    <3> QED BY <1>2, <3>1, <3>2
  <2>4. k = j - 1 \/ k < j - 1 \/ k >= j BY <1>1
  <2> QED BY <2>1, <2>2, <2>3, <2>4
<1>9. RingOf(d, m - 1, nx2, S \ {e[j]})
  BY <1>1, <1>4, <1>5, <1>6, <1>7, <1>8 DEF RingOf
<1> QED BY <1>9 DEF d

\* A ring has as many slots as there are in it.
LEMMA RingSize ==
  ASSUME NEW e, NEW m, NEW nx, NEW S, RingOf(e, m, nx, S)
  PROVE  Cardinality(S) = m
<1> DEFINE f == [k \in 1 .. m |-> e[k]]
<1>1. f \in [1 .. m -> S] BY DEF RingOf
<1>2. \A k \in 1 .. m : f[k] = e[k] OBVIOUS
<1> HIDE DEF f
<1>3. f \in Bijection(1 .. m, S)
  <2>1. \A j, k \in 1 .. m : f[j] = f[k] => j = k BY <1>2 DEF RingOf
  <2>2. \A s \in S : \E k \in 1 .. m : f[k] = s BY <1>2 DEF RingOf
  <2> QED BY <1>1, <2>1, <2>2 DEF Bijection, Injection, Surjection, IsInjective
<1>4. ExistsBijection(1 .. m, S) BY <1>3 DEF ExistsBijection
<1>5. m \in Nat BY DEF RingOf
<1> QED BY <1>4, <1>5, FS_CountingElements

\* Nth, of any pointers.
Steps(nx) ==
  LET nth[k \in 0 .. CacheLen + 1] == IF k = 0 THEN HEAD ELSE nx[nth[k - 1]]
  IN  nth

\* Following next from the head runs through the ring.
LEMMA StepsRing ==
  ASSUME NEW e, NEW m, NEW nx, NEW S, RingOf(e, m, nx, S), m <= CacheLen
  PROVE  \A k \in 0 .. m + 1 : Steps(nx)[k] = e[k]
<1> DEFINE f == CHOOSE f : Iterated(f, CacheLen + 1, HEAD, nx)
<1>1. m \in Nat /\ CacheLen \in Nat /\ CacheLen + 1 \in Nat
  BY LRUCacheAssumption DEF LRUCacheAssumption, RingOf
<1>2. Iterated(f, CacheLen + 1, HEAD, nx)
  <2>1. CacheLen + 1 \in Nat BY <1>1
  <2>2. \E g : Iterated(g, CacheLen + 1, HEAD, nx) BY ONLY <2>1, Iterate
  <2> QED BY <2>2
<1>3. Steps(nx) = f BY DEF Steps, Iterated
<1> HIDE DEF f
<1>4. \A k \in 0 .. CacheLen + 1 : f[k] = IF k = 0 THEN HEAD ELSE nx[f[k - 1]]
  BY <1>2 DEF Iterated
<1> DEFINE H == {k \in 0 .. m + 1 : f[k] = e[k]}
<1>5. 0 \in H
  <2>1. 0 \in 0 .. CacheLen + 1 /\ 0 \in 0 .. m + 1 BY <1>1
  <2> QED BY <1>4, <2>1 DEF RingOf
<1>6. ASSUME NEW k \in 1 .. m + 1, k - 1 \in H PROVE k \in H
  <2>1. /\ k \in 0 .. CacheLen + 1 /\ k # 0 /\ k \in 0 .. m + 1
        /\ k - 1 \in 0 .. m /\ (k - 1) + 1 = k
    BY <1>1
  <2>2. f[k] = nx[f[k - 1]] BY <1>4, <2>1
  <2>3. f[k - 1] = e[k - 1] BY <1>6
  <2>4. nx[e[k - 1]] = e[(k - 1) + 1] BY <2>1 DEF RingOf
  <2> QED BY <2>1, <2>2, <2>3, <2>4
<1> HIDE DEF H
<1>7. \A k \in 0 .. m + 1 : k \in H
  <2>1. m + 1 \in Nat BY <1>1
  <2> QED BY <1>5, <1>6, <2>1, UpTo
<1> QED BY <1>3, <1>7 DEF H
----------------------------------------------------------------------------
(* The records of a ring *)

Item(en, ex, n) == [record |-> en[n], expires |-> ex[n]]
View(e, m, en, ex) == [k \in 1 .. m |-> Item(en, ex, e[k])]

\* A sequence without its element k, as LruList writes it.
Minus(s, k) == SubSeq(s, 1, k - 1) \o SubSeq(s, k + 1, Len(s))

\* And with one more in front.
Front(x, s) == <<x>> \o s

\* The elements behind k move up.
LEMMA MinusIs ==
  ASSUME NEW T, NEW s \in Seq(T), NEW k \in 1 .. Len(s)
  PROVE  Minus(s, k) = [y \in 1 .. Len(s) - 1 |-> IF y < k THEN s[y] ELSE s[y + 1]]
<1> DEFINE a == SubSeq(s, 1, k - 1)
           b == SubSeq(s, k + 1, Len(s))
<1>1. Len(s) \in Nat /\ \A y \in 1 .. Len(s) : s[y] \in T OBVIOUS
<1>2. a \in Seq(T) /\ Len(a) = k - 1 /\ \A y \in 1 .. k - 1 : a[y] = s[y]
  OBVIOUS
<1>3. /\ b \in Seq(T) /\ Len(b) = Len(s) - k
      /\ \A y \in 1 .. Len(s) - k : b[y] = s[k + y]
  OBVIOUS
<1> HIDE DEF a, b
<1> DEFINE c == a \o b
<1>4. /\ c \in Seq(T) /\ Len(c) = Len(s) - 1
      /\ \A y \in 1 .. Len(s) - 1 : c[y] = IF y <= k - 1 THEN a[y] ELSE b[y - (k - 1)]
  <2>1. c \in Seq(T) /\ Len(c) = Len(a) + Len(b)
    <3>1. a \in Seq(T) /\ b \in Seq(T) BY <1>2, <1>3
    <3> QED BY ONLY <3>1
  <2>2. \A y \in 1 .. Len(a) + Len(b) :
          c[y] = IF y <= Len(a) THEN a[y] ELSE b[y - Len(a)]
    BY <1>2, <1>3
  <2>3. Len(a) + Len(b) = Len(s) - 1 BY <1>1, <1>2, <1>3
  <2> HIDE DEF c
  <2> QED BY <1>2, <2>1, <2>2, <2>3
<1> HIDE DEF c
<1>5. c = [y \in 1 .. Len(s) - 1 |-> c[y]] BY <1>4
<1>6. \A y \in 1 .. Len(s) - 1 : c[y] = IF y < k THEN s[y] ELSE s[y + 1]
  <2> SUFFICES ASSUME NEW y \in 1 .. Len(s) - 1
               PROVE  c[y] = IF y < k THEN s[y] ELSE s[y + 1]
    OBVIOUS
  <2>1. CASE y < k
    <3>1. y \in 1 .. k - 1 /\ y <= k - 1 BY <2>1
    <3> QED BY <1>2, <1>4, <2>1, <3>1
  <2>2. CASE ~ (y < k)
    <3>1. y - (k - 1) \in 1 .. Len(s) - k /\ k + (y - (k - 1)) = y + 1 /\ ~ (y <= k - 1)
      BY <1>1, <2>2
    <3> QED BY <1>3, <1>4, <2>2, <3>1
  <2> QED BY <2>1, <2>2
<1> QED BY <1>5, <1>6 DEF c, a, b, Minus

\* A sequence with one element more in front.
LEMMA FrontIs ==
  ASSUME NEW T, NEW s \in Seq(T), NEW x \in T
  PROVE  Front(x, s) = [y \in 1 .. Len(s) + 1 |-> IF y = 1 THEN x ELSE s[y - 1]]
<1> DEFINE c == <<x>> \o s
<1>1. /\ c \in Seq(T) /\ Len(c) = Len(s) + 1 /\ Len(s) \in Nat
      /\ \A y \in 1 .. Len(s) + 1 : c[y] = IF y = 1 THEN x ELSE s[y - 1]
  OBVIOUS
<1> HIDE DEF c
<1>2. c = [y \in 1 .. Len(s) + 1 |-> c[y]] BY <1>1
<1> QED BY <1>1, <1>2 DEF c, Front

\* The records of a ring are a sequence.
LEMMA ViewType ==
  ASSUME NEW e, NEW m \in Nat, NEW en, NEW ex
  PROVE  /\ View(e, m, en, ex) \in Seq({Item(en, ex, e[k]) : k \in 1 .. m})
         /\ Len(View(e, m, en, ex)) = m /\ DOMAIN View(e, m, en, ex) = 1 .. m
         /\ \A k \in 1 .. m : View(e, m, en, ex)[k] = Item(en, ex, e[k])
<1> HIDE DEF Item
<1> QED BY DEF View

\* The records at the places K are the same.
Agree(e, K, en, ex, en2, ex2) ==
  \A k \in K : en2[e[k]] = en[e[k]] /\ ex2[e[k]] = ex[e[k]]

\* A node behind the head is a record in front.
Pushed(e, m, n, en, ex, en2, ex2) ==
  View(Push(e, m, n), m + 1, en2, ex2) = Front(Item(en2, ex2, n), View(e, m, en, ex))
LEMMA ViewPush ==
  ASSUME NEW e, NEW m \in Nat, NEW n, NEW en, NEW ex, NEW en2, NEW ex2,
         Agree(e, 1 .. m, en, ex, en2, ex2)
  PROVE  Pushed(e, m, n, en, ex, en2, ex2)
<1> DEFINE s == View(e, m, en, ex)
           x == Item(en2, ex2, n)
           T == {x} \cup {Item(en, ex, e[k]) : k \in 1 .. m}
           d == Push(e, m, n)
<1>1. Len(s) = m /\ \A k \in 1 .. m : s[k] = Item(en, ex, e[k])
  BY DEF View
<1>2. s \in Seq(T)
  <2>1. View(e, m, en, ex) \in Seq({Item(en, ex, e[k]) : k \in 1 .. m})
    BY ONLY m \in Nat, ViewType
  <2> HIDE DEF Item
  <2> QED BY <2>1
<1>3. x \in T OBVIOUS
<1> HIDE DEF s, T
<1>4. Front(x, s) = [y \in 1 .. m + 1 |-> IF y = 1 THEN x ELSE s[y - 1]]
  <2> HIDE DEF x
  <2>1. Front(x, s) = [y \in 1 .. Len(s) + 1 |-> IF y = 1 THEN x ELSE s[y - 1]]
    BY ONLY <1>2, <1>3, FrontIs
  <2> QED BY <1>1, <2>1
<1>5. \A y \in 1 .. m + 1 : Item(en2, ex2, d[y]) = IF y = 1 THEN x ELSE s[y - 1]
  <2> SUFFICES ASSUME NEW y \in 1 .. m + 1
               PROVE  Item(en2, ex2, d[y]) = IF y = 1 THEN x ELSE s[y - 1]
    OBVIOUS
  <2>1. y \in 0 .. m + 2 /\ y # 0 OBVIOUS
  <2>2. CASE y = 1 BY <2>1, <2>2 DEF Push
  <2>3. CASE y # 1
    <3>1. y - 1 \in 1 .. m BY <2>3
    <3>2. d[y] = e[y - 1] BY <2>1, <2>3 DEF Push
    <3>3. Item(en2, ex2, e[y - 1]) = Item(en, ex, e[y - 1]) BY <3>1 DEF Item, Agree
    <3> QED BY <1>1, <2>3, <3>1, <3>2, <3>3
  <2> QED BY <2>2, <2>3
<1>6. View(d, m + 1, en2, ex2) = [y \in 1 .. m + 1 |-> Item(en2, ex2, d[y])]
  BY DEF View
<1> QED BY <1>4, <1>5, <1>6 DEF s, Pushed

\* A node less is a record less.
Dropped(e, m, j, en, ex, en2, ex2) ==
  View(Drop(e, m, j), m - 1, en2, ex2) = Minus(View(e, m, en, ex), j)
LEMMA ViewDrop ==
  ASSUME NEW e, NEW m \in Nat, NEW j \in 1 .. m, NEW en, NEW ex, NEW en2, NEW ex2,
         Agree(e, (1 .. m) \ {j}, en, ex, en2, ex2)
  PROVE  Dropped(e, m, j, en, ex, en2, ex2)
<1> DEFINE s == View(e, m, en, ex)
           T == {Item(en, ex, e[k]) : k \in 1 .. m}
           d == Drop(e, m, j)
<1>1. Len(s) = m /\ \A k \in 1 .. m : s[k] = Item(en, ex, e[k])
  BY DEF View
<1>2. s \in Seq(T) BY ViewType
<1> HIDE DEF s, T
<1>3. Minus(s, j) = [y \in 1 .. m - 1 |-> IF y < j THEN s[y] ELSE s[y + 1]]
  BY <1>1, <1>2, MinusIs
<1>4. \A y \in 1 .. m - 1 : Item(en2, ex2, d[y]) = IF y < j THEN s[y] ELSE s[y + 1]
  <2> SUFFICES ASSUME NEW y \in 1 .. m - 1
               PROVE  Item(en2, ex2, d[y]) = IF y < j THEN s[y] ELSE s[y + 1]
    OBVIOUS
  <2>1. y \in 0 .. m /\ y \in 1 .. m /\ y + 1 \in 1 .. m OBVIOUS
  <2>2. CASE y < j
    <3>1. d[y] = e[y] BY <2>1, <2>2 DEF Drop
    <3>2. Item(en2, ex2, e[y]) = Item(en, ex, e[y]) BY <2>1, <2>2 DEF Item, Agree
    <3> QED BY <1>1, <2>1, <2>2, <3>1, <3>2
  <2>3. CASE ~ (y < j)
    <3>1. d[y] = e[y + 1] BY <2>1, <2>3 DEF Drop
    <3>2. Item(en2, ex2, e[y + 1]) = Item(en, ex, e[y + 1]) BY <2>1, <2>3 DEF Item, Agree
    <3> QED BY <1>1, <2>1, <2>3, <3>1, <3>2
  <2> QED BY <2>2, <2>3
<1>5. View(d, m - 1, en2, ex2) = [y \in 1 .. m - 1 |-> Item(en2, ex2, d[y])]
  BY DEF View
<1> QED BY <1>3, <1>4, <1>5 DEF s, Dropped
----------------------------------------------------------------------------
(* The list operations on the ring of the cache *)

\* While no flush is under way the used slots are a ring, forth and back.
Woven == TwoWay(used \cup {HEAD})
Ringed == writer # Console => Woven /\ \E e : RingOf(e, length, next, used)

\* The records are in the order of the ring.
LEMMA ItemsAre ==
  ASSUME NEW e, RingOf(e, length, next, used), length <= CacheLen, writer # Console
  PROVE  Items = View(e, length, entry, expires)
<1>1. Nth = Steps(next) BY DEF Nth, Steps
<1>2. \A k \in 1 .. length : Nth[k] = e[k]
  <2>1. \A k \in 0 .. length + 1 : Steps(next)[k] = e[k] BY StepsRing
  <2>2. length \in Nat BY DEF RingOf
  <2> QED BY <1>1, <2>1, <2>2
<1> QED BY <1>2 DEF Items, View, Item

\* So they are after a step.
LEMMA ItemsNext ==
  ASSUME NEW e, RingOf(e, length', next', used'), length' <= CacheLen, writer' # Console
  PROVE  Items' = View(e, length', entry', expires')
<1>1. Nth' = Steps(next') BY DEF Nth, Steps
<1>2. \A k \in 1 .. length' : Nth'[k] = e[k]
  <2>1. \A k \in 0 .. length' + 1 : Steps(next')[k] = e[k] BY StepsRing
  <2>2. length' \in Nat BY DEF RingOf
  <2> QED BY <1>1, <2>1, <2>2
<1> QED BY <1>2 DEF Items, View, Item

\* After the step the ring holds these records.
Shows(s) ==
  \E e : /\ RingOf(e, length', next', used')
         /\ View(e, length', entry', expires') = s

\* prev leads to the node before, and the last node is the one before the head.
LEMMA Before ==
  ASSUME TypeOK, NEW e, NEW m, RingOf(e, m, next, used), TwoWay(used \cup {HEAD}),
         NEW j \in 1 .. m + 1
  PROVE  /\ j - 1 \in 0 .. m /\ e[j - 1] \in used \cup {HEAD} /\ prev[e[j]] = e[j - 1]
         /\ \A k \in 0 .. m : k # j - 1 => e[k] # e[j - 1]
<1>1. used \subseteq Slots BY DEF TypeOK
<1>2. j - 1 \in 0 .. m /\ (j - 1) + 1 = j /\ m \in Nat BY DEF RingOf
<1>3. next[e[j - 1]] = e[j] BY <1>2 DEF RingOf
<1>4. /\ \A k \in 0 .. m + 1 : e[k] \in used \cup {HEAD}
      /\ \A a \in 1 .. m, k \in 0 .. m + 1 : e[a] = e[k] => a = k
  BY <1>1, RingHead
<1>5. j - 1 \in 0 .. m + 1 /\ \A k \in 0 .. m : k \in 0 .. m + 1 BY <1>2
<1>6. \A k \in 0 .. m : k # j - 1 => e[k] # e[j - 1]
  <2> SUFFICES ASSUME NEW k \in 0 .. m, k # j - 1, e[k] = e[j - 1] PROVE FALSE
    OBVIOUS
  <2>1. CASE k = 0
    <3>1. j - 1 \in 1 .. m BY <1>2, <2>1
    <3> QED BY <1>4, <1>5, <3>1
  <2>2. CASE k # 0
    <3>1. k \in 1 .. m BY <1>2, <2>2
    <3> QED BY <1>4, <1>5, <3>1
  <2> QED BY <2>1, <2>2
<1> QED BY <1>2, <1>3, <1>4, <1>5, <1>6 DEF TwoWay

\* mylist_del takes the node out of the ring.
LEMMA DelRing ==
  ASSUME TypeOK, NEW e, NEW m, RingOf(e, m, next, used), TwoWay(used \cup {HEAD}),
         NEW j \in 1 .. m, Del(e[j])
  PROVE  RingOf(Drop(e, m, j), m - 1, next', used \ {e[j]})
<1> DEFINE n == e[j]
<1>1. used \in SUBSET Slots /\ n \in used /\ m \in Nat /\ j \in 1 .. m + 1 /\ j \in 0 .. m
  BY DEF TypeOK, RingOf
<1>2. /\ j - 1 \in 0 .. m /\ e[j - 1] \in used \cup {HEAD} /\ prev[n] = e[j - 1]
      /\ \A k \in 0 .. m : k # j - 1 => e[k] # e[j - 1]
  BY <1>1, Before
<1>3. \A k \in 0 .. m : k # j => e[k] # n /\ e[k] \in used \cup {HEAD}
  <2>1. /\ \A k \in 0 .. m + 1 : e[k] \in used \cup {HEAD}
        /\ \A a \in 1 .. m, k \in 0 .. m + 1 : e[a] = e[k] => a = k
    BY <1>1, RingHead
  <2>2. \A k \in 0 .. m : k \in 0 .. m + 1 BY <1>1
  <2> QED BY <2>1, <2>2
<1>4. next' = [next EXCEPT ![e[j - 1]] = next[n], ![n] = NULL] BY <1>2 DEF Del
<1>5. e[j - 1] # n /\ used \cup {HEAD} \subseteq Node
  <2>1. j # j - 1 BY <1>1
  <2> QED BY <1>1, <1>2, <2>1 DEF Node
<1> HIDE DEF n
<1>6. next'[e[j - 1]] = next[n] /\ \A x \in Node : x # n /\ x # e[j - 1] => next'[x] = next[x]
  BY <1>2, <1>4, <1>5 DEF TypeOK
<1>7. \A k \in 0 .. m : k # j - 1 /\ k # j => next'[e[k]] = next[e[k]]
  BY <1>2, <1>3, <1>5, <1>6
<1>8. RingOf(e, m, next, used) /\ used \in SUBSET Slots /\ next'[e[j - 1]] = next[e[j]]
  BY <1>1, <1>6 DEF n
<1> QED BY ONLY <1>7, <1>8, j \in 1 .. m, DropRing

\* mylist_move_head takes a node out and puts it behind the head.
LEMMA MoveRing ==
  ASSUME TypeOK, NEW e, NEW m, RingOf(e, m, next, used), TwoWay(used \cup {HEAD}),
         NEW j \in 1 .. m, MoveHead(e[j])
  PROVE  RingOf(Push(Drop(e, m, j), m - 1, e[j]), m, next', used)
<1> DEFINE n == e[j]
           nx == [next EXCEPT ![e[j - 1]] = next[n]]
           d == Drop(e, m, j)
<1>1. used \in SUBSET Slots /\ n \in used /\ m \in Nat /\ j \in 1 .. m + 1 /\ j \in 0 .. m
  BY DEF TypeOK, RingOf
<1>2. /\ j - 1 \in 0 .. m /\ e[j - 1] \in used \cup {HEAD} /\ prev[n] = e[j - 1]
      /\ \A k \in 0 .. m : k # j - 1 => e[k] # e[j - 1]
  BY <1>1, Before
<1>3. \A k \in 0 .. m : e[k] \in used \cup {HEAD}
  <2>1. \A k \in 0 .. m + 1 : e[k] \in used \cup {HEAD} BY <1>1, RingHead
  <2>2. \A k \in 0 .. m : k \in 0 .. m + 1 BY <1>1
  <2> QED BY <2>1, <2>2
<1>4. next' = [nx EXCEPT ![n] = nx[HEAD], ![HEAD] = n] BY <1>2 DEF MoveHead
<1>5. n # HEAD /\ used \cup {HEAD} \subseteq Node /\ HEAD \notin used
  BY <1>1, Apart DEF Node
<1>6. /\ nx[e[j - 1]] = next[n] /\ DOMAIN nx = Node
      /\ \A x \in Node : x # e[j - 1] => nx[x] = next[x]
  BY <1>2, <1>5 DEF TypeOK
<1> HIDE DEF nx
<1>7. RingOf(d, m - 1, nx, used \ {n})
  <2>1. \A k \in 0 .. m : k # j - 1 /\ k # j => nx[e[k]] = next[e[k]]
    BY <1>2, <1>3, <1>5, <1>6
  <2>2. RingOf(e, m, next, used) /\ used \in SUBSET Slots /\ nx[e[j - 1]] = next[e[j]]
    BY <1>1, <1>6
  <2> QED BY ONLY <2>1, <2>2, j \in 1 .. m, DropRing
<1> HIDE DEF n, d
<1>8. /\ next'[HEAD] = n /\ next'[n] = nx[HEAD]
      /\ \A x \in Node : x # n /\ x # HEAD => next'[x] = nx[x]
  BY <1>1, <1>4, <1>5, <1>6 DEF Node
<1>9. \A x \in used \ {n} : next'[x] = nx[x] BY <1>5, <1>8
<1>10. used \ {n} \in SUBSET Slots /\ n \in Slots \ (used \ {n}) BY <1>1
<1>11. RingOf(Push(d, m - 1, n), (m - 1) + 1, next', (used \ {n}) \cup {n})
  BY ONLY <1>7, <1>8, <1>9, <1>10, PushRing
<1>12. (m - 1) + 1 = m /\ (used \ {n}) \cup {n} = used BY <1>1
<1> QED BY <1>11, <1>12 DEF n, d
----------------------------------------------------------------------------
(* The steps *)

\* Without a fault the pointers go both ways; IInv says so.
LEMMA WovenInv == IInv /\ Running /\ writer # Console => Woven
  BY DEF IInv, Ordered, Shape, Chained, Woven

\* What the ring shows after a step is what LruList sees.
LEMMA Outcome ==
  ASSUME IInv', Running', writer' # Console, NEW s, Shows(s)
  PROVE  Ringed' /\ Items' = s
<1>1. Woven'
  <2>1. IInv' /\ Running' /\ (writer # Console)' => Woven' BY WovenInv, PTL
  <2> QED BY <2>1
<1>2. PICK e : /\ RingOf(e, length', next', used')
               /\ View(e, length', entry', expires') = s
  BY DEF Shows
<1>3. length' <= CacheLen
  BY LRUCacheAssumption DEF IInv, TypeOK, LRUCacheAssumption
<1>4. Items' = s BY <1>2, <1>3, ItemsNext
<1>5. \E f : RingOf(f, length', next', used') BY <1>2
<1> QED BY <1>1, <1>4, <1>5 DEF Ringed

\* A step that leaves the list alone.
LEMMA ListSame ==
  ASSUME Ringed, UNCHANGED list, writer' = Console <=> writer = Console
  PROVE  Ringed' /\ Items' = Items
<1>1. UNCHANGED <<next, prev, entry, expires, used, length>> BY DEF list
<1>2. Nth = Steps(next) /\ Nth' = Steps(next') BY DEF Nth, Steps
<1>3. Nth' = Nth BY <1>1, <1>2
<1>4. Items' = Items BY <1>1, <1>3 DEF Items
<1>5. Woven => Woven' BY <1>1 DEF Woven, TwoWay
<1>6. Ringed' BY <1>1, <1>5 DEF Ringed
<1> QED BY <1>4, <1>6

\* cacheInsert with a free slot.
LEMMA InsertFreeShows ==
  ASSUME IInv, NEW e, RingOf(e, length, next, used), NEW r \in Records,
         InsertFree(r), Free # {}
  PROVE  \E ttl \in Lifetimes :
           Shows(Front([record |-> r, expires |-> clock + ttl],
                       View(e, length, entry, expires)))
<1>1. TypeOK /\ used \in SUBSET Slots /\ length \in Nat BY DEF IInv, TypeOK, RingOf
<1>2. PICK n \in Slots : /\ n \notin used /\ AddHead(n) /\ Fill(n, r)
                         /\ used' = used \cup {n} /\ length' = length + 1
  BY DEF InsertFree, FirstFree, Free
<1>3. PICK ttl \in Lifetimes : /\ expires' = [expires EXCEPT ![n] = clock + ttl]
                               /\ entry' = [entry EXCEPT ![n] = r]
  BY <1>2 DEF Fill
<1>4. n # HEAD /\ HEAD \in Node /\ n \in Node /\ used \subseteq Node /\ HEAD \notin used
  BY <1>1, Apart DEF Node
<1>5. /\ next'[HEAD] = n /\ next'[n] = next[HEAD]
      /\ \A x \in used : next'[x] = next[x]
  BY <1>1, <1>2, <1>4 DEF AddHead, TypeOK
<1>6. RingOf(Push(e, length, n), length', next', used')
  <2>1. RingOf(Push(e, length, n), length + 1, next', used \cup {n})
    BY <1>1, <1>2, <1>5, PushRing
  <2> QED BY <1>2, <2>1
<1>7. View(Push(e, length, n), length', entry', expires')
        = Front([record |-> r, expires |-> clock + ttl], View(e, length, entry, expires))
  <2>1. \A k \in 1 .. length : e[k] \in Slots /\ e[k] # n BY <1>1, <1>2 DEF RingOf
  <2>2. \A k \in 1 .. length :
          entry'[e[k]] = entry[e[k]] /\ expires'[e[k]] = expires[e[k]]
    BY <1>1, <1>3, <2>1 DEF TypeOK
  <2>3. Item(entry', expires', n) = [record |-> r, expires |-> clock + ttl]
    BY <1>1, <1>3 DEF TypeOK, Item
  <2>4. Pushed(e, length, n, entry, expires, entry', expires')
    <3>1. length \in Nat BY <1>1
    <3>2. Agree(e, 1 .. length, entry, expires, entry', expires') BY <2>2 DEF Agree
    <3> QED BY ONLY <3>1, <3>2, ViewPush
  <2> QED BY <1>2, <2>3, <2>4 DEF Pushed
<1>8. Shows(Front([record |-> r, expires |-> clock + ttl],
                  View(e, length, entry, expires)))
  BY <1>6, <1>7 DEF Shows
<1> QED BY <1>8

\* mylist_move_head, be the slot filled anew or not.
LEMMA MoveShows ==
  ASSUME TypeOK, Woven, NEW e, RingOf(e, length, next, used), NEW j \in 1 .. length,
         MoveHead(e[j]), UNCHANGED <<used, length>>,
         \A s \in Slots : s # e[j] => entry'[s] = entry[s] /\ expires'[s] = expires[s]
  PROVE  Shows(Front(Item(entry', expires', e[j]),
                     Minus(View(e, length, entry, expires), j)))
<1> DEFINE d == Drop(e, length, j)
           f == Push(d, length - 1, e[j])
<1>1. length \in Nat /\ length - 1 \in Nat /\ (length - 1) + 1 = length BY DEF RingOf
<1>2. RingOf(f, length', next', used')
  <2>1. RingOf(f, length, next', used) BY MoveRing DEF Woven
  <2> QED BY <2>1
<1>3. \A k \in 1 .. length : k # j => e[k] \in Slots /\ e[k] # e[j]
  BY DEF RingOf, TypeOK
<1>4. \A k \in 1 .. length : k # j =>
        entry'[e[k]] = entry[e[k]] /\ expires'[e[k]] = expires[e[k]]
  BY <1>3
<1>5. View(d, length - 1, entry', expires') = Minus(View(e, length, entry, expires), j)
  <2>1. length \in Nat /\ j \in 1 .. length BY <1>1
  <2>2. Agree(e, (1 .. length) \ {j}, entry, expires, entry', expires')
    BY <1>4 DEF Agree
  <2>3. Dropped(e, length, j, entry, expires, entry', expires')
    BY ONLY <2>1, <2>2, ViewDrop
  <2> QED BY <2>3 DEF Dropped
<1>6. View(f, (length - 1) + 1, entry', expires')
        = Front(Item(entry', expires', e[j]), View(d, length - 1, entry', expires'))
  <2>1. PICK m \in Nat : m = length - 1 BY <1>1
  <2> HIDE DEF d
  <2>2. Pushed(d, m, e[j], entry', expires', entry', expires')
    <3>1. Agree(d, 1 .. m, entry', expires', entry', expires') BY DEF Agree
    <3> QED BY ONLY m \in Nat, <3>1, ViewPush
  <2> QED BY <2>1, <2>2 DEF Pushed
<1> QED BY <1>1, <1>2, <1>5, <1>6 DEF Shows

\* __LRU_list_del
LEMMA DelShows ==
  ASSUME TypeOK, Woven, NEW e, RingOf(e, length, next, used), NEW j \in 1 .. length,
         Unlink(e[j])
  PROVE  Shows(Minus(View(e, length, entry, expires), j))
<1> DEFINE d == Drop(e, length, j)
<1>1. /\ Del(e[j]) /\ used' = used \ {e[j]} /\ length' = length - 1
      /\ entry' = [entry EXCEPT ![e[j]] = NONE] /\ UNCHANGED expires
      /\ length \in Nat
  BY DEF Unlink, RingOf
<1>2. RingOf(d, length - 1, next', used \ {e[j]}) BY <1>1, DelRing DEF Woven
<1>3. \A k \in 1 .. length : k # j => e[k] \in Slots /\ e[k] # e[j]
  BY DEF RingOf, TypeOK
<1>4. \A k \in 1 .. length : k # j =>
        entry'[e[k]] = entry[e[k]] /\ expires'[e[k]] = expires[e[k]]
  BY <1>1, <1>3 DEF TypeOK
<1>5. View(d, length - 1, entry', expires') = Minus(View(e, length, entry, expires), j)
  <2>1. length \in Nat /\ j \in 1 .. length BY <1>1
  <2>2. Agree(e, (1 .. length) \ {j}, entry, expires, entry', expires')
    BY <1>4 DEF Agree
  <2>3. Dropped(e, length, j, entry, expires, entry', expires')
    BY ONLY <2>1, <2>2, ViewDrop
  <2> QED BY <2>3 DEF Dropped
<1> QED BY <1>1, <1>2, <1>5 DEF Shows

\* The steps of LruList, in terms of the cache.
LEMMA AbstractStep ==
  ASSUME \/ \E r \in Records, ttl \in Lifetimes :
              /\ Items' = Front([record |-> r, expires |-> clock + ttl],
                                IF Len(Items) < CacheLen THEN Items
                                ELSE Minus(Items, Len(Items)))
              /\ UNCHANGED clock
         \/ \E k \in DOMAIN Items :
              Items' = Front(Items[k], Minus(Items, k)) /\ UNCHANGED clock
         \/ \E k \in DOMAIN Items : /\ Items[k].expires < clock
                                    /\ Items' = Minus(Items, k) /\ UNCHANGED clock
         \/ Items' = <<>> /\ UNCHANGED clock
         \/ Items' = Items /\ clock' = clock + 1
  PROVE  Abstract!Next
<1>1. \A k : Abstract!Without(k) = Minus(Items, k) BY DEF Abstract!Without, Minus
<1>2. Abstract!Kept = IF Len(Items) < CacheLen THEN Items ELSE Minus(Items, Len(Items))
  BY <1>1 DEF Abstract!Kept
<1>3. ASSUME NEW r \in Records, NEW ttl \in Lifetimes, UNCHANGED clock,
             Items' = Front([record |-> r, expires |-> clock + ttl], Abstract!Kept)
      PROVE  Abstract!Insert(r)
  BY <1>3 DEF Abstract!Insert, Front
<1>4. ASSUME NEW k \in DOMAIN Items, UNCHANGED clock,
             Items' = Front(Items[k], Abstract!Without(k))
      PROVE  Abstract!Touch(k)
  BY <1>4 DEF Abstract!Touch, Front
<1> QED
  BY <1>1, <1>2, <1>3, <1>4
  DEF Abstract!Next, Abstract!Purge, Abstract!Clear, Abstract!Advance

\* A record and its slot.
LEMMA ItemAt ==
  ASSUME NEW e, length \in Nat, Items = View(e, length, entry, expires),
         NEW j \in 1 .. length
  PROVE  /\ Len(Items) = length /\ j \in DOMAIN Items
         /\ Items[j] = Item(entry, expires, e[j])
  BY DEF View

\* cacheInsert is the insertion of LruList, with or without a free slot.
LEMMA InsertStep ==
  ASSUME IInv, IInv', Ringed, NEW r \in Records, cacheInsert(r)
  PROVE  Ringed' /\ [Abstract!Next]_(Abstract!vars)
<1>1. Running /\ writer = NONE /\ UNCHANGED <<writer, clock>>
  BY DEF cacheInsert, InsertFree, InsertEvict, Goto, lock
<1>2. TypeOK /\ Woven /\ writer # Console BY <1>1, WovenInv, Threads DEF IInv
<1>3. PICK e : RingOf(e, length, next, used) BY <1>2 DEF Ringed
<1> DEFINE v == View(e, length, entry, expires)
<1>4. length \in Nat /\ length <= CacheLen /\ CacheLen \in Nat \ {0}
  BY <1>2, LRUCacheAssumption DEF TypeOK, LRUCacheAssumption
<1>5. Items = v BY <1>2, <1>3, <1>4, ItemsAre
<1>6. Len(v) = length BY <1>4 DEF View
<1>7. CASE InsertFree(r) /\ Free # {}
  <2>1. length < CacheLen /\ fault' = fault BY <1>7 DEF InsertFree
  <2>2. PICK ttl \in Lifetimes : Shows(Front([record |-> r, expires |-> clock + ttl], v))
    BY <1>3, <1>7, InsertFreeShows
  <2> HIDE DEF v
  <2>3. /\ Ringed'
        /\ Items' = Front([record |-> r, expires |-> clock + ttl], v)
    BY <1>1, <1>2, <2>1, <2>2, Outcome DEF Running
  <2>4. Items' = Front([record |-> r, expires |-> clock + ttl],
                       IF Len(Items) < CacheLen THEN Items ELSE Minus(Items, Len(Items)))
    BY <1>5, <1>6, <2>1, <2>3
  <2>5. Abstract!Next BY <1>1, <2>4, AbstractStep
  <2> QED BY <2>3, <2>5
<1>8. CASE InsertFree(r) /\ Free = {}
  <2>1. UNCHANGED list BY <1>8 DEF InsertFree
  <2>2. Ringed' /\ Items' = Items BY <1>1, <2>1, ListSame
  <2> QED BY <1>1, <2>2 DEF Abstract!vars
<1>9. CASE InsertEvict(r)
  <2> DEFINE n == prev[HEAD]
  <2>1. length = CacheLen /\ length \in 1 .. length
    BY <1>4, <1>9 DEF InsertEvict
  <2>2. e[length + 1] = HEAD /\ length + 1 \in 1 .. length + 1 BY <1>3, <1>4 DEF RingOf
  <2>3. n = e[length]
    <3>1. prev[e[length + 1]] = e[(length + 1) - 1]
      BY <1>2, <1>3, <2>2, Before DEF Woven
    <3> QED BY <1>4, <2>2, <3>1
  <2>4. n \in used /\ n \in Slots BY <1>2, <1>3, <2>1, <2>3 DEF RingOf, TypeOK
  <2>5. next[n] = HEAD
    <3>1. next[e[length]] = e[length + 1] BY <1>3, <1>4 DEF RingOf
    <3> QED BY <2>2, <2>3, <3>1
  <2>6. /\ MoveHead(n) /\ Fill(n, r) /\ fault' = fault
        /\ used' = used /\ length' = length
    BY <1>9, <2>5 DEF InsertEvict
  <2>7. PICK ttl \in Lifetimes : /\ expires' = [expires EXCEPT ![n] = clock + ttl]
                                 /\ entry' = [entry EXCEPT ![n] = r]
    BY <2>6 DEF Fill
  <2> HIDE DEF n
  <2>8. \A s \in Slots : s # n => entry'[s] = entry[s] /\ expires'[s] = expires[s]
    BY <1>2, <2>7 DEF TypeOK
  <2>9. Item(entry', expires', n) = [record |-> r, expires |-> clock + ttl]
    BY <1>2, <2>4, <2>7 DEF TypeOK, Item
  <2>10. Shows(Front(Item(entry', expires', e[length]), Minus(v, length)))
    BY <1>2, <1>3, <2>1, <2>3, <2>6, <2>8, MoveShows
  <2> HIDE DEF v
  <2>11. Shows(Front([record |-> r, expires |-> clock + ttl], Minus(v, length)))
    BY <2>3, <2>9, <2>10
  <2>12. /\ Ringed'
         /\ Items' = Front([record |-> r, expires |-> clock + ttl], Minus(v, length))
    BY <1>1, <1>2, <2>6, <2>11, Outcome DEF Running
  <2>13. Items' = Front([record |-> r, expires |-> clock + ttl],
                        IF Len(Items) < CacheLen THEN Items ELSE Minus(Items, Len(Items)))
    BY <1>4, <1>5, <1>6, <2>1, <2>12
  <2>14. Abstract!Next BY <1>1, <2>13, AbstractStep
  <2> QED BY <2>12, <2>14
<1> QED BY <1>7, <1>8, <1>9 DEF cacheInsert

\* A rotation moves a record that is there to the front, or does nothing.
LEMMA RotateStep ==
  ASSUME IInv, IInv', Ringed, NEW q \in Queries, RotateNode(q)
  PROVE  Ringed' /\ [Abstract!Next]_(Abstract!vars)
<1> DEFINE n == temp[q][i[q]]
<1>1. /\ Running /\ pc[q] = "rotate" /\ i[q] <= Len(temp[q])
      /\ UNCHANGED <<entry, expires, used, length, clock, writer>>
  BY DEF RotateNode, lock
<1>2. writer = q /\ writer # Console /\ TypeOK BY <1>1, Threads DEF IInv, Locks
<1>3. Woven BY <1>1, <1>2, WovenInv
<1>4. CASE UNCHANGED <<next, prev>>
  <2>1. UNCHANGED list BY <1>1, <1>4 DEF list
  <2>2. Ringed' /\ Items' = Items BY <1>1, <2>1, ListSame
  <2> QED BY <1>1, <2>2 DEF Abstract!vars
<1>5. CASE Linked(n) /\ MoveHead(n) /\ UNCHANGED fault
  <2>1. n \in Slots
    <3>1. temp[q] \in Seq(Slots) BY <1>2 DEF TypeOK
    <3>2. i[q] \in Nat
      <4>1. q \in Proc BY DEF Proc
      <4> QED BY <1>2, <4>1 DEF TypeOK
    <3>3. i[q] >= 1 BY <1>1 DEF IInv, Indices
    <3>4. Len(temp[q]) \in Nat BY <3>1
    <3>5. i[q] \in 1 .. Len(temp[q]) BY <1>1, <3>2, <3>3, <3>4
    <3> QED BY <3>1, <3>5
  <2> HIDE DEF n
  <2>2. n \in used
    <3>1. next[n] \in Node BY <1>5 DEF Linked
    <3>2. PICK rank \in [Slots -> Int] : Shape(used, rank)
      BY <1>1, <1>2 DEF IInv, Ordered, Chained
    <3>3. n \notin used => next[n] \in {NULL, WILD} BY <2>1, <3>2 DEF Shape
    <3> QED BY <3>1, <3>3, Apart
  <2>3. PICK e : RingOf(e, length, next, used) BY <1>2 DEF Ringed
  <2>4. PICK j \in 1 .. length : e[j] = n BY <2>2, <2>3 DEF RingOf
  <2>5. length \in Nat /\ length <= CacheLen
    BY <1>2, LRUCacheAssumption DEF TypeOK, LRUCacheAssumption
  <2> DEFINE v == View(e, length, entry, expires)
  <2>6. Items = v BY <1>2, <2>3, <2>5, ItemsAre
  <2>7. Shows(Front(Item(entry', expires', e[j]), Minus(v, j)))
    BY <1>1, <1>2, <1>3, <1>5, <2>3, <2>4, MoveShows
  <2> HIDE DEF v
  <2>8. Ringed' /\ Items' = Front(Item(entry', expires', e[j]), Minus(v, j))
    BY <1>1, <1>2, <1>5, <2>7, Outcome DEF Running
  <2>9. j \in DOMAIN Items /\ Items[j] = Item(entry, expires, e[j])
    BY <2>5, <2>6, ItemAt DEF v
  <2>10. Items' = Front(Items[j], Minus(Items, j)) BY <1>1, <2>6, <2>8, <2>9
  <2>11. Abstract!Next BY <1>1, <2>9, <2>10, AbstractStep
  <2> QED BY <2>8, <2>11
<1> QED BY <1>4, <1>5 DEF RotateNode

\* A scan takes an overdue record out, or goes on.
LEMMA ScanStep ==
  ASSUME IInv, IInv', Ringed, ScanVisit
  PROVE  Ringed' /\ [Abstract!Next]_(Abstract!vars)
<1> DEFINE n == at[Scanner]
<1>1. /\ Running /\ pc[Scanner] = "scan" /\ n # HEAD
      /\ UNCHANGED <<clock, writer, fault>>
      /\ (Overdue(n) /\ Unlink(n)) \/ UNCHANGED list
  BY DEF ScanVisit, lock
<1>2. writer = Scanner /\ writer # Console /\ TypeOK BY <1>1, Threads DEF IInv, Locks
<1>3. Woven BY <1>1, <1>2, WovenInv
<1>4. n \in used BY <1>1 DEF IInv, Cursors
<1>5. CASE UNCHANGED list
  <2>1. Ringed' /\ Items' = Items BY <1>1, <1>5, ListSame
  <2> QED BY <1>1, <2>1 DEF Abstract!vars
<1> HIDE DEF n
<1>6. CASE Overdue(n) /\ Unlink(n)
  <2>1. PICK e : RingOf(e, length, next, used) BY <1>2 DEF Ringed
  <2>2. PICK j \in 1 .. length : e[j] = n BY <1>4, <2>1 DEF RingOf
  <2>3. length \in Nat /\ length <= CacheLen
    BY <1>2, LRUCacheAssumption DEF TypeOK, LRUCacheAssumption
  <2> DEFINE v == View(e, length, entry, expires)
  <2>4. Items = v BY <1>2, <2>1, <2>3, ItemsAre
  <2>5. Shows(Minus(v, j)) BY <1>2, <1>3, <1>6, <2>1, <2>2, DelShows
  <2> HIDE DEF v
  <2>6. Ringed' /\ Items' = Minus(v, j) BY <1>1, <1>2, <2>5, Outcome DEF Running
  <2>7. j \in DOMAIN Items /\ Items[j] = Item(entry, expires, e[j])
    BY <2>3, <2>4, ItemAt DEF v
  <2>8. Items[j].expires < clock BY <1>6, <2>2, <2>7 DEF Item, Overdue
  <2>9. Abstract!Next BY <1>1, <2>4, <2>6, <2>7, <2>8, AbstractStep
  <2> QED BY <2>6, <2>9
<1> QED BY <1>1, <1>5, <1>6

\* A flush clears the list when it gets the lock, and keeps it empty.
LEMMA FlushStep ==
  ASSUME IInv, IInv', Ringed, cacheFlush
  PROVE  Ringed' /\ [Abstract!Next]_(Abstract!vars)
<1>1. CASE FlushLock
  <2>1. writer' = Console /\ UNCHANGED clock BY <1>1 DEF FlushLock, WriteLock
  <2>2. Items' = <<>> BY <2>1 DEF Items
  <2>3. Abstract!Next BY <2>1, <2>2, AbstractStep
  <2> QED BY <2>1, <2>3 DEF Ringed
<1>2. CASE FlushNode
  <2>1. pc[Console] = "flush" /\ UNCHANGED <<clock, writer>> BY <1>2 DEF FlushNode, lock
  <2>2. writer = Console /\ writer' = Console BY <2>1 DEF IInv, Locks
  <2>3. Items' = Items BY <2>2 DEF Items
  <2> QED BY <2>1, <2>2, <2>3 DEF Ringed, Abstract!vars
<1>3. CASE FlushUnlock
  <2>1. /\ Running /\ pc[Console] = "flush" /\ writer' = NONE /\ UNCHANGED <<clock, fault>>
        /\ next' = [next EXCEPT ![HEAD] = HEAD] /\ used' = {} /\ length' = 0
    BY <1>3 DEF FlushUnlock, Goto, WriteUnlock
  <2>2. writer = Console /\ writer' # Console BY <2>1, Threads DEF IInv, Locks
  <2>3. Items = <<>> BY <2>2 DEF Items
  <2>4. next'[HEAD] = HEAD BY <2>1 DEF IInv, TypeOK, Node
  <2> DEFINE e == [k \in 0 .. 1 |-> HEAD]
  <2>5. e[0] = HEAD /\ e[0 + 1] = HEAD /\ 1 .. 0 = {} /\ \A k \in 0 .. 0 : k = 0
    OBVIOUS
  <2> HIDE DEF e
  <2>6. RingOf(e, 0, next', {}) BY <2>4, <2>5 DEF RingOf
  <2>7. View(e, 0, entry', expires') = <<>> BY <2>5 DEF View
  <2>8. Shows(<<>>) BY <2>1, <2>6, <2>7 DEF Shows
  <2>9. Ringed' /\ Items' = <<>> BY <2>1, <2>2, <2>8, Outcome DEF Running
  <2> QED BY <2>1, <2>3, <2>9 DEF Abstract!vars
<1> QED BY <1>1, <1>2, <1>3 DEF cacheFlush

\* Every step keeps the ring and is a step of LruList or changes nothing of it.
LEMMA RingStep ==
  IInv /\ IInv' /\ Ringed /\ [Next]_vars => Ringed' /\ [Abstract!Next]_(Abstract!vars)
<1> SUFFICES ASSUME IInv, IInv', Ringed, [Next]_vars
             PROVE  Ringed' /\ [Abstract!Next]_(Abstract!vars)
  OBVIOUS
<1>1. ASSUME NEW q \in Queries, cacheQuery(q) \/ RotateLock(q) \/ RotateUnlock(q)
      PROVE  Ringed' /\ [Abstract!Next]_(Abstract!vars)
  <2>1. UNCHANGED list /\ UNCHANGED clock
    BY <1>1 DEF cacheQuery, QueryLock, QueryVisit, QueryUnlock, RotateLock, RotateUnlock
  <2>2. writer' = Console <=> writer = Console
    <3>1. CASE cacheQuery(q)
      BY <3>1 DEF cacheQuery, QueryLock, QueryVisit, QueryUnlock, ReadLock, ReadUnlock, lock
    <3>2. CASE RotateLock(q) BY <3>2, Threads DEF RotateLock, WriteLock
    <3>3. CASE RotateUnlock(q)
      <4>1. pc[q] = "rotate" /\ writer' = NONE BY <3>3 DEF RotateUnlock, Goto, WriteUnlock
      <4>2. writer = q BY <4>1 DEF IInv, Locks
      <4> QED BY <4>1, <4>2, Threads
    <3> QED BY <1>1, <3>1, <3>2, <3>3
  <2>3. Ringed' /\ Items' = Items BY <2>1, <2>2, ListSame
  <2> QED BY <2>1, <2>3 DEF Abstract!vars
<1>2. CASE ScanLock \/ ScanUnlock
  <2>1. UNCHANGED list /\ UNCHANGED clock BY <1>2 DEF ScanLock, ScanUnlock
  <2>2. writer' = Console <=> writer = Console
    <3>1. CASE ScanLock BY <3>1, Threads DEF ScanLock, WriteLock
    <3>2. CASE ScanUnlock
      <4>1. pc[Scanner] = "scan" /\ writer' = NONE BY <3>2 DEF ScanUnlock, Goto, WriteUnlock
      <4>2. writer = Scanner BY <4>1 DEF IInv, Locks
      <4> QED BY <4>1, <4>2, Threads
    <3> QED BY <1>2, <3>1, <3>2
  <2>3. Ringed' /\ Items' = Items BY <2>1, <2>2, ListSame
  <2> QED BY <2>1, <2>3 DEF Abstract!vars
<1>3. CASE Tick
  <2>1. UNCHANGED list /\ UNCHANGED writer /\ clock' = clock + 1 BY <1>3 DEF Tick, lock
  <2>2. Ringed' /\ Items' = Items BY <2>1, ListSame
  <2>3. Abstract!Next BY <2>1, <2>2, AbstractStep
  <2> QED BY <2>2, <2>3
<1>4. CASE UNCHANGED vars
  <2>1. UNCHANGED list /\ UNCHANGED writer /\ UNCHANGED clock BY <1>4 DEF vars, lock
  <2>2. Ringed' /\ Items' = Items BY <2>1, ListSame
  <2> QED BY <2>1, <2>2 DEF Abstract!vars
<1> QED
  BY <1>1, <1>2, <1>3, <1>4, InsertStep, RotateStep, ScanStep, FlushStep
  DEF Next, rotate, cacheScan

\* An empty ring, and an empty list.
LEMMA RingInit == Init => Ringed /\ Abstract!Init
<1> SUFFICES ASSUME Init PROVE Ringed /\ Abstract!Init OBVIOUS
<1>1. /\ next[HEAD] = HEAD /\ prev[HEAD] = HEAD /\ used = {} /\ length = 0
      /\ writer = NONE /\ clock = 0
  BY DEF Init, Node
<1> DEFINE e == [k \in 0 .. 1 |-> HEAD]
<1>2. e[0] = HEAD /\ e[0 + 1] = HEAD /\ 1 .. 0 = {} /\ \A k \in 0 .. 0 : k = 0
  OBVIOUS
<1> HIDE DEF e
<1>3. RingOf(e, length, next, used) BY <1>1, <1>2 DEF RingOf
<1>4. Woven BY <1>1 DEF Woven, TwoWay
<1>5. Items = <<>> BY <1>1, <1>2, Threads DEF Items
<1> QED BY <1>1, <1>3, <1>4, <1>5 DEF Ringed, Abstract!Init

\* The ring is kept.
LEMMA RingKept == Spec => []Ringed
<1>1. Spec => []IInv BY Invariance
<1>2. Init => Ringed BY RingInit
<1>3. IInv /\ IInv' /\ Ringed /\ [Next]_vars => Ringed' BY RingStep
<1> QED BY <1>1, <1>2, <1>3, PTL DEF Spec
----------------------------------------------------------------------------
(* What follows *)

\* Whenever no flush is under way, next runs from the head through exactly the
\* slots that set[] marks, length of them, and back, and prev undoes it, whatever
\* inserts, evictions, rotations and deletions came before.
THEOREM OneRing == Spec => []Ring
<1>1. ASSUME IInv, Ringed, writer # Console
      PROVE  /\ length = Cardinality(used)
             /\ \A n \in used \cup {HEAD} :
                  next[n] \in used \cup {HEAD} /\ prev[next[n]] = n
             /\ {Nth[k] : k \in 1 .. length} = used
             /\ Nth[length + 1] = HEAD
  <2>1. Woven BY <1>1 DEF Ringed
  <2>2. PICK e : RingOf(e, length, next, used) BY <1>1 DEF Ringed
  <2>3. length \in Nat /\ length <= CacheLen
    BY <1>1, LRUCacheAssumption DEF IInv, TypeOK, LRUCacheAssumption
  <2>4. Nth = Steps(next) BY DEF Nth, Steps
  <2>5. \A k \in 0 .. length + 1 : Nth[k] = e[k]
    <3>1. \A k \in 0 .. length + 1 : Steps(next)[k] = e[k] BY <2>2, <2>3, StepsRing
    <3> QED BY <2>4, <3>1
  <2>6. Nth[length + 1] = HEAD BY <2>2, <2>3, <2>5 DEF RingOf
  <2>7. \A k \in 1 .. length : Nth[k] = e[k] BY <2>3, <2>5
  <2>8. {Nth[k] : k \in 1 .. length} = used BY <2>2, <2>7 DEF RingOf
  <2>9. length = Cardinality(used) BY <2>2, RingSize
  <2> QED BY <2>1, <2>6, <2>8, <2>9 DEF Woven, TwoWay
<1>2. IInv /\ Ringed => Ring BY <1>1 DEF Ring
<1> QED BY <1>2, Invariance, RingKept, PTL

\* With all its pointers, slots and threads the cache does what LruList does: a new
\* record goes to the front and drops the last of a full list, a record that was
\* found moves to the front, and only an overdue one is taken out of the middle.
THEOREM Refinement == Spec => ImplementsLruList
<1>1. Init => Abstract!Init BY RingInit
<1>2. IInv /\ IInv' /\ Ringed /\ [Next]_vars => [Abstract!Next]_(Abstract!vars)
  BY RingStep
<1> QED BY <1>1, <1>2, Invariance, RingKept, PTL
  DEF Spec, ImplementsLruList, Abstract!Spec
=============================================================================
