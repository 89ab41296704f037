---------------------------- MODULE HashMapProofs ----------------------------
(***************************************************************************)
(* Proofs about HashMap for any keys, buckets, threads and number of nodes. *)
(* First what a loop over a bucket visits when the pointers form a list,   *)
(* then the inductive invariant, and what follows from it: the shape of    *)
(* the buckets, the safety of a query's copy, and the map of KeyTable.     *)
(***************************************************************************)
EXTENDS HashMap, Induction, FiniteSetTheorems

(* A list of nodes and the loop over it *)

\* The pointers hd and nx lead through the nodes of c, and then to NULL.
Path(c, hd, nx) ==
  /\ c \in Seq(Nodes)
  /\ \A i, j \in DOMAIN c : c[i] = c[j] => i = j
  /\ hd = IF c = <<>> THEN NULL ELSE c[1]
  /\ \A i \in DOMAIN c : nx[c[i]] = IF i = Len(c) THEN NULL ELSE c[i + 1]

\* An element of a sequence.
Has(c, m) == \E i \in DOMAIN c : c[i] = m

\* Chain and Match, of any pointers.
Walk(hd, nx) ==
  LET now[i \in 1 .. Cardinality(Nodes)] ==
        IF i = 1 THEN hd
        ELSE IF now[i - 1] = NULL THEN NULL ELSE nx[now[i - 1]]
      rounds == {i \in 1 .. Cardinality(Nodes) : now[i] # NULL}
  IN [i \in rounds |-> now[i]]
Find(c, ky, k) ==
  LET hits == {i \in DOMAIN c : ky[c[i]] = k}
  IN IF hits = {} THEN NULL ELSE c[CHOOSE i \in hits : \A j \in hits : i <= j]

Rounds(now, hd, nx) ==
  now = [i \in 1 .. Cardinality(Nodes) |->
           IF i = 1 THEN hd
           ELSE IF now[i - 1] = NULL THEN NULL ELSE nx[now[i - 1]]]

\* A sequence of nodes has a domain, and its elements are nodes, none of them NULL.
LEMMA SeqType ==
  ASSUME NEW c \in Seq(Nodes)
  PROVE  /\ DOMAIN c = 1 .. Len(c) /\ Len(c) \in Nat
         /\ \A i \in DOMAIN c : c[i] \in Nodes /\ c[i] # NULL
         /\ (c = <<>>) <=> Len(c) = 0
<1>1. NULL \notin Nodes BY HashMapAssumption DEF HashMapAssumption
<1> QED BY <1>1

\* A list cannot be longer than there are nodes.
LEMMA PathShort ==
  ASSUME NEW c, NEW hd, NEW nx, Path(c, hd, nx)
  PROVE  Cardinality(Nodes) \in Nat /\ Len(c) <= Cardinality(Nodes)
<1>1. IsFiniteSet(Nodes) BY HashMapAssumption DEF HashMapAssumption
<1>2. Cardinality(Nodes) \in Nat BY <1>1, FS_CardinalityType
<1>3. DOMAIN c = 1 .. Len(c) /\ Len(c) \in Nat /\ c \in Seq(Nodes)
  BY SeqType DEF Path
<1>4. c \in [1 .. Len(c) -> Nodes] BY <1>3
<1>5. c \in Injection(1 .. Len(c), Nodes) BY <1>3, <1>4 DEF Path, Injection, IsInjective
<1>6. Cardinality(1 .. Len(c)) <= Cardinality(Nodes) BY <1>1, <1>5, FS_Injection
<1>7. Cardinality(1 .. Len(c)) = Len(c)
  <2>1. 1 \in Int /\ Len(c) \in Int BY <1>3
  <2>2. Cardinality(1 .. Len(c)) = IF 1 > Len(c) THEN 0 ELSE Len(c) - 1 + 1
    BY <2>1, FS_Interval
  <2> QED BY <1>3, <2>2
<1> QED BY <1>2, <1>6, <1>7

\* The loop visits the nodes of the list, in their order.
LEMMA WalkIs ==
  ASSUME NEW c, NEW hd, NEW nx, Path(c, hd, nx)
  PROVE  Walk(hd, nx) = c
<1> DEFINE n == Cardinality(Nodes)
           now == CHOOSE f : Rounds(f, hd, nx)
           g == [i \in 1 .. n |-> IF i <= Len(c) THEN c[i] ELSE NULL]
<1>1. n \in Nat /\ Len(c) <= n BY PathShort
<1>2. /\ DOMAIN c = 1 .. Len(c) /\ Len(c) \in Nat
      /\ \A i \in DOMAIN c : c[i] # NULL
      /\ (c = <<>>) <=> Len(c) = 0
  BY SeqType DEF Path
<1>3. /\ hd = IF c = <<>> THEN NULL ELSE c[1]
      /\ \A i \in 1 .. Len(c) : nx[c[i]] = IF i = Len(c) THEN NULL ELSE c[i + 1]
  BY <1>2 DEF Path
<1> HIDE DEF n
<1>4. \A i \in 1 .. n :
        g[i] = IF i = 1 THEN hd ELSE IF g[i - 1] = NULL THEN NULL ELSE nx[g[i - 1]]
  <2> SUFFICES ASSUME NEW i \in 1 .. n
               PROVE  g[i] = IF i = 1 THEN hd
                             ELSE IF g[i - 1] = NULL THEN NULL ELSE nx[g[i - 1]]
    OBVIOUS
  <2>1. CASE i = 1
    <3>1. g[i] = IF 1 <= Len(c) THEN c[1] ELSE NULL BY <2>1
    <3> HIDE DEF g
    <3>2. 1 <= Len(c) <=> c # <<>> BY <1>2
    <3> QED BY <1>3, <2>1, <3>1, <3>2
  <2>2. CASE i # 1
    <3>1. i - 1 \in 1 .. n /\ (i - 1) + 1 = i BY <1>1, <2>2
    <3>2. CASE i - 1 <= Len(c)
      <4>1. i - 1 \in 1 .. Len(c) BY <1>2, <3>1, <3>2
      <4>2. g[i - 1] = c[i - 1] /\ g[i - 1] # NULL BY <1>2, <3>1, <3>2, <4>1
      <4>3. nx[c[i - 1]] = IF i - 1 = Len(c) THEN NULL ELSE c[i]
        BY <1>3, <3>1, <4>1
      <4>4. g[i] = IF i - 1 = Len(c) THEN NULL ELSE c[i] BY <1>1, <1>2, <3>2
      <4> QED BY <2>2, <4>2, <4>3, <4>4
    <3>3. CASE ~ (i - 1 <= Len(c)) BY <1>1, <1>2, <2>2, <3>1, <3>3
    <3> QED BY <3>2, <3>3
  <2> QED BY <2>1, <2>2
<1>5. Rounds(g, hd, nx)
  <2>1. g = [i \in 1 .. n |-> g[i]] OBVIOUS
  <2> HIDE DEF g
  <2> QED BY <1>4, <2>1 DEF Rounds, n
<1>6. Rounds(now, hd, nx) BY <1>5
<1> HIDE DEF now
<1>7. \A i \in 1 .. n :
        now[i] = IF i = 1 THEN hd ELSE IF now[i - 1] = NULL THEN NULL ELSE nx[now[i - 1]]
  BY <1>6 DEF Rounds, n
<1> DEFINE H == {i \in 0 .. n : i = 0 \/ now[i] = g[i]}
<1>8. 0 \in H BY <1>1
<1>9. ASSUME NEW i \in 1 .. n, i - 1 \in H PROVE i \in H
  <2>1. CASE i = 1
    <3>1. i \in 0 .. n BY <1>1
    <3> HIDE DEF g
    <3> QED BY <1>4, <1>7, <2>1, <3>1
  <2>2. CASE i # 1
    <3>1. now[i - 1] = g[i - 1] /\ i \in 0 .. n BY <1>1, <1>9, <2>2
    <3> HIDE DEF g
    <3> QED BY <1>4, <1>7, <2>2, <3>1
  <2> QED BY <2>1, <2>2
<1> HIDE DEF H
<1>10. \A i \in 0 .. n : i \in H BY <1>1, <1>8, <1>9, UpTo
<1>11. \A i \in 1 .. n : now[i] = IF i <= Len(c) THEN c[i] ELSE NULL
  <2> SUFFICES ASSUME NEW i \in 1 .. n
               PROVE  now[i] = IF i <= Len(c) THEN c[i] ELSE NULL
    OBVIOUS
  <2>1. i \in 0 .. n /\ i # 0 BY <1>1
  <2>2. now[i] = g[i] BY <1>10, <2>1 DEF H
  <2> QED BY <2>2
<1>12. {i \in 1 .. n : now[i] # NULL} = 1 .. Len(c) BY <1>1, <1>2, <1>11
<1>13. Walk(hd, nx) = [i \in {i \in 1 .. n : now[i] # NULL} |-> now[i]]
  BY DEF Walk, Rounds, now, n
<1>14. Walk(hd, nx) = [i \in 1 .. Len(c) |-> c[i]]
  <2>1. \A i \in 1 .. Len(c) : now[i] = c[i] BY <1>1, <1>2, <1>11
  <2> QED BY <1>12, <1>13, <2>1
<1> QED BY <1>2, <1>14 DEF Path

\* The loop that looks for a key stops at its node, if it is there once.
LEMMA FindIs ==
  ASSUME NEW c \in Seq(Nodes), NEW ky, NEW k,
         \A i, j \in DOMAIN c : ky[c[i]] = ky[c[j]] => i = j
  PROVE  \/ Find(c, ky, k) = NULL /\ \A i \in DOMAIN c : ky[c[i]] # k
         \/ \E i \in DOMAIN c : Find(c, ky, k) = c[i] /\ ky[c[i]] = k
<1> DEFINE hits == {i \in DOMAIN c : ky[c[i]] = k}
<1>1. CASE hits = {} BY <1>1 DEF Find
<1>2. CASE hits # {}
  <2>1. PICK i \in hits : TRUE BY <1>2
  <2>2. i \in Nat /\ \A j \in hits : j = i BY <2>1
  <2>3. i = CHOOSE j \in hits : \A m \in hits : j <= m BY <2>1, <2>2
  <2>4. Find(c, ky, k) = c[i] BY <1>2, <2>3 DEF Find
  <2> QED BY <2>1, <2>4
<1> QED BY <1>1, <1>2

\* One node more at the end.
LEMMA PathAppend ==
  ASSUME NEW c, NEW hd, NEW nx, Path(c, hd, nx), NEW n \in Nodes, NEW nx2,
         \A i \in DOMAIN c : c[i] # n,
         \A i \in DOMAIN c : nx2[c[i]] = IF i = Len(c) THEN n ELSE nx[c[i]],
         nx2[n] = NULL
  PROVE  /\ Path(Append(c, n), IF c = <<>> THEN n ELSE hd, nx2)
         /\ Len(Append(c, n)) = Len(c) + 1 /\ Append(c, n)[Len(c) + 1] = n
         /\ \A m : Has(Append(c, n), m) <=> m = n \/ Has(c, m)
<1> DEFINE d == Append(c, n)
<1>1. /\ c \in Seq(Nodes) /\ DOMAIN c = 1 .. Len(c) /\ Len(c) \in Nat
      /\ (c = <<>>) <=> Len(c) = 0
  BY SeqType DEF Path
<1>2. /\ d \in Seq(Nodes) /\ DOMAIN d = 1 .. Len(c) + 1 /\ Len(d) = Len(c) + 1
      /\ d # <<>> /\ d[Len(c) + 1] = n /\ \A i \in 1 .. Len(c) : d[i] = c[i]
  BY <1>1
<1> HIDE DEF d
<1>3. \A i \in DOMAIN d : i \in DOMAIN c \/ i = Len(c) + 1 BY <1>1, <1>2
<1>4. \A i, j \in DOMAIN d : d[i] = d[j] => i = j
  <2> SUFFICES ASSUME NEW i \in DOMAIN d, NEW j \in DOMAIN d, d[i] = d[j] PROVE i = j
    OBVIOUS
  <2>1. CASE i \in DOMAIN c /\ j \in DOMAIN c BY <1>1, <1>2, <2>1 DEF Path
  <2>2. CASE i \in DOMAIN c /\ j = Len(c) + 1 BY <1>1, <1>2, <2>2
  <2>3. CASE i = Len(c) + 1 /\ j \in DOMAIN c BY <1>1, <1>2, <2>3
  <2>4. CASE i = Len(c) + 1 /\ j = Len(c) + 1 BY <2>4
  <2> QED BY <1>3, <2>1, <2>2, <2>3, <2>4
<1>5. \A i \in DOMAIN d : nx2[d[i]] = IF i = Len(d) THEN NULL ELSE d[i + 1]
  <2> SUFFICES ASSUME NEW i \in DOMAIN d
               PROVE  nx2[d[i]] = IF i = Len(d) THEN NULL ELSE d[i + 1]
    OBVIOUS
  <2>1. CASE i = Len(c) + 1 BY <1>2, <2>1
  <2>2. CASE i \in DOMAIN c
    <3>1. d[i] = c[i] /\ i # Len(d) BY <1>1, <1>2, <2>2
    <3>2. CASE i = Len(c) BY <1>2, <2>2, <3>1, <3>2
    <3>3. CASE i # Len(c)
      <4>1. i + 1 \in 1 .. Len(c) BY <1>1, <2>2, <3>3
      <4>2. d[i + 1] = c[i + 1] BY <1>2, <4>1
      <4>3. nx[c[i]] = c[i + 1] BY <2>2, <3>3 DEF Path
      <4> QED BY <2>2, <3>1, <3>3, <4>2, <4>3
    <3> QED BY <3>2, <3>3
  <2> QED BY <1>3, <2>1, <2>2
<1>6. (IF c = <<>> THEN n ELSE hd) = d[1]
  <2>1. CASE c = <<>> BY <1>1, <1>2, <2>1
  <2>2. CASE c # <<>>
    <3>1. 1 \in 1 .. Len(c) BY <1>1, <2>2
    <3> QED BY <1>2, <2>2, <3>1 DEF Path
  <2> QED BY <2>1, <2>2
<1>7. \A m : Has(d, m) <=> m = n \/ Has(c, m)
  <2>1. Len(c) + 1 \in DOMAIN d /\ \A i \in DOMAIN c : i \in DOMAIN d /\ d[i] = c[i]
    BY <1>1, <1>2
  <2> QED BY <1>2, <1>3, <2>1 DEF Has
<1>8. Path(d, IF c = <<>> THEN n ELSE hd, nx2) BY <1>2, <1>4, <1>5, <1>6 DEF Path
<1> QED BY <1>2, <1>7, <1>8 DEF d

\* The first node less.
LEMMA PathTail ==
  ASSUME NEW c, NEW hd, NEW nx, Path(c, hd, nx), c # <<>>, NEW nx2,
         \A i \in DOMAIN c : i # 1 => nx2[c[i]] = nx[c[i]]
  PROVE  /\ Path(Tail(c), nx[hd], nx2) /\ Len(Tail(c)) = Len(c) - 1
         /\ 1 \in DOMAIN c /\ hd = c[1]
         /\ Len(c) > 1 => Tail(c)[Len(c) - 1] = c[Len(c)]
         /\ \A m : Has(Tail(c), m) <=> m # hd /\ Has(c, m)
<1> DEFINE d == Tail(c)
<1>1. /\ c \in Seq(Nodes) /\ DOMAIN c = 1 .. Len(c) /\ Len(c) \in Nat \ {0}
  BY SeqType DEF Path
<1>2. 1 \in DOMAIN c /\ hd = c[1] BY <1>1 DEF Path
<1>3. /\ d \in Seq(Nodes) /\ DOMAIN d = 1 .. Len(c) - 1 /\ Len(d) = Len(c) - 1
      /\ \A i \in 1 .. Len(c) - 1 : d[i] = c[i + 1]
  BY <1>1
<1> HIDE DEF d
<1>4. \A i \in DOMAIN d : i + 1 \in DOMAIN c /\ i + 1 # 1 /\ d[i] = c[i + 1]
  BY <1>1, <1>3
<1>5. \A i, j \in DOMAIN d : d[i] = d[j] => i = j
  <2> SUFFICES ASSUME NEW i \in DOMAIN d, NEW j \in DOMAIN d, d[i] = d[j] PROVE i = j
    OBVIOUS
  <2>1. i + 1 = j + 1 BY <1>4 DEF Path
  <2> QED BY <1>3, <2>1
<1>6. \A i \in DOMAIN d : nx2[d[i]] = IF i = Len(d) THEN NULL ELSE d[i + 1]
  <2> SUFFICES ASSUME NEW i \in DOMAIN d
               PROVE  nx2[d[i]] = IF i = Len(d) THEN NULL ELSE d[i + 1]
    OBVIOUS
  <2>1. nx2[d[i]] = IF i + 1 = Len(c) THEN NULL ELSE c[(i + 1) + 1]
    BY <1>4 DEF Path
  <2>2. i + 1 = Len(c) <=> i = Len(d) BY <1>1, <1>3
  <2>3. i # Len(d) => d[i + 1] = c[(i + 1) + 1]
    <3>1. i # Len(d) => i + 1 \in 1 .. Len(c) - 1 BY <1>1, <1>3
    <3> QED BY <1>3, <3>1
  <2> QED BY <2>1, <2>2, <2>3
<1>7. nx[hd] = IF d = <<>> THEN NULL ELSE d[1]
  <2>1. nx[hd] = IF 1 = Len(c) THEN NULL ELSE c[1 + 1] BY <1>2 DEF Path
  <2>2. d = <<>> <=> Len(c) = 1 BY <1>1, <1>3
  <2>3. d # <<>> => d[1] = c[1 + 1]
    <3>1. d # <<>> => 1 \in 1 .. Len(c) - 1 BY <1>1, <2>2
    <3> QED BY <1>3, <3>1
  <2> QED BY <2>1, <2>2, <2>3
<1>8. \A m : Has(d, m) <=> m # hd /\ Has(c, m)
  <2>1. \A i \in DOMAIN c : i = 1 \/ (i - 1 \in DOMAIN d /\ d[i - 1] = c[i])
    <3> SUFFICES ASSUME NEW i \in DOMAIN c, i # 1
                 PROVE  i - 1 \in DOMAIN d /\ d[i - 1] = c[i]
      OBVIOUS
    <3>1. i - 1 \in 1 .. Len(c) - 1 /\ (i - 1) + 1 = i BY <1>1
    <3> QED BY <1>3, <3>1
  <2>2. \A i \in DOMAIN d : d[i] # hd
    <3> SUFFICES ASSUME NEW i \in DOMAIN d, d[i] = hd PROVE FALSE OBVIOUS
    <3>1. i + 1 = 1 BY <1>2, <1>4 DEF Path
    <3> QED BY <1>4, <3>1
  <2> QED BY <1>2, <1>4, <2>1, <2>2 DEF Has
<1>9. Len(c) > 1 => d[Len(c) - 1] = c[Len(c)]
  <2>1. Len(c) > 1 => Len(c) - 1 \in 1 .. Len(c) - 1 /\ (Len(c) - 1) + 1 = Len(c)
    BY <1>1
  <2> QED BY <1>3, <2>1
<1>10. Path(d, nx[hd], nx2) BY <1>3, <1>5, <1>6, <1>7 DEF Path
<1> QED BY <1>2, <1>3, <1>8, <1>9, <1>10 DEF d

\* A node less, other than the first.
Cut(c, j) == [i \in 1 .. Len(c) - 1 |-> IF i < j THEN c[i] ELSE c[i + 1]]
LEMMA PathCut ==
  ASSUME NEW c, NEW hd, NEW nx, Path(c, hd, nx), NEW j \in DOMAIN c, j # 1, NEW nx2,
         nx2[c[j - 1]] = nx[c[j]],
         \A i \in DOMAIN c : i # j /\ i # j - 1 => nx2[c[i]] = nx[c[i]]
  PROVE  /\ Path(Cut(c, j), hd, nx2) /\ Len(Cut(c, j)) = Len(c) - 1
         /\ j - 1 \in DOMAIN c
         /\ j = Len(c) => Cut(c, j)[Len(c) - 1] = c[j - 1]
         /\ j # Len(c) => Cut(c, j)[Len(c) - 1] = c[Len(c)]
         /\ \A m : Has(Cut(c, j), m) <=> m # c[j] /\ Has(c, m)
<1> DEFINE d == Cut(c, j)
           up(i) == IF i < j THEN i ELSE i + 1
<1>1. /\ c \in Seq(Nodes) /\ DOMAIN c = 1 .. Len(c) /\ Len(c) \in Nat
      /\ j \in 1 .. Len(c) /\ Len(c) > 1 /\ j - 1 \in DOMAIN c
  BY SeqType DEF Path
<1>2. \A i \in 1 .. Len(c) - 1 : d[i] = c[up(i)] /\ up(i) \in DOMAIN c /\ up(i) # j
  BY <1>1 DEF Cut
<1>3. d \in Seq(Nodes) /\ DOMAIN d = 1 .. Len(c) - 1 /\ Len(d) = Len(c) - 1
  <2>1. Len(c) - 1 \in Nat /\ d = [i \in 1 .. Len(c) - 1 |-> d[i]] BY <1>1 DEF Cut
  <2>2. \A i \in 1 .. Len(c) - 1 : d[i] \in Nodes
    <3> HIDE DEF d, up
    <3> QED BY <1>1, <1>2
  <2> HIDE DEF d
  <2> QED BY <2>1, <2>2
<1> HIDE DEF d
<1>4. \A i, k \in DOMAIN d : d[i] = d[k] => i = k
  <2> SUFFICES ASSUME NEW i \in DOMAIN d, NEW k \in DOMAIN d, d[i] = d[k] PROVE i = k
    OBVIOUS
  <2>1. up(i) = up(k)
    <3> HIDE DEF up
    <3>1. up(i) \in DOMAIN c /\ up(k) \in DOMAIN c /\ c[up(i)] = c[up(k)]
      BY <1>2, <1>3
    <3>2. \A x, y \in DOMAIN c : c[x] = c[y] => x = y BY DEF Path
    <3> QED BY <3>1, <3>2
  <2> QED BY <1>1, <1>3, <2>1
<1>5. \A i \in DOMAIN d : nx2[d[i]] = IF i = Len(d) THEN NULL ELSE d[i + 1]
  <2> SUFFICES ASSUME NEW i \in DOMAIN d
               PROVE  nx2[d[i]] = IF i = Len(d) THEN NULL ELSE d[i + 1]
    OBVIOUS
  <2>1. d[i] = c[up(i)] /\ up(i) \in DOMAIN c /\ up(i) # j BY <1>2, <1>3
  <2>2. i # Len(d) => d[i + 1] = c[up(i + 1)]
    <3>1. i # Len(d) => i + 1 \in 1 .. Len(c) - 1 BY <1>1, <1>3
    <3> QED BY <1>2, <3>1
  <2>3. CASE i = j - 1
    <3>1. nx2[d[i]] = nx[c[j]] /\ up(i) = i BY <1>1, <2>1, <2>3
    <3>2. nx[c[j]] = IF j = Len(c) THEN NULL ELSE c[j + 1] BY DEF Path
    <3>3. i = Len(d) <=> j = Len(c) BY <1>1, <1>3, <2>3
    <3>4. up(i + 1) = j + 1 BY <1>1, <2>3
    <3> HIDE DEF up
    <3> QED BY <2>2, <3>1, <3>2, <3>3, <3>4
  <2>4. CASE i # j - 1
    <3>1. up(i) # j - 1 BY <1>1, <1>3, <2>4
    <3>2. nx2[d[i]] = IF up(i) = Len(c) THEN NULL ELSE c[up(i) + 1]
      <4> HIDE DEF up
      <4> QED BY <2>1, <3>1 DEF Path
    <3>3. (up(i) = Len(c) <=> i = Len(d)) /\ up(i + 1) = up(i) + 1
      BY <1>1, <1>3, <2>4
    <3> HIDE DEF up
    <3> QED BY <2>2, <3>2, <3>3
  <2> QED BY <2>3, <2>4
<1>6. hd = IF d = <<>> THEN NULL ELSE d[1]
  <2>1. d # <<>> /\ 1 \in 1 .. Len(c) - 1 BY <1>1, <1>3
  <2>2. d[1] = c[1] BY <1>1, <1>2, <2>1
  <2>3. c # <<>> BY <1>1
  <2> QED BY <2>1, <2>2, <2>3 DEF Path
<1>7. \A m : Has(d, m) <=> m # c[j] /\ Has(c, m)
  <2>1. \A i \in DOMAIN d : d[i] # c[j] /\ \E k \in DOMAIN c : c[k] = d[i]
    <3> HIDE DEF up
    <3> QED BY <1>2, <1>3 DEF Path
  <2>2. ASSUME NEW i \in DOMAIN c, i # j PROVE \E k \in DOMAIN d : d[k] = c[i]
    <3>1. CASE i < j
      <4>1. i \in 1 .. Len(c) - 1 /\ up(i) = i BY <1>1, <3>1
      <4> QED BY <1>2, <1>3, <4>1
    <3>2. CASE i > j
      <4>1. i - 1 \in 1 .. Len(c) - 1 /\ up(i - 1) = i BY <1>1, <3>2
      <4> QED BY <1>2, <1>3, <4>1
    <3> QED BY <1>1, <2>2, <3>1, <3>2
  <2> QED BY <2>1, <2>2 DEF Has
<1>8. d[Len(c) - 1] = IF j = Len(c) THEN c[j - 1] ELSE c[Len(c)]
  <2>1. Len(c) - 1 \in 1 .. Len(c) - 1 BY <1>1
  <2>2. d[Len(c) - 1] = c[up(Len(c) - 1)] BY <1>2, <2>1
  <2>3. up(Len(c) - 1) = IF j = Len(c) THEN j - 1 ELSE Len(c) BY <1>1
  <2> HIDE DEF up
  <2> QED BY <2>2, <2>3
<1>9. Path(d, hd, nx2) BY <1>3, <1>4, <1>5, <1>6 DEF Path
<1> QED BY <1>1, <1>3, <1>7, <1>8, <1>9 DEF d
----------------------------------------------------------------------------
(* The inductive invariant *)

\* The nodes of c are those of bucket b, in a list with its end and its length.
IsBucket(c, b, hd, tl, size, ky, nx) ==
  /\ Path(c, hd, nx)
  /\ size = Len(c)
  /\ tl = IF c = <<>> THEN NULL ELSE c[Len(c)]
  /\ \A n \in Nodes :
       Has(c, n) <=> ky[n] \in Keys /\ BucketOf[ky[n]] = b
Chained(b) == IsBucket(Chain(b), b, head[b], tail[b], bk_s[b], key, next)

\* A node with a key has its value to itself, and no other has the key.  What
\* is alive is filled.
Entries ==
  /\ \A n \in Nodes : IF key[n] = NULL THEN value[n] = NULL
                      ELSE n \in live /\ value[n] \in live \cap Blocks
  /\ \A m, n \in Nodes : key[n] # NULL /\ m # n => key[m] # key[n] /\ value[m] # value[n]
  /\ \A x \in live \cap Blocks : content[x] \in Values

Shape == Entries /\ \A b \in Buckets : Chained(b)

\* A query that was not overtaken has the pointer that its key has.
Held ==
  \A t \in Readers : want[t] # NULL =>
    /\ ret[t] \in Blocks
    /\ t \notin touched => \E n \in Nodes : key[n] = want[t] /\ value[n] = ret[t]

IInv == TypeOK /\ (~ freed => Shape /\ Held)

\* Match finds the node of a key.
At(k) ==
  \/ Match(k) = NULL /\ \A n \in Nodes : key[n] # k
  \/ /\ Match(k) \in Nodes /\ key[Match(k)] = k
     /\ \A n \in Nodes : key[n] = k => n = Match(k)
Found == \A k \in Keys : At(k)

\* What the assumption says of the constants.
LEMMA Constants ==
  /\ IsFiniteSet(Nodes) /\ NULL \notin Nodes /\ NULL \notin Blocks /\ NULL \notin Keys
  /\ Nodes \cap Blocks = {} /\ NONE \notin Values
  /\ \A k \in Keys : BucketOf[k] \in Buckets
  /\ Values \cap {"none", "SUCCUSS", "FAILURE"} = {}
  BY HashMapAssumption DEF HashMapAssumption

\* A loop over a bucket is a loop over its list.
LEMMA ChainIs ==
  ASSUME NEW c, NEW b, IsBucket(c, b, head[b], tail[b], bk_s[b], key, next)
  PROVE  Chain(b) = c
<1>1. Chain(b) = Walk(head[b], next) BY DEF Chain, Walk
<1> QED BY <1>1, WalkIs DEF IsBucket, Has

\* The list of a bucket after a step.
LEMMA ChainedNext ==
  ASSUME NEW b \in Buckets, NEW c,
         IsBucket(c, b, head'[b], tail'[b], bk_s'[b], key', next')
  PROVE  Chained(b)'
<1>1. Chain(b)' = Walk(head'[b], next') BY DEF Chain, Walk
<1>2. Chain(b)' = c BY <1>1, WalkIs DEF IsBucket, Has
<1> QED BY <1>2 DEF Chained

\* The lookup finds what is there.
LEMMA FoundInv == TypeOK /\ Shape => Found
<1> SUFFICES ASSUME TypeOK, Shape, NEW k \in Keys PROVE At(k) BY DEF Found
<1> DEFINE c == Chain(BucketOf[k])
<1>1. /\ Path(c, head[BucketOf[k]], next)
      /\ \A n \in Nodes : (\E i \in DOMAIN c : c[i] = n)
           <=> key[n] \in Keys /\ BucketOf[key[n]] = BucketOf[k]
  BY Constants DEF Shape, Chained, IsBucket, Has
<1>2. Match(k) = Find(c, key, k) BY DEF Match, Find
<1> HIDE DEF c
<1>3. /\ c \in Seq(Nodes) /\ \A i \in DOMAIN c : c[i] \in Nodes
      /\ \A i, j \in DOMAIN c : c[i] = c[j] => i = j
  BY <1>1, SeqType DEF Path
<1>4. \A m, n \in Nodes : key[n] # NULL /\ m # n => key[m] # key[n]
  BY DEF Shape, Entries
<1>5. \A i, j \in DOMAIN c : key[c[i]] = key[c[j]] => i = j
  <2>1. \A i \in DOMAIN c : key[c[i]] # NULL BY <1>1, <1>3, Constants
  <2> QED BY <1>3, <1>4, <2>1
<1>6. \/ Match(k) = NULL /\ \A i \in DOMAIN c : key[c[i]] # k
      \/ \E i \in DOMAIN c : Match(k) = c[i] /\ key[c[i]] = k
  BY <1>2, <1>3, <1>5, FindIs
<1>7. CASE Match(k) = NULL /\ \A i \in DOMAIN c : key[c[i]] # k
  BY <1>1, <1>7 DEF At
<1>8. ASSUME NEW i \in DOMAIN c, Match(k) = c[i], key[c[i]] = k PROVE At(k)
  BY <1>3, <1>4, <1>8, Constants DEF At
<1> QED BY <1>6, <1>7, <1>8
----------------------------------------------------------------------------
(* Types *)

\* malloc gives out what is not in use.
LEMMA Fresh ==
  /\ \A n \in NewNode : n \in Nodes /\ n \notin live
  /\ \A x \in NewBlock : x \in Blocks /\ x \notin live
<1>1. \A S : \A a \in One(S) : a \in S
  <2> SUFFICES ASSUME NEW S, NEW a \in One(S) PROVE a \in S OBVIOUS
  <2>1. S # {} /\ a = CHOOSE x \in S : TRUE BY DEF One
  <2> QED BY <2>1
<1> QED BY <1>1 DEF NewNode, NewBlock

\* A bucket with a head has a list with a count and an end.
LEMMA BucketType ==
  ASSUME TypeOK, Shape, NEW b \in Buckets
  PROVE  /\ head[b] = NULL <=> Chain(b) = <<>>
         /\ bk_s[b] = Len(Chain(b)) /\ Chain(b) \in Seq(Nodes)
         /\ \A n \in Nodes : (\E i \in DOMAIN Chain(b) : Chain(b)[i] = n)
              => key[n] \in Keys /\ BucketOf[key[n]] = b
         /\ head[b] # NULL =>
              /\ bk_s[b] \in Nat \ {0} /\ tail[b] \in Nodes /\ head[b] \in Nodes
              /\ tail[b] = Chain(b)[Len(Chain(b))] /\ Len(Chain(b)) \in DOMAIN Chain(b)
              /\ head[b] = Chain(b)[1] /\ 1 \in DOMAIN Chain(b)
              /\ Chain(b) # <<>>
<1> DEFINE c == Chain(b)
<1>1. /\ Path(c, head[b], next) /\ bk_s[b] = Len(c)
      /\ tail[b] = IF c = <<>> THEN NULL ELSE c[Len(c)]
      /\ \A n \in Nodes : (\E i \in DOMAIN c : c[i] = n)
           <=> key[n] \in Keys /\ BucketOf[key[n]] = b
  BY DEF Shape, Chained, IsBucket, Has
<1> HIDE DEF c
<1>2. c \in Seq(Nodes) /\ head[b] = IF c = <<>> THEN NULL ELSE c[1] BY <1>1 DEF Path
<1>3. /\ DOMAIN c = 1 .. Len(c) /\ Len(c) \in Nat /\ (c = <<>> <=> Len(c) = 0)
      /\ \A i \in DOMAIN c : c[i] \in Nodes /\ c[i] # NULL
  BY <1>2, SeqType
<1>4. c # <<>> => 1 \in DOMAIN c /\ Len(c) \in DOMAIN c BY <1>3
<1> QED BY <1>1, <1>2, <1>3, <1>4 DEF c

\* The types hold at the start.
LEMMA TypeInit == Init => TypeOK
<1> SUFFICES ASSUME Init PROVE TypeOK OBVIOUS
<1>1. /\ head \in [Buckets -> Nodes \cup {NULL}]
      /\ tail \in [Buckets -> Nodes \cup {NULL}]
      /\ bk_s \in [Buckets -> Nat]
      /\ key \in [Nodes -> Keys \cup {NULL}]
      /\ value \in [Nodes -> Blocks \cup {NULL}]
      /\ next \in [Nodes -> Nodes \cup {NULL}]
      /\ content \in [Blocks -> Values \cup {NONE}]
  BY DEF Init
<1>2. /\ live \subseteq Nodes \cup Blocks /\ touched \subseteq Readers
      /\ want \in [Readers -> Keys \cup {NULL}]
      /\ ret \in [Readers -> Blocks \cup {NULL}]
      /\ {raced, crashed, freed} \subseteq BOOLEAN
  BY DEF Init
<1>3. last = <<"none", NULL, "none">> BY DEF Init
<1> QED BY <1>1, <1>2, <1>3 DEF TypeOK

\* The node that remove_bucket finds behind the head has another before it.
LEMMA Inner ==
  ASSUME TypeOK, Shape, NEW k \in Keys, Match(k) \notin {NULL, head[BucketOf[k]]}
  PROVE  LET c == Chain(BucketOf[k]) IN
         /\ \E j \in DOMAIN c : /\ c[j] = Match(k) /\ j # 1 /\ j - 1 \in DOMAIN c
                                /\ Prev(BucketOf[k], Match(k)) = c[j - 1]
         /\ c # <<>> /\ head[BucketOf[k]] # NULL
<1> DEFINE b == BucketOf[k]
           c == Chain(b)
           n == Match(k)
<1>1. /\ Path(c, head[b], next)
      /\ \A m \in Nodes : (\E i \in DOMAIN c : c[i] = m)
           <=> key[m] \in Keys /\ BucketOf[key[m]] = b
  BY Constants DEF Shape, Chained, IsBucket, Has
<1>2. n \in Nodes /\ key[n] = k BY FoundInv DEF Found, At
<1>3. PICK j \in DOMAIN c : c[j] = n BY <1>1, <1>2
<1>4. Prev(b, n) = c[CHOOSE i \in 1 .. Len(c) - 1 : c[i + 1] = n] BY DEF Prev
<1>5. n # head[b] OBVIOUS
<1> HIDE DEF c, n
<1>6. /\ DOMAIN c = 1 .. Len(c) /\ Len(c) \in Nat /\ (c = <<>> <=> Len(c) = 0)
      /\ \A i \in DOMAIN c : c[i] \in Nodes /\ c[i] # NULL
  BY <1>1, SeqType DEF Path
<1>7. c # <<>> /\ head[b] = c[1] /\ head[b] # NULL
  <2>1. c # <<>> /\ 1 \in DOMAIN c BY <1>3, <1>6
  <2>2. head[b] = c[1] BY <1>1, <2>1 DEF Path
  <2> QED BY <1>6, <2>1, <2>2
<1>8. j # 1 /\ j - 1 \in 1 .. Len(c) - 1 /\ (j - 1) + 1 = j BY <1>3, <1>5, <1>6, <1>7
<1>9. \A i \in 1 .. Len(c) - 1 : c[i + 1] = n => i = j - 1
  <2> SUFFICES ASSUME NEW i \in 1 .. Len(c) - 1, c[i + 1] = n PROVE i = j - 1
    OBVIOUS
  <2>1. i + 1 \in DOMAIN c BY <1>6
  <2>2. i + 1 = j BY <1>1, <1>3, <2>1 DEF Path
  <2> QED BY <2>2
<1>10. j - 1 = CHOOSE i \in 1 .. Len(c) - 1 : c[i + 1] = n
  BY <1>3, <1>8, <1>9
<1>11. Prev(b, n) = c[j - 1] BY <1>4, <1>10
<1>12. j - 1 \in DOMAIN c BY <1>6, <1>8
<1> QED BY <1>3, <1>7, <1>8, <1>11, <1>12 DEF c, n

\* Every step keeps the types.
LEMMA TypeStep == IInv /\ [Next]_vars => TypeOK'
<1> SUFFICES ASSUME IInv, [Next]_vars PROVE TypeOK' OBVIOUS
<1>1. TypeOK BY DEF IInv
<1>2. Running => Shape /\ Held /\ Found BY <1>1, FoundInv DEF IInv, Running
<1> USE <1>1 DEF TypeOK, bucket, node, heap, query, Return
<1>3. ASSUME NEW k \in Keys, NEW v \in Values, InsertFirst(k, v) PROVE TypeOK'
  BY <1>3, Fresh, Constants DEF InsertFirst, MakeNode
<1>4. ASSUME NEW k \in Keys, NEW v \in Values, InsertLast(k, v) PROVE TypeOK'
  BY <1>4, Fresh, Constants DEF InsertLast, MakeNode
<1>5. ASSUME NEW k \in Keys, NEW v \in Values, InsertDuplicate(k, v) PROVE TypeOK'
  BY <1>5, Fresh DEF InsertDuplicate
<1>6. ASSUME NEW k \in Keys, NEW v \in Values, ModifyFound(k, v) PROVE TypeOK'
  <2> DEFINE old == value[Match(k)]
  <2>1. old \in live \cap Blocks
    BY <1>2, <1>6, Constants DEF ModifyFound, Found, At, Shape, Entries
  <2>2. PICK x \in NewBlock \cup {old} :
          /\ live' = (live \ {old}) \cup {x}
          /\ value' = [value EXCEPT ![Match(k)] = x]
          /\ content' = [content EXCEPT ![old] = NONE, ![x] = v]
    BY <1>6 DEF ModifyFound
  <2> HIDE DEF old
  <2>3. x \in Blocks BY <2>1, Fresh
  <2> QED BY <1>6, <2>2, <2>3 DEF ModifyFound, Touch, Between
<1>7. ASSUME NEW k \in Keys, NEW v \in Values, ModifyMissing(k) PROVE TypeOK'
  BY <1>7 DEF ModifyMissing
<1>8. ASSUME NEW k \in Keys, RemoveEmpty(k) PROVE TypeOK'
  BY <1>8 DEF RemoveEmpty
<1>9. ASSUME NEW k \in Keys, RemoveHead(k) PROVE TypeOK'
  <2> DEFINE b == BucketOf[k]
  <2>1. Running /\ head[b] # NULL /\ b \in Buckets BY <1>9, Constants DEF RemoveHead
  <2>2. bk_s[b] - 1 \in Nat /\ head[b] \in Nodes BY <1>2, <2>1, BucketType
  <2>3. next[head[b]] \in Nodes \cup {NULL} BY <2>2
  <2>4. /\ head' = [head EXCEPT ![b] = next[head[b]]]
        /\ live' = live \ {head[b], value[head[b]]}
        /\ content' = [content EXCEPT ![value[head[b]]] = NONE]
        /\ key' = [key EXCEPT ![head[b]] = NULL]
        /\ value' = [value EXCEPT ![head[b]] = NULL]
        /\ next' = [next EXCEPT ![head[b]] = NULL]
        /\ bk_s' = [bk_s EXCEPT ![b] = @ - 1]
        /\ tail' = [tail EXCEPT ![b] = NULL] \/ tail' = tail
        /\ touched' = touched \cup Between(k)
        /\ last' = <<"remove", k, "SUCCUSS">>
        /\ UNCHANGED <<want, ret, raced, crashed, freed>>
    BY <1>9 DEF RemoveHead, Drop, Touch
  <2> HIDE DEF b
  <2>5. /\ head' \in [Buckets -> Nodes \cup {NULL}] /\ tail' \in [Buckets -> Nodes \cup {NULL}]
        /\ bk_s' \in [Buckets -> Nat]
    BY <2>1, <2>2, <2>3, <2>4
  <2> QED BY <2>4, <2>5 DEF Between
<1>10. ASSUME NEW k \in Keys, RemoveInner(k) PROVE TypeOK'
  <2> DEFINE b == BucketOf[k]
             prev == Prev(b, Match(k))
  <2>1. Running /\ Match(k) \notin {NULL, head[b]} /\ b \in Buckets
    BY <1>10, Constants DEF RemoveInner
  <2>2. prev \in Nodes /\ head[b] # NULL
    <3>1. \A i \in DOMAIN Chain(b) : Chain(b)[i] \in Nodes
      BY <1>2, <2>1, BucketType, SeqType
    <3> QED BY <1>2, <2>1, <3>1, Inner
  <2>3. bk_s[b] - 1 \in Nat BY <1>2, <2>1, <2>2, BucketType
  <2>4. Match(k) \in Nodes BY <1>2, <2>1 DEF Found, At
  <2>5. /\ key' = [key EXCEPT ![Match(k)] = NULL]
        /\ value' = [value EXCEPT ![Match(k)] = NULL]
        /\ next' = [[next EXCEPT ![prev] = next[Match(k)]] EXCEPT ![Match(k)] = NULL]
        /\ bk_s' = [bk_s EXCEPT ![b] = @ - 1]
        /\ tail' = [tail EXCEPT ![b] = prev] \/ tail' = tail
        /\ touched' = touched \cup Between(k)
        /\ last' = <<"remove", k, "SUCCUSS">>
        /\ UNCHANGED <<head, content, live, want, ret, raced, crashed, freed>>
    BY <1>10 DEF RemoveInner, Drop, Touch
  <2> HIDE DEF b, prev
  <2>6. /\ tail' \in [Buckets -> Nodes \cup {NULL}] /\ bk_s' \in [Buckets -> Nat]
        /\ next' \in [Nodes -> Nodes \cup {NULL}]
    BY <2>1, <2>2, <2>3, <2>4, <2>5
  <2> QED BY <2>5, <2>6 DEF Between
<1>11. ASSUME NEW k \in Keys, RemoveMissing(k) PROVE TypeOK'
  BY <1>11 DEF RemoveMissing
<1>12. ASSUME NEW t \in Readers, NEW k \in Keys, QueryFound(t, k) PROVE TypeOK'
  <2>1. Match(k) \in Nodes
    BY <1>2, <1>12 DEF QueryFound, Idle, Found, At
  <2> QED BY <1>12, <2>1 DEF QueryFound
<1>13. ASSUME NEW t \in Readers, NEW k \in Keys, QueryMissing(t, k) PROVE TypeOK'
  BY <1>13 DEF QueryMissing
<1>14. ASSUME NEW t \in Readers, CopyValue(t) PROVE TypeOK'
  <2>1. ret[t] \in Blocks /\ want[t] \in Keys
    BY <1>2, <1>14 DEF CopyValue, Held
  <2>2. Read(t) \subseteq Values \cup {NONE} BY <2>1 DEF Read
  <2>3. raced' \in BOOLEAN BY <1>14 DEF CopyValue
  <2> QED BY <1>14, <2>1, <2>2, <2>3 DEF CopyValue
<1>15. CASE FreeHash BY <1>15 DEF FreeHash
<1>16. CASE UNCHANGED vars BY <1>16 DEF vars
<1> QED
  BY <1>3, <1>4, <1>5, <1>6, <1>7, <1>8, <1>9, <1>10, <1>11, <1>12, <1>13, <1>14,
     <1>15, <1>16
  DEF Next, insert_hash, modify_hash, remove_hash, query_hash
----------------------------------------------------------------------------
(* What a step does to the lists and to the entries *)

\* A bucket whose nodes keep their keys and their successors.
LEMMA OtherBucket ==
  ASSUME TypeOK, Shape, NEW b \in Buckets,
         head'[b] = head[b], tail'[b] = tail[b], bk_s'[b] = bk_s[b],
         \A n \in Nodes : key[n] \in Keys /\ BucketOf[key[n]] = b => next'[n] = next[n],
         \A n \in Nodes : key'[n] \in Keys /\ BucketOf[key'[n]] = b
                          <=> key[n] \in Keys /\ BucketOf[key[n]] = b
  PROVE  Chained(b)'
<1> DEFINE c == Chain(b)
<1>1. IsBucket(c, b, head[b], tail[b], bk_s[b], key, next) BY DEF Shape, Chained
<1> HIDE DEF c
<1>2. Path(c, head[b], next) BY <1>1 DEF IsBucket, Has
<1>3. \A i \in DOMAIN c : c[i] \in Nodes BY <1>2, SeqType DEF Path
<1>4. \A i \in DOMAIN c : next'[c[i]] = next[c[i]] BY <1>1, <1>3 DEF IsBucket, Has
<1>5. Path(c, head'[b], next') BY <1>2, <1>4 DEF Path
<1>6. IsBucket(c, b, head'[b], tail'[b], bk_s'[b], key', next')
  BY <1>1, <1>5 DEF IsBucket, Has
<1> QED BY <1>6, ChainedNext

\* What an insert of a new key changes, be the bucket empty or not.
Fills(k, v, n, x) ==
  /\ n \in Nodes /\ n \notin live /\ x \in Blocks /\ x \notin live
  /\ Match(k) = NULL
  /\ live' = live \cup {n, x}
  /\ key' = [key EXCEPT ![n] = k]
  /\ value' = [value EXCEPT ![n] = x]
  /\ content' = [content EXCEPT ![x] = v]
  /\ next'[n] = NULL
  /\ head[BucketOf[k]] # NULL => next'[tail[BucketOf[k]]] = n
  /\ \A m \in Nodes : m # n /\ m # tail[BucketOf[k]] => next'[m] = next[m]
  /\ head' = [head EXCEPT ![BucketOf[k]] = IF @ = NULL THEN n ELSE @]
  /\ tail' = [tail EXCEPT ![BucketOf[k]] = n]
  /\ bk_s' = [bk_s EXCEPT ![BucketOf[k]] = @ + 1]
  /\ UNCHANGED <<want, ret, touched>>

\* A new node goes to the end of the list of its bucket.
LEMMA InsertShape ==
  ASSUME TypeOK, TypeOK', Shape, Held, NEW k \in Keys, NEW v \in Values,
         NEW n, NEW x, Fills(k, v, n, x)
  PROVE  Shape' /\ Held'
<1> USE DEF Fills
<1> DEFINE b == BucketOf[k]
           c == Chain(b)
           d == Append(c, n)
<1>1. b \in Buckets BY Constants
<1>2. IsBucket(c, b, head[b], tail[b], bk_s[b], key, next) BY <1>1 DEF Shape, Chained
<1> HIDE DEF c
<1>3. /\ Path(c, head[b], next) /\ bk_s[b] = Len(c)
      /\ tail[b] = IF c = <<>> THEN NULL ELSE c[Len(c)]
      /\ \A m \in Nodes :
           (\E i \in DOMAIN c : c[i] = m) <=> key[m] \in Keys /\ BucketOf[key[m]] = b
  BY <1>2 DEF IsBucket, Has
<1>4. /\ DOMAIN c = 1 .. Len(c) /\ Len(c) \in Nat /\ (c = <<>> <=> Len(c) = 0)
      /\ \A i \in DOMAIN c : c[i] \in Nodes /\ c[i] # NULL
      /\ head[b] = NULL <=> c = <<>>
  <2>1. /\ DOMAIN c = 1 .. Len(c) /\ Len(c) \in Nat /\ (c = <<>> <=> Len(c) = 0)
        /\ \A i \in DOMAIN c : c[i] \in Nodes /\ c[i] # NULL
    BY <1>3, SeqType DEF Path
  <2>2. head[b] = IF c = <<>> THEN NULL ELSE c[1] BY <1>3 DEF Path
  <2>3. c # <<>> => 1 \in DOMAIN c BY <2>1
  <2> QED BY <2>1, <2>2, <2>3
<1>5. key[n] = NULL /\ value[n] = NULL BY DEF Shape, Entries
<1>6. \A i \in DOMAIN c : c[i] # n BY <1>3, <1>5, Constants
<1>7. \A m \in Nodes : key[m] # k BY FoundInv, Constants DEF Found, At
<1>8. key'[n] = k /\ \A m \in Nodes : m # n => key'[m] = key[m] BY DEF TypeOK
<1>9. value'[n] = x /\ \A m \in Nodes : m # n => value'[m] = value[m] BY DEF TypeOK
<1>10. content'[x] = v /\ \A y \in Blocks : y # x => content'[y] = content[y]
  BY DEF TypeOK
<1>11. Chained(b)'
  <2>1. c # <<>> => tail[b] = c[Len(c)] /\ Len(c) \in DOMAIN c BY <1>3, <1>4
  <2>2. \A i \in DOMAIN c : next'[c[i]] = IF i = Len(c) THEN n ELSE next[c[i]]
    <3> SUFFICES ASSUME NEW i \in DOMAIN c
                 PROVE  next'[c[i]] = IF i = Len(c) THEN n ELSE next[c[i]]
      OBVIOUS
    <3>1. c # <<>> /\ head[b] # NULL BY <1>4
    <3>2. CASE i = Len(c) BY <2>1, <3>1, <3>2
    <3>3. CASE i # Len(c)
      <4>1. c[i] # tail[b] BY <1>3, <2>1, <3>1, <3>3 DEF Path
      <4> QED BY <1>4, <1>6, <3>3, <4>1
    <3> QED BY <3>2, <3>3
  <2>3. /\ Path(d, IF c = <<>> THEN n ELSE head[b], next')
        /\ Len(d) = Len(c) + 1 /\ d[Len(c) + 1] = n
        /\ \A m : Has(d, m) <=> m = n \/ Has(c, m)
    BY <1>3, <1>6, <2>2, PathAppend
  <2>4. /\ head'[b] = IF c = <<>> THEN n ELSE head[b]
        /\ tail'[b] = n /\ bk_s'[b] = Len(c) + 1
    BY <1>1, <1>3, <1>4 DEF TypeOK
  <2> HIDE DEF d
  <2>5. d # <<>> BY <1>4, <2>3
  <2>6. \A m \in Nodes :
          Has(d, m) <=> key'[m] \in Keys /\ BucketOf[key'[m]] = b
    BY <1>3, <1>8, <2>3 DEF Has
  <2>7. IsBucket(d, b, head'[b], tail'[b], bk_s'[b], key', next')
    BY <2>3, <2>4, <2>5, <2>6 DEF IsBucket, Has
  <2> QED BY <1>1, <2>7, ChainedNext
<1>12. ASSUME NEW b2 \in Buckets, b2 # b PROVE Chained(b2)'
  <2>1. head'[b2] = head[b2] /\ tail'[b2] = tail[b2] /\ bk_s'[b2] = bk_s[b2]
    BY <1>12 DEF TypeOK
  <2>2. ASSUME NEW m \in Nodes, key[m] \in Keys, BucketOf[key[m]] = b2
        PROVE  next'[m] = next[m]
    <3>1. m # n BY <1>5, <2>2, Constants
    <3>2. m # tail[b]
      <4>1. CASE c = <<>> BY <1>3, <4>1, Constants
      <4>2. CASE c # <<>>
        <5>1. Len(c) \in DOMAIN c /\ tail[b] = c[Len(c)] BY <1>3, <1>4, <4>2
        <5>2. tail[b] = m => BucketOf[key[m]] = b BY <1>3, <5>1
        <5> QED BY <1>12, <2>2, <5>2
      <4> QED BY <4>1, <4>2
    <3> QED BY <3>1, <3>2
  <2>3. \A m \in Nodes : key'[m] \in Keys /\ BucketOf[key'[m]] = b2
                         <=> key[m] \in Keys /\ BucketOf[key[m]] = b2
    BY <1>5, <1>8, <1>12, Constants
  <2> QED BY <2>1, <2>2, <2>3, OtherBucket
<1>13. Entries'
  <2>1. ASSUME NEW m \in Nodes
        PROVE  IF key'[m] = NULL THEN value'[m] = NULL
               ELSE m \in live' /\ value'[m] \in live' \cap Blocks
    <3>1. CASE m = n BY <1>8, <1>9, <3>1, Constants
    <3>2. CASE m # n BY <1>8, <1>9, <3>2 DEF Shape, Entries
    <3> QED BY <3>1, <3>2
  <2>2. ASSUME NEW m \in Nodes, NEW p \in Nodes, key'[p] # NULL, m # p
        PROVE  key'[m] # key'[p] /\ value'[m] # value'[p]
    <3>1. \A q \in Nodes : value[q] # x BY Constants DEF Shape, Entries
    <3>2. CASE m = n BY <1>7, <1>8, <1>9, <2>2, <3>1, <3>2
    <3>3. CASE p = n BY <1>7, <1>8, <1>9, <2>2, <3>1, <3>3
    <3>4. CASE m # n /\ p # n BY <1>8, <1>9, <2>2, <3>4 DEF Shape, Entries
    <3> QED BY <3>2, <3>3, <3>4
  <2>3. \A y \in live' \cap Blocks : content'[y] \in Values
    <3>1. n \notin Blocks BY Constants
    <3> QED BY <1>10, <3>1 DEF Shape, Entries
  <2> QED BY <2>1, <2>2, <2>3 DEF Entries
<1>14. Held'
  <2> SUFFICES ASSUME NEW t \in Readers, want[t] # NULL
               PROVE  /\ ret[t] \in Blocks
                      /\ t \notin touched =>
                           \E m \in Nodes : key'[m] = want[t] /\ value'[m] = ret[t]
    BY DEF Held
  <2>1. \A m \in Nodes : key[m] = want[t] => m # n BY <1>5
  <2> QED BY <1>8, <1>9, <2>1 DEF Held
<1> QED BY <1>11, <1>12, <1>13, <1>14 DEF Shape

\* A node leaves the table; the queries of its key have been overtaken.
LEMMA RemoveEntries ==
  ASSUME TypeOK, Shape, Held, NEW k \in Keys, NEW n \in Nodes, key[n] = k,
         key' = [key EXCEPT ![n] = NULL],
         value' = [value EXCEPT ![n] = NULL],
         live' \subseteq live,
         \A m \in Nodes : m # n /\ key[m] # NULL => m \in live' /\ value[m] \in live',
         \A x \in live' \cap Blocks : content'[x] = content[x],
         touched' = touched \cup Between(k),
         UNCHANGED <<want, ret>>
  PROVE  Entries' /\ Held' /\ key'[n] = NULL
         /\ \A m \in Nodes : m # n => key'[m] = key[m]
<1>1. /\ key'[n] = NULL /\ \A m \in Nodes : m # n => key'[m] = key[m]
      /\ value'[n] = NULL /\ \A m \in Nodes : m # n => value'[m] = value[m]
  BY DEF TypeOK
<1>2. \A m \in Nodes : IF key'[m] = NULL THEN value'[m] = NULL
                       ELSE m \in live' /\ value'[m] \in live' \cap Blocks
  <2> SUFFICES ASSUME NEW m \in Nodes
               PROVE  IF key'[m] = NULL THEN value'[m] = NULL
                      ELSE m \in live' /\ value'[m] \in live' \cap Blocks
    OBVIOUS
  <2>1. CASE m = n BY <1>1, <2>1
  <2>2. CASE m # n BY <1>1, <2>2 DEF Shape, Entries
  <2> QED BY <2>1, <2>2
<1>3. \A m, p \in Nodes :
        key'[p] # NULL /\ m # p => key'[m] # key'[p] /\ value'[m] # value'[p]
  <2> SUFFICES ASSUME NEW m \in Nodes, NEW p \in Nodes, key'[p] # NULL, m # p
               PROVE  key'[m] # key'[p] /\ value'[m] # value'[p]
    OBVIOUS
  <2>1. p # n BY <1>1
  <2>2. CASE m = n
    <3>1. value'[p] \in Blocks BY <1>2
    <3> QED BY <1>1, <2>1, <2>2, <3>1, Constants
  <2>3. CASE m # n BY <1>1, <2>1, <2>3 DEF Shape, Entries
  <2> QED BY <2>2, <2>3
<1>4. \A x \in live' \cap Blocks : content'[x] \in Values BY DEF Shape, Entries
<1>5. Entries' BY <1>2, <1>3, <1>4 DEF Entries
<1>6. Held'
  <2> SUFFICES ASSUME NEW t \in Readers, want[t] # NULL
               PROVE  /\ ret[t] \in Blocks
                      /\ t \notin touched' =>
                           \E m \in Nodes : key'[m] = want[t] /\ value'[m] = ret[t]
    BY DEF Held
  <2>1. t \notin touched' => t \notin touched /\ want[t] # k BY DEF Between
  <2>2. \A m \in Nodes : key[m] = want[t] /\ want[t] # k => m # n OBVIOUS
  <2> QED BY <1>1, <2>1, <2>2 DEF Held
<1> QED BY <1>1, <1>5, <1>6

\* The head of a list is removed.
LEMMA RemoveHeadShape ==
  ASSUME TypeOK, Shape, Held, NEW k \in Keys, RemoveHead(k)
  PROVE  Shape' /\ Held'
<1> DEFINE b == BucketOf[k]
           n == head[b]
           c == Chain(b)
           d == Tail(c)
<1>1. b \in Buckets BY Constants
<1>2. /\ n # NULL /\ Match(k) = n
      /\ head' = [head EXCEPT ![b] = next[n]]
      /\ live' = live \ {n, value[n]}
      /\ content' = [content EXCEPT ![value[n]] = NONE]
      /\ key' = [key EXCEPT ![n] = NULL]
      /\ value' = [value EXCEPT ![n] = NULL]
      /\ next' = [next EXCEPT ![n] = NULL]
      /\ bk_s' = [bk_s EXCEPT ![b] = @ - 1]
      /\ tail' = IF bk_s'[b] = 0 THEN [tail EXCEPT ![b] = NULL] ELSE tail
      /\ touched' = touched \cup Between(k)
      /\ UNCHANGED <<want, ret>>
  BY DEF RemoveHead, Drop, Touch
<1>3. n \in Nodes /\ key[n] = k BY <1>2, FoundInv DEF Found, At
<1>4. IsBucket(c, b, n, tail[b], bk_s[b], key, next) BY <1>1 DEF Shape, Chained
<1> HIDE DEF c, n
<1>5. /\ Path(c, n, next) /\ bk_s[b] = Len(c)
      /\ tail[b] = IF c = <<>> THEN NULL ELSE c[Len(c)]
      /\ \A m \in Nodes :
           (\E i \in DOMAIN c : c[i] = m) <=> key[m] \in Keys /\ BucketOf[key[m]] = b
  BY <1>4 DEF IsBucket, Has
<1>6. /\ DOMAIN c = 1 .. Len(c) /\ Len(c) \in Nat /\ (c = <<>> <=> Len(c) = 0)
      /\ \A i \in DOMAIN c : c[i] \in Nodes /\ c[i] # NULL
  BY <1>5, SeqType DEF Path
<1>7. c # <<>> BY <1>2, <1>5 DEF Path
<1>8. next'[n] = NULL /\ \A m \in Nodes : m # n => next'[m] = next[m]
  BY <1>2, <1>3 DEF TypeOK
<1>9. Entries' /\ Held' /\ key'[n] = NULL /\ \A m \in Nodes : m # n => key'[m] = key[m]
  <2>1. value[n] \in Blocks BY <1>3, Constants DEF Shape, Entries
  <2>2. \A m \in Nodes : m # n /\ key[m] # NULL => m \in live' /\ value[m] \in live'
    <3> SUFFICES ASSUME NEW m \in Nodes, m # n, key[m] # NULL
                 PROVE  m \in live' /\ value[m] \in live'
      OBVIOUS
    <3>1. m \in live /\ value[m] \in live /\ value[m] \in Blocks BY DEF Shape, Entries
    <3>2. value[m] # value[n] BY <1>3 DEF Shape, Entries
    <3>3. m # value[n] /\ value[m] # n BY <1>3, <2>1, <3>1, Constants
    <3> QED BY <1>2, <3>1, <3>2, <3>3
  <2>3. \A x \in live' \cap Blocks : content'[x] = content[x] BY <1>2 DEF TypeOK
  <2>4. /\ live' \subseteq live
        /\ key' = [key EXCEPT ![n] = NULL]
        /\ value' = [value EXCEPT ![n] = NULL]
        /\ touched' = touched \cup Between(k)
        /\ UNCHANGED <<want, ret>>
    BY <1>2
  <2> QED BY <1>3, <2>2, <2>3, <2>4, RemoveEntries
<1>10. Chained(b)'
  <2>1. \A i \in DOMAIN c : i # 1 => next'[c[i]] = next[c[i]]
    <3>1. 1 \in DOMAIN c /\ n = c[1] BY <1>5, <1>6, <1>7 DEF Path
    <3> QED BY <1>5, <1>6, <1>8, <3>1 DEF Path
  <2>2. /\ Path(d, next[n], next') /\ Len(d) = Len(c) - 1
        /\ 1 \in DOMAIN c /\ n = c[1]
        /\ Len(c) > 1 => d[Len(c) - 1] = c[Len(c)]
        /\ \A m : Has(d, m) <=> m # n /\ Has(c, m)
    <3>1. Path(c, n, next) /\ c # <<>> BY <1>5, <1>7
    <3> QED BY ONLY <3>1, <2>1, PathTail
  <2>3. /\ head'[b] = next[n] /\ bk_s'[b] = Len(c) - 1
        /\ tail'[b] = IF Len(c) - 1 = 0 THEN NULL ELSE tail[b]
    BY <1>1, <1>2, <1>5 DEF TypeOK
  <2> HIDE DEF d
  <2>4. d = <<>> <=> Len(c) - 1 = 0
    <3>1. d = <<>> <=> Len(d) = 0 BY <2>2, SeqType DEF Path
    <3> QED BY <2>2, <3>1
  <2>5. Len(c) - 1 # 0 => Len(c) > 1 BY <1>6, <1>7
  <2>6. tail'[b] = IF d = <<>> THEN NULL ELSE d[Len(d)]
    BY <1>5, <1>7, <2>2, <2>3, <2>4, <2>5
  <2>7. \A m \in Nodes :
          Has(d, m) <=> key'[m] \in Keys /\ BucketOf[key'[m]] = b
    BY <1>5, <1>9, <2>2, Constants DEF Has
  <2>8. IsBucket(d, b, head'[b], tail'[b], bk_s'[b], key', next')
    BY <2>2, <2>3, <2>6, <2>7 DEF IsBucket, Has
  <2> QED BY <1>1, <2>8, ChainedNext
<1>11. ASSUME NEW b2 \in Buckets, b2 # b PROVE Chained(b2)'
  <2>1. head'[b2] = head[b2] /\ tail'[b2] = tail[b2] /\ bk_s'[b2] = bk_s[b2]
    BY <1>2, <1>11 DEF TypeOK
  <2>2. \A m \in Nodes : key[m] \in Keys /\ BucketOf[key[m]] = b2 => next'[m] = next[m]
    BY <1>3, <1>8, <1>11
  <2>3. \A m \in Nodes : key'[m] \in Keys /\ BucketOf[key'[m]] = b2
                         <=> key[m] \in Keys /\ BucketOf[key[m]] = b2
    BY <1>3, <1>9, <1>11, Constants
  <2> QED BY <2>1, <2>2, <2>3, OtherBucket
<1> QED BY <1>9, <1>10, <1>11 DEF Shape

\* A node behind the head is removed.
LEMMA RemoveInnerShape ==
  ASSUME TypeOK, Shape, Held, NEW k \in Keys, RemoveInner(k)
  PROVE  Shape' /\ Held'
<1> DEFINE b == BucketOf[k]
           n == Match(k)
           c == Chain(b)
           p == Prev(b, n)
<1>1. b \in Buckets BY Constants
<1>2. /\ n \notin {NULL, head[b]}
      /\ key' = [key EXCEPT ![n] = NULL]
      /\ value' = [value EXCEPT ![n] = NULL]
      /\ next' = [[next EXCEPT ![p] = next[n]] EXCEPT ![n] = NULL]
      /\ bk_s' = [bk_s EXCEPT ![b] = @ - 1]
      /\ tail' = IF tail[b] = n THEN [tail EXCEPT ![b] = p] ELSE tail
      /\ touched' = touched \cup Between(k)
      /\ UNCHANGED <<head, content, live, want, ret>>
  BY DEF RemoveInner, Drop, Touch
<1>3. n \in Nodes /\ key[n] = k BY <1>2, FoundInv DEF Found, At
<1>4. IsBucket(c, b, head[b], tail[b], bk_s[b], key, next) BY <1>1 DEF Shape, Chained
<1>5. PICK j \in DOMAIN c : c[j] = n /\ j # 1 /\ j - 1 \in DOMAIN c /\ p = c[j - 1]
  BY <1>2, Inner
<1>6. c # <<>> BY <1>2, Inner
<1> DEFINE d == Cut(c, j)
<1> HIDE DEF c, n, p
<1>7. /\ Path(c, head[b], next) /\ bk_s[b] = Len(c)
      /\ tail[b] = IF c = <<>> THEN NULL ELSE c[Len(c)]
      /\ \A m \in Nodes :
           (\E i \in DOMAIN c : c[i] = m) <=> key[m] \in Keys /\ BucketOf[key[m]] = b
  BY <1>4 DEF IsBucket, Has
<1>8. /\ DOMAIN c = 1 .. Len(c) /\ Len(c) \in Nat /\ (c = <<>> <=> Len(c) = 0)
      /\ \A i \in DOMAIN c : c[i] \in Nodes /\ c[i] # NULL
  BY <1>7, SeqType DEF Path
<1>9. p \in Nodes /\ p # n
  <2>1. j - 1 # j BY <1>5, <1>8
  <2> QED BY <1>5, <1>7, <1>8, <2>1 DEF Path
<1>10. /\ next'[n] = NULL /\ next'[p] = next[n]
       /\ \A m \in Nodes : m # n /\ m # p => next'[m] = next[m]
  BY <1>2, <1>3, <1>9 DEF TypeOK
<1>11. Entries' /\ Held' /\ key'[n] = NULL /\ \A m \in Nodes : m # n => key'[m] = key[m]
  <2>1. \A m \in Nodes : m # n /\ key[m] # NULL => m \in live' /\ value[m] \in live'
    BY <1>2 DEF Shape, Entries
  <2>2. live' \subseteq live /\ \A x \in live' \cap Blocks : content'[x] = content[x]
    BY <1>2
  <2> QED BY <1>2, <1>3, <2>1, <2>2, RemoveEntries
<1>12. Chained(b)'
  <2>1. \A i \in DOMAIN c : i # j /\ i # j - 1 => next'[c[i]] = next[c[i]]
    <3> SUFFICES ASSUME NEW i \in DOMAIN c, i # j, i # j - 1
                 PROVE  next'[c[i]] = next[c[i]]
      OBVIOUS
    <3>1. c[i] # n /\ c[i] # p BY <1>5, <1>7 DEF Path
    <3> QED BY <1>8, <1>10, <3>1
  <2>2. /\ Path(d, head[b], next') /\ Len(d) = Len(c) - 1
        /\ d[Len(c) - 1] = IF j = Len(c) THEN c[j - 1] ELSE c[Len(c)]
        /\ \A m : Has(d, m) <=> m # n /\ Has(c, m)
    <3>1. Path(c, head[b], next) /\ j \in DOMAIN c /\ j # 1 BY <1>5, <1>7
    <3>2. next'[c[j - 1]] = next[c[j]] BY <1>5, <1>10
    <3>3. /\ Path(Cut(c, j), head[b], next') /\ Len(Cut(c, j)) = Len(c) - 1
          /\ j = Len(c) => Cut(c, j)[Len(c) - 1] = c[j - 1]
          /\ j # Len(c) => Cut(c, j)[Len(c) - 1] = c[Len(c)]
          /\ \A m : Has(Cut(c, j), m) <=> m # c[j] /\ Has(c, m)
      BY ONLY <3>1, <3>2, <2>1, PathCut
    <3> QED BY <1>5, <3>3
  <2>3. /\ head'[b] = head[b] /\ bk_s'[b] = Len(c) - 1
        /\ tail'[b] = IF tail[b] = n THEN p ELSE tail[b]
    BY <1>1, <1>2, <1>7 DEF TypeOK
  <2> HIDE DEF d
  <2>4. d # <<>>
    <3>1. d = <<>> <=> Len(d) = 0 BY <2>2, SeqType DEF Path
    <3>2. Len(c) > 1 BY <1>5, <1>8
    <3> QED BY <1>8, <2>2, <3>1, <3>2
  <2>5. tail[b] = c[Len(c)] /\ Len(c) \in DOMAIN c BY <1>6, <1>7, <1>8
  <2>6. tail[b] = n <=> j = Len(c) BY <1>5, <1>7, <2>5 DEF Path
  <2>7. tail'[b] = IF d = <<>> THEN NULL ELSE d[Len(d)]
    BY <1>5, <2>2, <2>3, <2>4, <2>5, <2>6
  <2>8. \A m \in Nodes :
          Has(d, m) <=> key'[m] \in Keys /\ BucketOf[key'[m]] = b
    BY <1>7, <1>11, <2>2, Constants DEF Has
  <2>9. IsBucket(d, b, head'[b], tail'[b], bk_s'[b], key', next')
    BY <2>2, <2>3, <2>7, <2>8 DEF IsBucket, Has
  <2> QED BY <1>1, <2>9, ChainedNext
<1>13. ASSUME NEW b2 \in Buckets, b2 # b PROVE Chained(b2)'
  <2>1. head'[b2] = head[b2] /\ tail'[b2] = tail[b2] /\ bk_s'[b2] = bk_s[b2]
    BY <1>2, <1>13 DEF TypeOK
  <2>2. ASSUME NEW m \in Nodes, key[m] \in Keys, BucketOf[key[m]] = b2
        PROVE  next'[m] = next[m]
    <3>1. BucketOf[key[p]] = b BY <1>5, <1>7, <1>9
    <3> QED BY <1>3, <1>10, <1>13, <2>2, <3>1
  <2>3. \A m \in Nodes : key'[m] \in Keys /\ BucketOf[key'[m]] = b2
                         <=> key[m] \in Keys /\ BucketOf[key[m]] = b2
    BY <1>3, <1>11, <1>13, Constants
  <2> QED BY <2>1, <2>2, <2>3, OtherBucket
<1> QED BY <1>11, <1>12, <1>13 DEF Shape

\* A value is written, in its block or in another; the queries of its key have
\* been overtaken.
LEMMA ModifyShape ==
  ASSUME TypeOK, Shape, Held, NEW k \in Keys, NEW v \in Values, ModifyFound(k, v)
  PROVE  /\ Shape' /\ Held'
         /\ \E n \in Nodes : key[n] = k /\ content'[value'[n]] = v
         /\ \A n \in Nodes : key[n] \in Keys /\ key[n] # k =>
              content'[value'[n]] = content[value[n]]
<1> DEFINE n == Match(k)
           old == value[n]
<1>1. PICK x \in NewBlock \cup {old} :
        /\ live' = (live \ {old}) \cup {x}
        /\ value' = [value EXCEPT ![n] = x]
        /\ content' = [content EXCEPT ![old] = NONE, ![x] = v]
  BY DEF ModifyFound
<1>2. /\ n # NULL /\ touched' = touched \cup Between(k)
      /\ UNCHANGED <<head, tail, bk_s, key, next, want, ret>>
  BY DEF ModifyFound, Touch, bucket
<1>3. n \in Nodes /\ key[n] = k BY <1>2, FoundInv DEF Found, At
<1> HIDE DEF n
<1>4. old \in live \cap Blocks BY <1>3, Constants DEF Shape, Entries
<1>5. x \in Blocks /\ (x \notin live \/ x = old) /\ x \notin Nodes
  BY <1>4, Fresh, Constants
<1>6. value'[n] = x /\ \A m \in Nodes : m # n => value'[m] = value[m]
  BY <1>1, <1>3 DEF TypeOK
<1>7. /\ content'[x] = v
      /\ \A y \in Blocks : y # x /\ y # old => content'[y] = content[y]
  BY <1>1, <1>4, <1>5 DEF TypeOK
<1>8. \A m \in Nodes : m # n /\ key[m] # NULL =>
        /\ m \in live /\ m # old /\ value[m] \in live \cap Blocks /\ value[m] # old
        /\ value[m] # x
  BY <1>3, <1>4, <1>5, Constants DEF Shape, Entries
<1>9. Entries'
  <2>1. \A m \in Nodes : IF key'[m] = NULL THEN value'[m] = NULL
                         ELSE m \in live' /\ value'[m] \in live' \cap Blocks
    <3> SUFFICES ASSUME NEW m \in Nodes
                 PROVE  IF key[m] = NULL THEN value'[m] = NULL
                        ELSE m \in live' /\ value'[m] \in live' \cap Blocks
      BY <1>2
    <3>1. CASE m = n
      <4>1. n \in live /\ n # old /\ key[n] # NULL
        BY <1>3, <1>4, Constants DEF Shape, Entries
      <4> QED BY <1>1, <1>5, <1>6, <3>1, <4>1
    <3>2. CASE m # n /\ key[m] # NULL BY <1>1, <1>6, <1>8, <3>2
    <3>3. CASE m # n /\ key[m] = NULL BY <1>6, <3>3 DEF Shape, Entries
    <3> QED BY <3>1, <3>2, <3>3
  <2>2. \A m, p \in Nodes :
          key'[p] # NULL /\ m # p => key'[m] # key'[p] /\ value'[m] # value'[p]
    <3> SUFFICES ASSUME NEW m \in Nodes, NEW p \in Nodes, key[p] # NULL, m # p
                 PROVE  key[m] # key[p] /\ value'[m] # value'[p]
      BY <1>2
    <3>1. key[m] # key[p] /\ value[m] # value[p] BY DEF Shape, Entries
    <3>2. CASE m = n BY <1>6, <1>8, <3>1, <3>2
    <3>3. CASE p = n
      <4>1. value[m] # x
        <5>1. CASE key[m] # NULL BY <1>8, <3>3, <5>1
        <5>2. CASE key[m] = NULL BY <1>5, <5>2, Constants DEF Shape, Entries
        <5> QED BY <5>1, <5>2
      <4> QED BY <1>6, <3>1, <3>3, <4>1
    <3>4. CASE m # n /\ p # n BY <1>6, <3>1, <3>4
    <3> QED BY <3>2, <3>3, <3>4
  <2>3. \A y \in live' \cap Blocks : content'[y] \in Values
    BY <1>1, <1>7 DEF Shape, Entries
  <2> QED BY <2>1, <2>2, <2>3 DEF Entries
<1>10. ASSUME NEW b \in Buckets PROVE Chained(b)' BY <1>2, OtherBucket
<1>11. Held'
  <2> SUFFICES ASSUME NEW t \in Readers, want[t] # NULL
               PROVE  /\ ret[t] \in Blocks
                      /\ t \notin touched' =>
                           \E m \in Nodes : key[m] = want[t] /\ value'[m] = ret[t]
    BY <1>2 DEF Held
  <2>1. t \notin touched' => t \notin touched /\ want[t] # k BY <1>2 DEF Between
  <2>2. \A m \in Nodes : key[m] = want[t] /\ want[t] # k => m # n BY <1>3
  <2> QED BY <1>6, <2>1, <2>2 DEF Held
<1>12. \A m \in Nodes : key[m] \in Keys /\ key[m] # k =>
         content'[value'[m]] = content[value[m]]
  BY <1>3, <1>6, <1>7, <1>8, Constants
<1> QED BY <1>3, <1>6, <1>7, <1>9, <1>10, <1>11, <1>12 DEF Shape

\* The two inserts of a new key.
LEMMA InsertFills ==
  ASSUME TypeOK, Shape, NEW k \in Keys, NEW v \in Values,
         InsertFirst(k, v) \/ InsertLast(k, v)
  PROVE  \E n, x : Fills(k, v, n, x)
<1> DEFINE b == BucketOf[k]
<1>1. b \in Buckets BY Constants
<1>2. CASE InsertFirst(k, v)
  <2>1. PICK n \in NewNode, x \in NewBlock :
          /\ live' = live \cup {n, x}
          /\ key' = [key EXCEPT ![n] = k]
          /\ value' = [value EXCEPT ![n] = x]
          /\ content' = [content EXCEPT ![x] = v]
          /\ next' = [next EXCEPT ![n] = NULL]
          /\ head' = [head EXCEPT ![b] = n]
          /\ tail' = [tail EXCEPT ![b] = n]
    BY <1>2 DEF InsertFirst, MakeNode
  <2>2. /\ head[b] = NULL /\ bk_s' = [bk_s EXCEPT ![b] = 1]
        /\ UNCHANGED <<want, ret, touched>>
    BY <1>2 DEF InsertFirst, query
  <2>3. n \in Nodes /\ n \notin live /\ x \in Blocks /\ x \notin live BY Fresh
  <2>4. bk_s[b] = 0
    <3>1. Chain(b) = <<>> /\ bk_s[b] = Len(Chain(b)) BY <1>1, <2>2, BucketType
    <3> QED BY <3>1
  <2>5. bk_s' = [bk_s EXCEPT ![b] = @ + 1] BY <2>2, <2>4
  <2>6. head' = [head EXCEPT ![b] = IF @ = NULL THEN n ELSE @] BY <2>1, <2>2
  <2>7. next'[n] = NULL /\ \A m \in Nodes : m # n => next'[m] = next[m]
    BY <2>1, <2>3 DEF TypeOK
  <2>8. Match(k) = NULL
    <3>1. Chain(b) = <<>> BY <1>1, <2>2, BucketType
    <3>2. {i \in DOMAIN Chain(b) : key[Chain(b)[i]] = k} = {} BY <3>1
    <3> QED BY <3>2 DEF Match
  <2> QED BY <2>1, <2>2, <2>3, <2>5, <2>6, <2>7, <2>8 DEF Fills
<1>3. CASE InsertLast(k, v)
  <2>1. PICK n \in NewNode, x \in NewBlock :
          /\ live' = live \cup {n, x}
          /\ key' = [key EXCEPT ![n] = k]
          /\ value' = [value EXCEPT ![n] = x]
          /\ content' = [content EXCEPT ![x] = v]
          /\ next' = [next EXCEPT ![tail[b]] = n, ![n] = NULL]
          /\ tail' = [tail EXCEPT ![b] = n]
    BY <1>3 DEF InsertLast, MakeNode
  <2>2. /\ head[b] # NULL /\ Match(k) = NULL /\ bk_s' = [bk_s EXCEPT ![b] = @ + 1]
        /\ UNCHANGED <<head, want, ret, touched>>
    BY <1>3 DEF InsertLast, query
  <2>3. n \in Nodes /\ n \notin live /\ x \in Blocks /\ x \notin live BY Fresh
  <2>4. head' = [head EXCEPT ![b] = IF @ = NULL THEN n ELSE @]
    BY <1>1, <2>2 DEF TypeOK
  <2>5. tail[b] \in Nodes /\ tail[b] # n
    <3>1. /\ tail[b] \in Nodes /\ tail[b] = Chain(b)[Len(Chain(b))]
          /\ Len(Chain(b)) \in DOMAIN Chain(b)
      BY <1>1, <2>2, BucketType
    <3>2. key[tail[b]] \in Keys BY <1>1, <3>1, BucketType
    <3>3. tail[b] \in live BY <3>1, <3>2, Constants DEF Shape, Entries
    <3> QED BY <2>3, <3>1, <3>3
  <2>6. /\ next'[n] = NULL /\ next'[tail[b]] = n
        /\ \A m \in Nodes : m # n /\ m # tail[b] => next'[m] = next[m]
    BY <2>1, <2>3, <2>5 DEF TypeOK
  <2> QED BY <2>1, <2>2, <2>3, <2>4, <2>6 DEF Fills
<1> QED BY <1>2, <1>3
----------------------------------------------------------------------------
(* The invariant *)

\* An empty table.
LEMMA InitShape == Init => Shape /\ Held
<1> SUFFICES ASSUME Init PROVE Shape /\ Held OBVIOUS
<1>1. Entries BY Constants DEF Init, Entries
<1>2. ASSUME NEW b \in Buckets PROVE Chained(b)
  <2>1. \A n \in Nodes : key[n] \notin Keys BY Constants DEF Init
  <2>2. head[b] = NULL /\ tail[b] = NULL /\ bk_s[b] = 0 BY DEF Init
  <2>3. <<>> \in Seq(Nodes) /\ DOMAIN <<>> = {} /\ Len(<<>>) = 0 OBVIOUS
  <2>4. Path(<<>>, head[b], next) BY <2>2, <2>3 DEF Path
  <2>5. IsBucket(<<>>, b, head[b], tail[b], bk_s[b], key, next)
    BY <2>1, <2>2, <2>3, <2>4 DEF IsBucket, Has
  <2> QED BY <2>5, ChainIs DEF Chained
<1>3. Held BY DEF Init, Held
<1> QED BY <1>1, <1>2, <1>3 DEF Shape

\* An insert of a key that is there leaves a node that no list has.
LEMMA DuplicateShape ==
  ASSUME TypeOK, Shape, Held, NEW k \in Keys, NEW v \in Values, InsertDuplicate(k, v)
  PROVE  /\ Shape' /\ Held'
         /\ \A n \in Nodes : key[n] # NULL => content'[value'[n]] = content[value[n]]
<1>1. PICK n \in NewNode, x \in NewBlock :
        live' = live \cup {n, x} /\ content' = [content EXCEPT ![x] = v]
  BY DEF InsertDuplicate
<1>2. /\ UNCHANGED <<head, tail, bk_s, key, value, next>>
      /\ UNCHANGED <<want, ret, touched>>
  BY DEF InsertDuplicate, bucket, node, query
<1>3. n \in Nodes /\ x \in Blocks /\ x \notin live BY Fresh
<1>4. content'[x] = v /\ \A y \in Blocks : y # x => content'[y] = content[y]
  BY <1>1, <1>3 DEF TypeOK
<1>5. Entries'
  <2>1. n \notin Blocks BY <1>3, Constants
  <2>2. \A y \in live' \cap Blocks : content'[y] \in Values
    BY <1>1, <1>4, <2>1 DEF Shape, Entries
  <2>3. \A m \in Nodes : IF key'[m] = NULL THEN value'[m] = NULL
                         ELSE m \in live' /\ value'[m] \in live' \cap Blocks
    BY <1>1, <1>2 DEF Shape, Entries
  <2>4. \A m, p \in Nodes :
          key'[p] # NULL /\ m # p => key'[m] # key'[p] /\ value'[m] # value'[p]
    BY <1>2 DEF Shape, Entries
  <2> QED BY <2>2, <2>3, <2>4 DEF Entries
<1>6. ASSUME NEW b \in Buckets PROVE Chained(b)' BY <1>2, OtherBucket
<1>7. Held' BY <1>2 DEF Held
<1>8. \A m \in Nodes : key[m] # NULL => content'[value'[m]] = content[value[m]]
  BY <1>2, <1>3, <1>4 DEF Shape, Entries
<1> QED BY <1>5, <1>6, <1>7, <1>8 DEF Shape

\* A step that changes nothing in the table, nor what a query holds.
LEMMA SameShape ==
  ASSUME Shape, UNCHANGED <<bucket, heap>>
  PROVE  Shape'
<1>1. UNCHANGED <<head, tail, bk_s, key, value, next, content, live>>
  BY DEF bucket, heap, node
<1>2. Entries' BY <1>1 DEF Shape, Entries
<1>3. ASSUME NEW b \in Buckets PROVE Chained(b)'
  <2>1. IsBucket(Chain(b), b, head'[b], tail'[b], bk_s'[b], key', next')
    BY <1>1 DEF Shape, Chained
  <2> QED BY <2>1, ChainedNext
<1> QED BY <1>2, <1>3 DEF Shape

\* Every step keeps the lists, the entries and the pointers of the queries.
LEMMA ShapeStep == IInv /\ TypeOK' /\ [Next]_vars /\ ~ freed' => Shape' /\ Held'
<1> SUFFICES ASSUME IInv, TypeOK', [Next]_vars, ~ freed' PROVE Shape' /\ Held' OBVIOUS
<1>1. TypeOK /\ (~ freed => Shape /\ Held) BY DEF IInv
<1>2. Running => Shape /\ Held /\ Found BY <1>1, FoundInv DEF Running
<1>3. ASSUME NEW k \in Keys, NEW v \in Values, InsertFirst(k, v) \/ InsertLast(k, v)
      PROVE  Shape' /\ Held'
  <2>1. Running BY <1>3 DEF InsertFirst, InsertLast
  <2>2. PICK n, x : Fills(k, v, n, x) BY <1>1, <1>2, <1>3, <2>1, InsertFills
  <2> QED BY <1>1, <1>2, <2>1, <2>2, InsertShape
<1>4. ASSUME NEW k \in Keys, NEW v \in Values, InsertDuplicate(k, v)
      PROVE  Shape' /\ Held'
  BY <1>1, <1>2, <1>4, DuplicateShape DEF InsertDuplicate
<1>5. ASSUME NEW k \in Keys, NEW v \in Values, ModifyFound(k, v)
      PROVE  Shape' /\ Held'
  BY <1>1, <1>2, <1>5, ModifyShape DEF ModifyFound
<1>6. ASSUME NEW k \in Keys, RemoveHead(k) PROVE Shape' /\ Held'
  BY <1>1, <1>2, <1>6, RemoveHeadShape DEF RemoveHead
<1>7. ASSUME NEW k \in Keys, RemoveInner(k) PROVE Shape' /\ Held'
  BY <1>1, <1>2, <1>7, RemoveInnerShape DEF RemoveInner
<1>8. ASSUME NEW k \in Keys,
             RemoveEmpty(k) \/ RemoveMissing(k) \/ (\E v \in Values : ModifyMissing(k))
             \/ (\E t \in Readers : QueryMissing(t, k))
      PROVE  Shape' /\ Held'
  <2>1. Running /\ UNCHANGED <<bucket, heap>> /\ UNCHANGED <<key, value, want, ret, touched>>
    BY <1>8 DEF RemoveEmpty, RemoveMissing, ModifyMissing, QueryMissing, Idle, heap, node,
                query
  <2> QED BY <1>2, <2>1, SameShape DEF Held
<1>9. ASSUME NEW t \in Readers, NEW k \in Keys, QueryFound(t, k) PROVE Shape' /\ Held'
  <2>1. /\ Running /\ UNCHANGED <<bucket, heap>> /\ UNCHANGED <<key, value, touched>>
        /\ Match(k) # NULL
        /\ want' = [want EXCEPT ![t] = k] /\ ret' = [ret EXCEPT ![t] = value[Match(k)]]
    BY <1>9 DEF QueryFound, Idle, heap, node
  <2>2. Match(k) \in Nodes /\ key[Match(k)] = k BY <1>2, <2>1 DEF Found, At
  <2>3. value[Match(k)] \in Blocks BY <1>2, <2>1, <2>2, Constants DEF Shape, Entries
  <2>4. ASSUME NEW r \in Readers, want'[r] # NULL
        PROVE  /\ ret'[r] \in Blocks
               /\ r \notin touched' => \E n \in Nodes : key'[n] = want'[r] /\ value'[n] = ret'[r]
    <3>1. CASE r = t
      <4>1. want'[r] = k /\ ret'[r] = value[Match(k)] BY <1>1, <2>1, <3>1 DEF TypeOK
      <4> QED BY <2>1, <2>2, <2>3, <4>1
    <3>2. CASE r # t
      <4>1. want'[r] = want[r] /\ ret'[r] = ret[r] BY <1>1, <2>1, <3>2 DEF TypeOK
      <4> QED BY <1>2, <2>1, <2>4, <4>1 DEF Held
    <3> QED BY <3>1, <3>2
  <2> QED BY <1>2, <2>1, <2>4, SameShape DEF Held
<1>10. ASSUME NEW t \in Readers, CopyValue(t) PROVE Shape' /\ Held'
  <2>1. /\ Running /\ UNCHANGED <<bucket, heap>> /\ UNCHANGED <<key, value>>
        /\ want' = [want EXCEPT ![t] = NULL] /\ ret' = [ret EXCEPT ![t] = NULL]
        /\ touched' = touched \ {t}
    BY <1>10 DEF CopyValue, heap, node
  <2>2. ASSUME NEW r \in Readers, want'[r] # NULL
        PROVE  r # t /\ want'[r] = want[r] /\ ret'[r] = ret[r]
    BY <1>1, <2>1, <2>2 DEF TypeOK
  <2> QED BY <1>2, <2>1, <2>2, SameShape DEF Held
<1>11. CASE FreeHash BY <1>11 DEF FreeHash
<1>12. CASE UNCHANGED vars
  <2>1. ~ freed /\ UNCHANGED <<bucket, heap>> /\ UNCHANGED <<key, value, want, ret, touched>>
    BY <1>12 DEF vars, heap, node, query
  <2> QED BY <1>1, <2>1, SameShape DEF Held
<1> QED
  BY <1>3, <1>4, <1>5, <1>6, <1>7, <1>8, <1>9, <1>10, <1>11, <1>12
  DEF Next, insert_hash, modify_hash, remove_hash, query_hash

\* The invariant holds in every state, whatever threads, keys and collisions.
THEOREM Invariance == Spec => []IInv
<1>1. Init => IInv BY TypeInit, InitShape DEF IInv
<1>2. IInv /\ [Next]_vars => IInv' BY TypeStep, ShapeStep DEF IInv
<1> QED BY <1>1, <1>2, PTL DEF Spec
----------------------------------------------------------------------------
(* What follows *)

\* The table, the queries and the results keep their types.
THEOREM TypeCorrect == Spec => []TypeOK
<1>1. IInv => TypeOK BY DEF IInv
<1> QED BY <1>1, Invariance, PTL

\* After any calls of insert_hash, remove_hash, modify_hash and query_hash each
\* bucket is one list that bk_s counts and tail ends, with every key once, in its
\* own bucket, and with no node or value that was freed or is shared.
THEOREM BucketsSound == Spec => []BucketShape
<1>1. ASSUME TypeOK, Shape, NEW b \in Buckets
      PROVE  LET c == Chain(b) IN
             /\ bk_s[b] = Len(c)
             /\ tail[b] = IF c = <<>> THEN NULL ELSE c[Len(c)]
             /\ \A i \in DOMAIN c :
                  /\ {c[i], value[c[i]]} \subseteq live
                  /\ BucketOf[key[c[i]]] = b
                  /\ \A j \in DOMAIN c \ {i} : key[c[i]] # key[c[j]]
                  /\ \A m \in live \cap (Nodes \ {c[i]}) : value[m] # value[c[i]]
  <2> DEFINE c == Chain(b)
  <2>1. /\ Path(c, head[b], next) /\ bk_s[b] = Len(c)
        /\ tail[b] = IF c = <<>> THEN NULL ELSE c[Len(c)]
        /\ \A n \in Nodes : (\E i \in DOMAIN c : c[i] = n)
             <=> key[n] \in Keys /\ BucketOf[key[n]] = b
    BY <1>1 DEF Shape, Chained, IsBucket, Has
  <2> HIDE DEF c
  <2>2. /\ \A i \in DOMAIN c : c[i] \in Nodes
        /\ \A i, j \in DOMAIN c : c[i] = c[j] => i = j
    BY <2>1, SeqType DEF Path
  <2>3. ASSUME NEW i \in DOMAIN c
        PROVE  /\ {c[i], value[c[i]]} \subseteq live
               /\ BucketOf[key[c[i]]] = b
               /\ \A j \in DOMAIN c \ {i} : key[c[i]] # key[c[j]]
               /\ \A m \in live \cap (Nodes \ {c[i]}) : value[m] # value[c[i]]
    <3>1. c[i] \in Nodes /\ key[c[i]] \in Keys /\ BucketOf[key[c[i]]] = b BY <2>1, <2>2
    <3>2. key[c[i]] # NULL BY <3>1, Constants
    <3>3. c[i] \in live /\ value[c[i]] \in live BY <1>1, <3>1, <3>2 DEF Shape, Entries
    <3>4. \A m \in Nodes : m # c[i] => key[m] # key[c[i]] /\ value[m] # value[c[i]]
      BY <1>1, <3>1, <3>2 DEF Shape, Entries
    <3> QED BY <2>2, <3>1, <3>3, <3>4
  <2> QED BY <2>1, <2>3 DEF c
<1>2. IInv => BucketShape BY <1>1 DEF IInv, BucketShape
<1> QED BY <1>2, Invariance, PTL

\* A query whose key nobody has touched holds the pointer that is stored.
LEMMA Untouched ==
  ASSUME TypeOK, Shape, Held, NEW t \in Readers, want[t] # NULL, t \notin touched
  PROVE  Stored(t) /\ ret[t] \in live
<1>1. PICK n \in Nodes : key[n] = want[t] /\ value[n] = ret[t] BY DEF Held
<1>2. want[t] \in Keys BY DEF TypeOK
<1>3. Match(want[t]) = n BY <1>1, <1>2, FoundInv DEF Found, At
<1>4. ret[t] \in live BY <1>1, <1>2 DEF Shape, Entries
<1> QED BY <1>1, <1>3, <1>4, Constants DEF Stored

\* The pointer that query_hash follows after its unlock is the one under its key,
\* and alive, unless that key itself was modified or removed in between.
THEOREM StaleOnlyByKey == Spec => []StaleCause
<1>1. IInv => StaleCause BY Untouched DEF IInv, StaleCause
<1> QED BY <1>1, Invariance, PTL
----------------------------------------------------------------------------
(* The table is the map of KeyTable *)

\* What the table has for a key is what the node of the key points to.
See(k) ==
  /\ \A n \in Nodes : key[n] = k =>
       Lookup(k) = content[value[n]] /\ Lookup(k) \in Values /\ Match(k) # NULL
  /\ (\A n \in Nodes : key[n] # k) => Lookup(k) = NONE /\ Match(k) = NULL
Sees == \A k \in Keys : See(k)

\* The map and the flag that HashMap gives to KeyTable.
Map == [k \in Keys |-> Lookup(k)]
Broken == crashed \/ raced \/ freed

\* A lookup is right while the lists are.
LEMMA SeesInv == TypeOK /\ Shape => Sees
<1> SUFFICES ASSUME TypeOK, Shape, NEW k \in Keys PROVE See(k) BY DEF Sees
<1>1. At(k) BY FoundInv DEF Found
<1>2. Match(k) \in Nodes \cup {NULL} BY <1>1 DEF At
<1>3. Lookup(k) = IF Match(k) = NULL THEN NONE ELSE content[value[Match(k)]]
  BY <1>2 DEF Lookup
<1>4. \A n \in Nodes : key[n] = k => content[value[n]] \in Values
  BY Constants DEF Shape, Entries
<1> QED BY <1>1, <1>3, <1>4, Constants DEF At, See

\* What is not written reads the same.
LEMMA MapSame ==
  ASSUME UNCHANGED <<bucket, heap>>
  PROVE  UNCHANGED Map
<1>1. UNCHANGED <<head, key, value, next, content>> BY DEF bucket, heap, node
<1>2. ASSUME NEW k \in Keys PROVE Lookup(k)' = Lookup(k)
  <2> DEFINE b == BucketOf[k]
  <2>1. Chain(b) = Walk(head[b], next) /\ Chain(b)' = Walk(head'[b], next')
    BY DEF Chain, Walk
  <2>2. Chain(b)' = Chain(b) BY <1>1, <2>1
  <2>3. Match(k) = Find(Chain(b), key, k) /\ Match(k)' = Find(Chain(b)', key', k)
    BY DEF Match, Find
  <2>4. Match(k)' = Match(k) BY <1>1, <2>2, <2>3
  <2> QED BY <1>1, <2>4 DEF Lookup
<1> QED BY <1>2 DEF Map

\* One key gets another value, or none, and the others keep theirs.
LEMMA MapSet ==
  ASSUME Sees, Sees', NEW k \in Keys, NEW r,
         IF r = NONE THEN \A n \in Nodes : key'[n] # k
                     ELSE \E n \in Nodes : key'[n] = k /\ content'[value'[n]] = r,
         \A n \in Nodes : key[n] \in Keys /\ key[n] # k =>
           key'[n] = key[n] /\ content'[value'[n]] = content[value[n]],
         \A n \in Nodes : key'[n] \in Keys /\ key'[n] # k => key[n] = key'[n]
  PROVE  Map' = [Map EXCEPT ![k] = r]
<1>1. \A j \in Keys : See(j) /\ See(j)' BY DEF Sees
<1>2. Lookup(k)' = r BY <1>1 DEF See
<1>3. ASSUME NEW j \in Keys, j # k PROVE Lookup(j)' = Lookup(j)
  <2>1. See(j) /\ See(j)' BY <1>1
  <2>2. CASE \E n \in Nodes : key[n] = j
    <3>1. PICK n \in Nodes : key[n] = j BY <2>2
    <3>2. key'[n] = j /\ content'[value'[n]] = content[value[n]] BY <1>3, <3>1
    <3> QED BY <2>1, <3>1, <3>2 DEF See
  <2>3. CASE \A n \in Nodes : key[n] # j
    <3>1. \A n \in Nodes : key'[n] # j BY <1>3, <2>3
    <3> QED BY <2>1, <2>3, <3>1 DEF See
  <2> QED BY <2>2, <2>3
<1>4. Map = [j \in Keys |-> Lookup(j)] /\ Map' = [j \in Keys |-> Lookup(j)'] BY DEF Map
<1> QED BY <1>2, <1>3, <1>4

\* A call of KeyTable, in terms of HashMap.
LEMMA TableCall ==
  ASSUME NEW k \in Keys, UNCHANGED Broken,
         \/ \E v \in Values : last' = <<"insert", k, "SUCCUSS">> /\ Map[k] = NONE
                              /\ Map' = [Map EXCEPT ![k] = v]
         \/ \E v \in Values : last' = <<"insert", k, "FAILURE">> /\ Map[k] # NONE
                              /\ UNCHANGED Map
         \/ last' = <<"remove", k, "SUCCUSS">> /\ Map[k] # NONE
            /\ Map' = [Map EXCEPT ![k] = NONE]
         \/ last' = <<"remove", k, "FAILURE">> /\ Map[k] = NONE /\ UNCHANGED Map
         \/ \E v \in Values : last' = <<"modify", k, "SUCCUSS">> /\ Map[k] # NONE
                              /\ Map' = [Map EXCEPT ![k] = v]
         \/ \E v \in Values : last' = <<"modify", k, "FAILURE">> /\ Map[k] = NONE
                              /\ UNCHANGED Map
         \/ last' = <<"query", k, "FAILURE">> /\ Map[k] = NONE /\ UNCHANGED Map
         \/ last' = <<"query", k, Map[k]>> /\ Map[k] # NONE /\ UNCHANGED Map
  PROVE  Table!Next
<1>1. Table!Call(k)
  BY DEF Table!Call, Table!Insert, Table!Remove, Table!Modify, Table!Query, Table!Return, Map
<1> QED BY <1>1 DEF Table!Next, Broken

\* Every step is a step of KeyTable or changes nothing that it sees.
LEMMA TableStep == IInv /\ IInv' /\ [Next]_vars => [Table!Next]_(Table!vars)
<1> SUFFICES ASSUME IInv, IInv', [Next]_vars PROVE [Table!Next]_(Table!vars) OBVIOUS
<1>1. TypeOK /\ (~ freed => Shape /\ Held) BY DEF IInv
<1>2. ~ freed => Sees BY <1>1, SeesInv
<1>3. ~ freed' => Sees'
  <2>1. TypeOK' /\ Shape' => Sees' BY SeesInv, PTL
  <2> QED BY <2>1 DEF IInv
<1>4. Running => Sees /\ Found /\ ~ freed BY <1>1, <1>2, FoundInv DEF Running
<1>5. \A k \in Keys : Map[k] = Lookup(k) BY DEF Map
<1>6. Running => \A k \in Keys :
        (Match(k) = NULL <=> Map[k] = NONE)
        /\ (Match(k) # NULL => key[Match(k)] = k /\ Match(k) \in Nodes
                               /\ Map[k] = content[value[Match(k)]])
  BY <1>4, <1>5, Constants DEF Sees, See, Found, At
<1>7. Broken' => Table!Next BY DEF Table!Next, Broken
<1>8. ASSUME UNCHANGED <<bucket, heap, last, crashed, raced, freed>>
      PROVE  UNCHANGED Table!vars
  <2>1. UNCHANGED Map BY <1>8, MapSame
  <2> QED BY <1>8, <2>1 DEF Table!vars, Map
<1>9. ASSUME NEW k \in Keys, NEW v \in Values, InsertFirst(k, v) \/ InsertLast(k, v)
      PROVE  Table!Next
  <2>1. Running /\ last' = <<"insert", k, "SUCCUSS">> /\ UNCHANGED <<crashed, raced, freed>>
    BY <1>9 DEF InsertFirst, InsertLast, Return, query
  <2>2. PICK n, x : Fills(k, v, n, x) BY <1>1, <1>9, <2>1, InsertFills DEF Running
  <2>3. /\ n \in Nodes /\ n \notin live /\ x \in Blocks /\ x \notin live /\ Match(k) = NULL
        /\ key' = [key EXCEPT ![n] = k] /\ value' = [value EXCEPT ![n] = x]
        /\ content' = [content EXCEPT ![x] = v]
    BY <2>2 DEF Fills
  <2>4. key'[n] = k /\ value'[n] = x /\ content'[x] = v BY <1>1, <2>3 DEF TypeOK
  <2>5. ASSUME NEW m \in Nodes, m # n
        PROVE  /\ key'[m] = key[m] /\ value'[m] = value[m]
               /\ key[m] \in Keys => content'[value'[m]] = content[value[m]]
    <3>1. key'[m] = key[m] /\ value'[m] = value[m] BY <1>1, <2>3, <2>5 DEF TypeOK
    <3>2. key[m] \in Keys => value[m] \in live \cap Blocks
      BY <1>1, <2>1, Constants DEF Running, Shape, Entries
    <3> QED BY <1>1, <2>3, <3>1, <3>2 DEF TypeOK
  <2>6. key[n] = NULL BY <1>1, <2>1, <2>3 DEF Running, Shape, Entries
  <2>7. v # NONE BY Constants
  <2>8. Sees /\ Sees' BY <1>2, <1>3, <2>1 DEF Running
  <2>9. \A m \in Nodes : key[m] \in Keys /\ key[m] # k =>
          key'[m] = key[m] /\ content'[value'[m]] = content[value[m]]
    BY <2>5, <2>6, Constants
  <2>10. \A m \in Nodes : key'[m] \in Keys /\ key'[m] # k => key[m] = key'[m]
    BY <2>4, <2>5
  <2>11. Map' = [Map EXCEPT ![k] = v] BY <2>3, <2>4, <2>7, <2>8, <2>9, <2>10, MapSet
  <2>12. Map[k] = NONE BY <1>6, <2>1, <2>3
  <2> QED BY <2>1, <2>11, <2>12, TableCall DEF Broken
<1>10. ASSUME NEW k \in Keys, NEW v \in Values, InsertDuplicate(k, v) PROVE Table!Next
  <2>1. /\ Running /\ Match(k) # NULL /\ last' = <<"insert", k, "FAILURE">>
        /\ UNCHANGED <<key, crashed, raced, freed>>
    BY <1>10 DEF InsertDuplicate, Return, query, node
  <2>2. Map[k] # NONE /\ key[Match(k)] = k /\ Match(k) \in Nodes
        /\ Map[k] = content[value[Match(k)]]
    BY <1>6, <2>1
  <2>3. Sees /\ Sees' BY <1>2, <1>3, <2>1 DEF Running
  <2>4. \A n \in Nodes : key[n] # NULL => content'[value'[n]] = content[value[n]]
    BY <1>1, <1>10, <2>1, DuplicateShape DEF Running
  <2>5. Map' = [Map EXCEPT ![k] = Map[k]]
    <3>1. \E n \in Nodes : key'[n] = k /\ content'[value'[n]] = Map[k]
      BY <2>1, <2>2, <2>4, Constants
    <3>2. \A n \in Nodes : key[n] \in Keys /\ key[n] # k =>
            key'[n] = key[n] /\ content'[value'[n]] = content[value[n]]
      BY <2>1, <2>4, Constants
    <3> QED BY <2>1, <2>2, <2>3, <3>1, <3>2, MapSet
  <2>6. UNCHANGED Map BY <2>5 DEF Map
  <2> QED BY <2>1, <2>2, <2>6, TableCall DEF Broken
<1>11. ASSUME NEW k \in Keys, NEW v \in Values, ModifyFound(k, v) PROVE Table!Next
  <2>1. /\ Running /\ Match(k) # NULL /\ last' = <<"modify", k, "SUCCUSS">>
        /\ UNCHANGED <<key, crashed, raced, freed>>
    BY <1>11 DEF ModifyFound, Return
  <2>2. Map[k] # NONE BY <1>6, <2>1
  <2>3. Sees /\ Sees' BY <1>2, <1>3, <2>1 DEF Running
  <2>4. /\ \E n \in Nodes : key[n] = k /\ content'[value'[n]] = v
        /\ \A n \in Nodes : key[n] \in Keys /\ key[n] # k =>
             content'[value'[n]] = content[value[n]]
    BY <1>1, <1>11, <2>1, ModifyShape DEF Running
  <2>5. v # NONE BY Constants
  <2>6. Map' = [Map EXCEPT ![k] = v] BY <2>1, <2>3, <2>4, <2>5, MapSet
  <2> QED BY <2>1, <2>2, <2>6, TableCall DEF Broken
<1>12. ASSUME NEW k \in Keys, RemoveHead(k) \/ RemoveInner(k) PROVE Table!Next
  <2>1. /\ Running /\ Match(k) # NULL /\ last' = <<"remove", k, "SUCCUSS">>
        /\ UNCHANGED <<crashed, raced, freed>>
        /\ key' = [key EXCEPT ![Match(k)] = NULL]
        /\ value' = [value EXCEPT ![Match(k)] = NULL]
        /\ content' = content \/ content' = [content EXCEPT ![value[Match(k)]] = NONE]
    BY <1>12 DEF RemoveHead, RemoveInner, Drop, Return
  <2>2. Map[k] # NONE /\ key[Match(k)] = k /\ Match(k) \in Nodes BY <1>6, <2>1
  <2>3. Sees /\ Sees' BY <1>2, <1>3, <2>1 DEF Running
  <2>4. /\ key'[Match(k)] = NULL
        /\ \A m \in Nodes : m # Match(k) => key'[m] = key[m] /\ value'[m] = value[m]
    BY <1>1, <2>1, <2>2 DEF TypeOK
  <2>5. \A m \in Nodes : m # Match(k) => key[m] # k
    BY <1>4, <2>1 DEF Found, At
  <2>6. ASSUME NEW m \in Nodes, key[m] \in Keys, key[m] # k
        PROVE  key'[m] = key[m] /\ content'[value'[m]] = content[value[m]]
    <3>1. m # Match(k) BY <2>2, <2>6
    <3>2. value[m] # value[Match(k)] /\ value[m] \in Blocks
      BY <1>1, <2>1, <2>2, <2>6, <3>1, Constants DEF Running, Shape, Entries
    <3> QED BY <1>1, <2>1, <2>4, <3>1, <3>2 DEF TypeOK
  <2>7. \A m \in Nodes : key'[m] # k BY <2>4, <2>5, Constants
  <2>8. \A m \in Nodes : key'[m] \in Keys /\ key'[m] # k => key[m] = key'[m]
    BY <2>4, Constants
  <2>9. Map' = [Map EXCEPT ![k] = NONE] BY <2>3, <2>6, <2>7, <2>8, MapSet
  <2> QED BY <2>1, <2>2, <2>9, TableCall DEF Broken
<1>13. ASSUME NEW k \in Keys, RemoveEmpty(k) PROVE Table!Next
  BY <1>7, <1>13 DEF RemoveEmpty, Broken
<1>14. ASSUME NEW k \in Keys,
              RemoveMissing(k) \/ (\E v \in Values : ModifyMissing(k))
              \/ (\E t \in Readers : QueryMissing(t, k))
       PROVE  Table!Next
  <2>1. /\ Running /\ Match(k) = NULL /\ UNCHANGED <<bucket, heap>>
        /\ UNCHANGED <<crashed, raced, freed>>
        /\ \/ last' = <<"remove", k, "FAILURE">>
           \/ (\E v \in Values : last' = <<"modify", k, "FAILURE">>)
           \/ last' = <<"query", k, "FAILURE">>
    BY <1>14 DEF RemoveMissing, ModifyMissing, QueryMissing, Idle, Return, query
  <2>2. UNCHANGED Map BY <2>1, MapSame
  <2>3. Map[k] = NONE BY <1>6, <2>1
  <2> QED BY <2>1, <2>2, <2>3, TableCall DEF Broken
<1>15. ASSUME NEW t \in Readers, NEW k \in Keys, QueryFound(t, k)
       PROVE  UNCHANGED Table!vars
  BY <1>8, <1>15 DEF QueryFound
<1>16. ASSUME NEW t \in Readers, CopyValue(t) PROVE Table!Next
  <2>1. /\ Running /\ want[t] # NULL /\ UNCHANGED <<bucket, heap>>
        /\ UNCHANGED <<crashed, freed>> /\ raced' = (raced \/ t \in touched)
    BY <1>16 DEF CopyValue
  <2>2. CASE t \in touched BY <1>7, <2>1, <2>2 DEF Broken
  <2>3. CASE t \notin touched
    <3>1. Match(want[t]) # NULL /\ value[Match(want[t])] = ret[t] /\ ret[t] \in live
      BY <1>1, <2>1, <2>3, Untouched DEF Running, Stored
    <3>2. want[t] \in Keys BY <1>1, <2>1 DEF TypeOK
    <3>3. Map[want[t]] # NONE /\ Map[want[t]] = content[ret[t]]
      BY <1>6, <2>1, <3>1, <3>2
    <3>4. last' = <<"query", want[t], Map[want[t]]>>
      BY <1>16, <2>3, <3>1, <3>3 DEF CopyValue, Read, Return
    <3>5. UNCHANGED Map BY <2>1, MapSame
    <3>6. UNCHANGED Broken BY <2>1, <2>3 DEF Broken, Running
    <3> QED BY <3>2, <3>3, <3>4, <3>5, <3>6, TableCall
  <2> QED BY <2>2, <2>3
<1>17. CASE FreeHash BY <1>7, <1>17 DEF FreeHash, Broken
<1>18. CASE UNCHANGED vars BY <1>8, <1>18 DEF vars, query
<1> QED
  BY <1>9, <1>10, <1>11, <1>12, <1>13, <1>14, <1>15, <1>16, <1>17, <1>18
  DEF Next, insert_hash, modify_hash, remove_hash, query_hash

\* An empty table is an empty map.
LEMMA TableInit == Init => Table!Init
<1> SUFFICES ASSUME Init PROVE Table!Init OBVIOUS
<1>1. Sees BY TypeInit, InitShape, SeesInv
<1>2. \A k \in Keys : Lookup(k) = NONE BY <1>1, Constants DEF Init, Sees, See
<1> QED BY <1>2 DEF Init, Table!Init

\* The table behaves as the map of KeyTable: every call of any thread takes effect
\* at one moment, whatever keys collide, until a query is overtaken, a remove meets
\* an empty bucket, or the table is freed.
THEOREM Refinement == Spec => ImplementsKeyTable
<1>1. Spec => []IInv BY Invariance
<1>2. Init => Table!Init BY TableInit
<1>3. IInv /\ IInv' /\ [Next]_vars => [Table!Next]_(Table!vars) BY TableStep
<1> QED BY <1>1, <1>2, <1>3, PTL DEF Spec, ImplementsKeyTable, Table!Spec
=============================================================================
