----------------------------- MODULE Induction -----------------------------
(***************************************************************************)
(* Induction over numbers, with sets in place of operators.  What a        *)
(* recursive function computes is proved with it: if a statement fails for *)
(* some number, it fails for a least one, and holds for the one before.    *)
(* And there is a function with a given recursive definition.              *)
(***************************************************************************)
EXTENDS Integers, WellFoundedInduction, TLAPS

\* The order of the natural numbers is well-founded.
LEMMA NatOrder ==
  \E R : /\ IsWellFoundedOn(R, Nat)
         /\ \A a, b \in Nat : a < b => <<a, b>> \in R
<1>1. \A a, b \in Nat : a < b => <<a, b>> \in OpToRel(<, Nat)
  BY DEF OpToRel
<1> QED BY <1>1, NatLessThanWellFounded

\* A set of natural numbers that is not empty has a least element.
LEMMA Least ==
  ASSUME NEW T, T \subseteq Nat, T # {}
  PROVE  \E x \in T : \A y \in T : x <= y
<1>1. PICK R : /\ IsWellFoundedOn(R, Nat)
               /\ \A a, b \in Nat : a < b => <<a, b>> \in R
  BY NatOrder
<1>2. PICK x \in T : \A y \in T : ~ (<<y, x>> \in R)
  <2>1. IsWellFoundedOn(R, Nat) BY <1>1
  <2>2. T \subseteq Nat /\ T # {} OBVIOUS
  <2>3. \E x \in T : \A y \in T : ~ (<<y, x>> \in R)
    BY ONLY <2>1, <2>2, WFMin, Zenon
  <2> QED BY <2>3
<1>3. ASSUME NEW y \in T PROVE x <= y
  <2>1. ~ (<<y, x>> \in R) BY <1>2
  <2>2. x \in Nat /\ y \in Nat OBVIOUS
  <2>3. ~ (y < x) BY <2>1, <2>2, <1>1
  <2> QED BY <2>3, <2>2
<1> QED BY <1>3

\* What holds of 0, and of every number up to n whose predecessor it holds of,
\* holds of all numbers up to n.  The statement is given by the set of the
\* numbers it holds of.
LEMMA UpTo ==
  ASSUME NEW n \in Nat, NEW H, 0 \in H,
         \A i \in 1 .. n : i - 1 \in H => i \in H
  PROVE  \A i \in 0 .. n : i \in H
<1> SUFFICES ASSUME NEW k \in 0 .. n, k \notin H PROVE FALSE OBVIOUS
<1> DEFINE T == {i \in 0 .. n : i \notin H}
<1>1. PICK x \in T : \A y \in T : x <= y
  <2>1. T \subseteq Nat /\ T # {} OBVIOUS
  <2> HIDE DEF T
  <2> QED BY <2>1, Least
<1>2. x # 0 OBVIOUS
<1>3. x \in 1 .. n /\ x - 1 \in 0 .. n BY <1>2
<1>4. x - 1 \notin T BY <1>1, <1>3
<1>5. x - 1 \in H BY <1>3, <1>4
<1> QED BY <1>3, <1>5

\* f starts with a and goes on from each value with nx.
Iterated(f, n, a, nx) ==
  f = [k \in 0 .. n |-> IF k = 0 THEN a ELSE nx[f[k - 1]]]

\* There is such a function.
LEMMA Iterate ==
  ASSUME NEW n \in Nat, NEW a, NEW nx
  PROVE  \E f : Iterated(f, n, a, nx)
<1> DEFINE Is(f, m) == /\ f = [k \in 0 .. m |-> f[k]]
                       /\ f[0] = a
                       /\ \A k \in 1 .. m : f[k] = nx[f[k - 1]]
           H == {m \in 0 .. n : \E f : Is(f, m)}
<1>1. 0 \in H
  <2> DEFINE f == [k \in 0 .. 0 |-> a]
  <2>1. f = [k \in 0 .. 0 |-> f[k]] /\ f[0] = a /\ 1 .. 0 = {} OBVIOUS
  <2> HIDE DEF f
  <2> QED BY <2>1
<1>2. ASSUME NEW m \in 1 .. n, m - 1 \in H PROVE m \in H
  <2>1. PICK f : Is(f, m - 1) BY <1>2
  <2>7. m \in Nat /\ m >= 1 OBVIOUS
  <2>8. f[0] = a /\ \A k \in 1 .. m - 1 : f[k] = nx[f[k - 1]] BY <2>1
  <2> DEFINE g == [k \in 0 .. m |-> IF k = m THEN nx[f[m - 1]] ELSE f[k]]
  <2>2. /\ g[m] = nx[f[m - 1]] /\ \A k \in 0 .. m - 1 : g[k] = f[k]
        /\ g = [k \in 0 .. m |-> g[k]]
    OBVIOUS
  <2> HIDE DEF g
  <2>3. g[0] = a
    <3>1. 0 \in 0 .. m - 1 BY <2>7
    <3> QED BY <2>2, <2>8, <3>1
  <2>4. ASSUME NEW k \in 1 .. m PROVE g[k] = nx[g[k - 1]]
    <3>1. k - 1 \in 0 .. m - 1 BY <2>4
    <3>2. g[k - 1] = f[k - 1] BY <2>2, <3>1
    <3>3. CASE k = m BY <2>2, <3>2, <3>3
    <3>4. CASE k # m
      <4>1. k \in 1 .. m - 1 /\ k \in 0 .. m - 1 BY <3>4, <2>7
      <4> QED BY <2>2, <2>8, <3>2, <4>1
    <3> QED BY <3>3, <3>4
  <2>5. Is(g, m) BY <2>2, <2>3, <2>4
  <2>6. m \in 0 .. n OBVIOUS
  <2> QED BY <2>5, <2>6
<1> HIDE DEF H
<1>3. n \in H BY <1>1, <1>2, UpTo
<1>4. PICK f : /\ f = [k \in 0 .. n |-> f[k]] /\ f[0] = a
               /\ \A k \in 1 .. n : f[k] = nx[f[k - 1]]
  BY <1>3 DEF H
<1>5. f = [k \in 0 .. n |-> IF k = 0 THEN a ELSE nx[f[k - 1]]]
  <2>1. \A k \in 0 .. n : f[k] = IF k = 0 THEN a ELSE nx[f[k - 1]]
    <3> SUFFICES ASSUME NEW k \in 0 .. n
                 PROVE  f[k] = IF k = 0 THEN a ELSE nx[f[k - 1]]
      OBVIOUS
    <3>1. CASE k = 0 BY <1>4, <3>1
    <3>2. CASE k # 0
      <4>1. k \in 1 .. n BY <3>2
      <4> QED BY <1>4, <3>2, <4>1
    <3> QED BY <3>1, <3>2
  <2>2. [k \in 0 .. n |-> f[k]] = [k \in 0 .. n |-> IF k = 0 THEN a ELSE nx[f[k - 1]]]
    BY <2>1
  <2> QED BY <1>4, <2>2
<1> QED BY <1>5 DEF Iterated

\* The same when each step also depends on its number, and stays in a set.
IteratedIn(f, n, S, a, nx) ==
  /\ f \in [0 .. n -> S]
  /\ f = [k \in 0 .. n |-> IF k = 0 THEN a ELSE nx[<<k, f[k - 1]>>]]

\* There is such a function.
LEMMA IterateIn ==
  ASSUME NEW n \in Nat, NEW S, NEW a \in S, NEW nx,
         \A k \in 1 .. n : \A v \in S : nx[<<k, v>>] \in S
  PROVE  \E f : IteratedIn(f, n, S, a, nx)
<1> DEFINE P == (0 .. n) \X S
           nx2 == [p \in P |-> <<p[1] + 1, nx[<<p[1] + 1, p[2]>>]>>]
<1>1. PICK g : Iterated(g, n, <<0, a>>, nx2)
  <2> HIDE DEF nx2
  <2> QED BY Iterate
<1>2. \A k \in 0 .. n : g[k] = IF k = 0 THEN <<0, a>> ELSE nx2[g[k - 1]]
  <2> HIDE DEF nx2
  <2> QED BY <1>1 DEF Iterated
<1> DEFINE H == {k \in 0 .. n : /\ g[k] = <<k, g[k][2]>> /\ g[k][2] \in S
                                /\ k > 0 => g[k][2] = nx[<<k, g[k - 1][2]>>]}
<1>3. 0 \in H
  <2>1. g[0] = <<0, a>>
    <3> HIDE DEF nx2
    <3> QED BY <1>2
  <2> HIDE DEF nx2
  <2> QED BY <2>1
<1>4. ASSUME NEW k \in 1 .. n, k - 1 \in H PROVE k \in H
  <2>1. k \in 0 .. n /\ k # 0 /\ k - 1 \in 0 .. n /\ k - 1 + 1 = k OBVIOUS
  <2>2. g[k - 1] = <<k - 1, g[k - 1][2]>> /\ g[k - 1][2] \in S BY <1>4
  <2>3. <<k - 1, g[k - 1][2]>> \in P BY <2>1, <2>2
  <2>4. nx2[<<k - 1, g[k - 1][2]>>] = <<k, nx[<<k, g[k - 1][2]>>]>>
    BY <2>1, <2>3
  <2> HIDE DEF nx2
  <2>5. g[k] = nx2[g[k - 1]] BY <1>2, <2>1
  <2>6. g[k] = <<k, nx[<<k, g[k - 1][2]>>]>> BY <2>5, <2>4, <2>2
  <2>7. nx[<<k, g[k - 1][2]>>] \in S BY <2>2
  <2> QED BY <2>6, <2>7, <2>1
<1>5. \A k \in 0 .. n : k \in H
  <2> HIDE DEF H
  <2> QED BY <1>3, <1>4, UpTo
<1> DEFINE f == [k \in 0 .. n |-> g[k][2]]
<1>6. f \in [0 .. n -> S] BY <1>5
<1>7. f[0] = a
  <2> HIDE DEF nx2
  <2>1. g[0] = <<0, a>> BY <1>2
  <2>2. f[0] = g[0][2] OBVIOUS
  <2> QED BY <2>1, <2>2
<1>8. \A k \in 0 .. n : k # 0 => f[k] = nx[<<k, f[k - 1]>>]
  <2> SUFFICES ASSUME NEW k \in 0 .. n, k # 0 PROVE f[k] = nx[<<k, f[k - 1]>>]
    OBVIOUS
  <2>1. k - 1 \in 0 .. n /\ k > 0 OBVIOUS
  <2>2. g[k][2] = nx[<<k, g[k - 1][2]>>] BY <1>5, <2>1
  <2> QED BY <2>1, <2>2
<1> HIDE DEF f
<1>9. \A k \in 0 .. n : f[k] = IF k = 0 THEN a ELSE nx[<<k, f[k - 1]>>]
  BY <1>7, <1>8
<1>10. f = [k \in 0 .. n |-> IF k = 0 THEN a ELSE nx[<<k, f[k - 1]>>]]
  <2>1. [k \in 0 .. n |-> f[k]]
          = [k \in 0 .. n |-> IF k = 0 THEN a ELSE nx[<<k, f[k - 1]>>]]
    BY <1>9
  <2>2. f = [k \in 0 .. n |-> f[k]] BY <1>6
  <2> QED BY <2>1, <2>2
<1> QED BY <1>6, <1>10 DEF IteratedIn

\* A set of natural numbers that has a bound has a greatest element.
LEMMA Greatest ==
  ASSUME NEW n \in Nat, NEW T, T \subseteq 0 .. n, T # {}
  PROVE  \E x \in T : \A y \in T : x >= y
<1> DEFINE U == {i \in 0 .. n : n - i \in T}
<1>1. U \subseteq Nat /\ U # {}
  <2>1. PICK t \in T : TRUE OBVIOUS
  <2>2. n - t \in 0 .. n /\ n - (n - t) = t BY <2>1
  <2> QED BY <2>1, <2>2
<1>2. PICK x \in U : \A y \in U : x <= y
  <2> HIDE DEF U
  <2> QED BY <1>1, Least
<1>3. ASSUME NEW y \in T PROVE n - x >= y
  <2>1. n - y \in 0 .. n /\ n - (n - y) = y OBVIOUS
  <2>2. n - y \in U BY <2>1
  <2>3. x <= n - y BY <1>2, <2>2
  <2> QED BY <2>1, <2>3
<1> QED BY <1>3
=============================================================================
