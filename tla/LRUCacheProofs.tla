--------------------------- MODULE LRUCacheProofs ---------------------------
(***************************************************************************)
(* Proofs about LRUCache for any capacity, any records and any number of   *)
(* queries.                                                                *)
(***************************************************************************)
EXTENDS LRUCacheInv, FiniteSetTheorems, TLAPS

\* The head is not a slot, and the special pointers are not nodes.
LEMMA Apart ==
  /\ HEAD \notin Slots
  /\ NULL \notin Node /\ WILD \notin Node /\ NULL # WILD
  /\ NONE # NULL /\ NONE # WILD /\ NONE # CacheLen
  /\ NULL # CacheLen /\ WILD # CacheLen
  /\ \A s \in Slots : s \in Int /\ 0 <= s /\ s < CacheLen
  BY LRUCacheAssumption DEF LRUCacheAssumption, Slots, Node
----------------------------------------------------------------------------
(* The list operations of list.h *)

Pointers == /\ next \in [Node -> Node \cup {NULL, WILD}]
            /\ prev \in [Node -> Node \cup {NULL, WILD}]

\* mylist_add_head puts a node before all others.
LEMMA AddShape ==
  ASSUME Pointers, NEW S \in SUBSET Slots, NEW n \in Slots \ S,
         NEW rank \in [Slots -> Int], Shape(S, rank), AddHead(n)
  PROVE  /\ Pointers'
         /\ \E rk \in [Slots -> Int] : Shape(S \cup {n}, rk)'
         /\ \A m \in Slots \ S : m # n => next'[m] = next[m]
<1> DEFINE h == next[HEAD]
<1>1. /\ HEAD \notin Slots /\ HEAD \in Node /\ n \in Node /\ S \subseteq Node
      /\ h \in S \cup {HEAD} /\ prev[h] = HEAD
  BY Apart DEF Node, Shape, TwoWay
<1>2. /\ next'[HEAD] = n /\ next'[n] = h
      /\ \A m \in Node : m # HEAD /\ m # n => next'[m] = next[m]
      /\ prev'[h] = n /\ prev'[n] = HEAD
      /\ \A m \in Node : m # h /\ m # n => prev'[m] = prev[m]
  BY <1>1 DEF AddHead, Pointers
<1>3. Pointers'
  BY <1>1 DEF AddHead, Pointers
<1>4. TwoWay(S \cup {n} \cup {HEAD})'
  <2> SUFFICES ASSUME NEW m \in S \cup {n} \cup {HEAD}
               PROVE  /\ next'[m] \in S \cup {n} \cup {HEAD}
                      /\ prev'[m] \in S \cup {n} \cup {HEAD}
                      /\ prev'[next'[m]] = m /\ next'[prev'[m]] = m
    BY DEF TwoWay
  <2>1. \A x \in S \cup {HEAD} :
          /\ next[x] \in S \cup {HEAD} /\ prev[x] \in S \cup {HEAD}
          /\ prev[next[x]] = x /\ next[prev[x]] = x
    BY DEF Shape, TwoWay
  <2>2. CASE m = n BY <2>2, <1>1, <1>2
  <2>3. CASE m = HEAD BY <2>3, <1>1, <1>2, <2>1
  <2>4. CASE m \in S
    <3>1. next[m] # h BY <2>4, <2>1, <1>1
    <3> QED BY <2>4, <3>1, <1>1, <1>2, <2>1
  <2> QED BY <2>2, <2>3, <2>4
<1>a. PICK top \in Int : h \in S => top = rank[h] - 1
  BY <1>1
<1>b. PICK rk \in [Slots -> Int] : rk = [rank EXCEPT ![n] = top]
  OBVIOUS
<1>5. rk[n] = top /\ \A m \in S : rk[m] = rank[m] /\ m # n
  BY <1>b
<1>6. \A t \in S : h \in S /\ top < rank[t] /\ rank[t] \in Int
  BY <1>a, <1>5 DEF Shape, Sorted
<1>7. Sorted(S \cup {n}, rk)'
  <2>1. \A s, t \in S \cup {n} : rk[s] = rk[t] => s = t
    BY <1>5, <1>6 DEF Shape, Sorted
  <2>2. \A t \in S \cup {n} : n \in S \cup {n} /\ rk[n] <= rk[t]
    BY <1>5, <1>6
  <2>3. \A s \in S : next'[s] = next[s] BY <1>1, <1>2
  <2>4. ASSUME NEW s \in S \cup {n}, next'[s] \in S \cup {n}
        PROVE  rk[s] < rk[next'[s]]
    <3>1. CASE s = n BY <3>1, <2>4, <1>1, <1>2, <1>5, <1>6
    <3>2. CASE s \in S
      <4>1. next[s] \in S BY <3>2, <2>3, <2>4, <1>1 DEF Shape, TwoWay
      <4> QED BY <3>2, <4>1, <2>3, <1>5 DEF Shape, Sorted
    <3> QED BY <3>1, <3>2
  <2>5. ASSUME NEW s \in S \cup {n}, NEW t \in S \cup {n}, rk[s] < rk[t]
        PROVE  next'[s] \in S \cup {n} /\ rk[next'[s]] <= rk[t]
    <3>1. t \in S BY <2>5, <1>5, <1>6
    <3>2. CASE s = n BY <3>1, <3>2, <1>2, <1>5, <1>6 DEF Shape, Sorted
    <3>3. CASE s \in S
      <4>1. next[s] \in S /\ rank[next[s]] <= rank[t]
        BY <3>1, <3>3, <2>5, <1>5 DEF Shape, Sorted
      <4> QED BY <4>1, <3>1, <3>3, <2>3, <1>5
    <3> QED BY <3>2, <3>3
  <2> QED BY <2>1, <2>2, <2>4, <2>5, <1>2 DEF Sorted
<1>8. \A m \in Slots \ S : m # n => next'[m] = next[m]
  BY <1>1, <1>2 DEF Node
<1>9. Shape(S \cup {n}, rk)'
  BY <1>4, <1>7, <1>8 DEF Shape
<1> QED BY <1>3, <1>5, <1>8, <1>9

\* mylist_del takes one node out and leaves the order of the others.
LEMMA DelShape ==
  ASSUME Pointers, NEW S \in SUBSET Slots, NEW n \in S,
         NEW rank \in [Slots -> Int], Shape(S, rank), Del(n)
  PROVE  /\ Pointers'
         /\ Shape(S \ {n}, rank)'
         /\ next'[n] = NULL
         /\ \A m \in Slots \ S : next'[m] = next[m]
<1> DEFINE p == prev[n]
           f == next[n]
<1>1. /\ HEAD \notin Slots /\ HEAD \in Node /\ n \in Node /\ S \subseteq Node
      /\ p \in S \cup {HEAD} /\ f \in S \cup {HEAD} /\ n # HEAD
  BY Apart DEF Node, Shape, TwoWay
<1>2. \A x \in S \cup {HEAD} :
          /\ next[x] \in S \cup {HEAD} /\ prev[x] \in S \cup {HEAD}
          /\ prev[next[x]] = x /\ next[prev[x]] = x
  BY DEF Shape, TwoWay
<1>3. p # n /\ f # n
  BY <1>1, <1>2 DEF Shape, Sorted
<1>4. /\ next'[n] = NULL /\ next'[p] = f
      /\ \A m \in Node : m # p /\ m # n => next'[m] = next[m]
      /\ prev'[n] = NULL /\ prev'[f] = p
      /\ \A m \in Node : m # f /\ m # n => prev'[m] = prev[m]
  BY <1>1, <1>3 DEF Del, Pointers
<1>5. Pointers'
  BY <1>1 DEF Del, Pointers
<1>6. TwoWay((S \ {n}) \cup {HEAD})'
  <2> SUFFICES ASSUME NEW m \in (S \ {n}) \cup {HEAD}
               PROVE  /\ next'[m] \in (S \ {n}) \cup {HEAD}
                      /\ prev'[m] \in (S \ {n}) \cup {HEAD}
                      /\ prev'[next'[m]] = m /\ next'[prev'[m]] = m
    BY DEF TwoWay
  <2>1. next'[m] \in (S \ {n}) \cup {HEAD} /\ prev'[next'[m]] = m
    <3>1. CASE m = p BY <3>1, <1>1, <1>3, <1>4
    <3>2. CASE m # p BY <3>2, <1>1, <1>2, <1>3, <1>4
    <3> QED BY <3>1, <3>2
  <2>2. prev'[m] \in (S \ {n}) \cup {HEAD} /\ next'[prev'[m]] = m
    <3>1. CASE m = f BY <3>1, <1>1, <1>3, <1>4
    <3>2. CASE m # f BY <3>2, <1>1, <1>2, <1>3, <1>4
    <3> QED BY <3>1, <3>2
  <2> QED BY <2>1, <2>2
<1>7. Sorted(S \ {n}, rank)'
  <2>0. n \in Slots /\ \A x \in Slots : rank[x] \in Int BY DEF Shape
  <2>1. ASSUME NEW t \in S \ {n}
        PROVE  next'[HEAD] \in S \ {n} /\ rank[next'[HEAD]] <= rank[t]
    <3>1. next[HEAD] \in S /\ rank[next[HEAD]] <= rank[t]
      BY <2>1 DEF Shape, Sorted
    <3>2. CASE p = HEAD
      <4>1. next[HEAD] = n BY <3>2, <1>2
      <4>2. rank[n] # rank[t] BY <2>1 DEF Shape, Sorted
      <4>3. f \in S /\ rank[f] <= rank[t]
        BY <4>1, <4>2, <3>1, <2>0, <2>1 DEF Shape, Sorted
      <4> QED BY <4>3, <3>2, <1>3, <1>4
    <3>3. CASE p # HEAD
      BY <3>1, <3>3, <1>1, <1>2, <1>4
    <3> QED BY <3>2, <3>3
  <2>2. ASSUME NEW s \in S \ {n}, next'[s] \in S \ {n}
        PROVE  rank[s] < rank[next'[s]]
    <3>1. CASE s = p
      <4>1. rank[s] < rank[n] /\ rank[n] < rank[f]
        BY <3>1, <2>2, <1>2, <1>4 DEF Shape, Sorted
      <4> QED BY <4>1, <3>1, <1>1, <1>4, <2>0, <2>2
    <3>2. CASE s # p
      BY <3>2, <2>2, <1>1, <1>4 DEF Shape, Sorted
    <3> QED BY <3>1, <3>2
  <2>3. ASSUME NEW s \in S \ {n}, NEW t \in S \ {n}, rank[s] < rank[t]
        PROVE  next'[s] \in S \ {n} /\ rank[next'[s]] <= rank[t]
    <3>1. next[s] \in S /\ rank[next[s]] <= rank[t]
      BY <2>3 DEF Shape, Sorted
    <3>2. CASE s = p
      <4>1. next[s] = n BY <3>2, <1>2
      <4>2. rank[n] # rank[t] BY <2>3 DEF Shape, Sorted
      <4>3. f \in S /\ rank[f] <= rank[t]
        BY <4>1, <4>2, <3>1, <2>0, <2>3 DEF Shape, Sorted
      <4> QED BY <4>3, <3>2, <1>3, <1>4
    <3>3. CASE s # p
      BY <3>1, <3>3, <1>1, <1>2, <1>4
    <3> QED BY <3>2, <3>3
  <2>4. \A s, t \in S \ {n} : rank[s] = rank[t] => s = t
    BY DEF Shape, Sorted
  <2> QED BY <2>1, <2>2, <2>3, <2>4 DEF Sorted
<1>8. \A m \in Slots \ S : next'[m] = next[m]
  BY <1>1, <1>4 DEF Node
<1>9. \A m \in Slots \ (S \ {n}) : next'[m] \in {NULL, WILD}
  BY <1>8, <1>4 DEF Shape
<1>10. Shape(S \ {n}, rank)'
  BY <1>6, <1>7, <1>9 DEF Shape
<1> QED BY <1>4, <1>5, <1>8, <1>10

\* mylist_move_head takes a node of the list to its front.
LEMMA MoveShape ==
  ASSUME Pointers, NEW S \in SUBSET Slots, NEW n \in S,
         NEW rank \in [Slots -> Int], Shape(S, rank), MoveHead(n)
  PROVE  /\ Pointers'
         /\ \E rk \in [Slots -> Int] : Shape(S, rk)'
         /\ \A m \in Slots : next'[m] \in {NULL, WILD} <=> next[m] \in {NULL, WILD}
         /\ \A m \in Slots \ S : next'[m] = next[m]
<1> DEFINE p == prev[n]
           f == next[n]
           h == next[HEAD]
<1>1. /\ HEAD \notin Slots /\ HEAD \in Node /\ n \in Node /\ S \subseteq Node
      /\ p \in S \cup {HEAD} /\ f \in S \cup {HEAD} /\ n # HEAD
      /\ n \in Slots /\ \A x \in Slots : rank[x] \in Int
  BY Apart DEF Node, Shape, TwoWay
<1>2. \A x \in S \cup {HEAD} :
          /\ next[x] \in S \cup {HEAD} /\ prev[x] \in S \cup {HEAD}
          /\ prev[next[x]] = x /\ next[prev[x]] = x
  BY DEF Shape, TwoWay
<1>3. p # n /\ f # n
  BY <1>1, <1>2 DEF Shape, Sorted
<1>4. CASE p = HEAD
  <2>1. next' = next /\ prev' = prev
    BY <1>1, <1>2, <1>3, <1>4 DEF MoveHead, Pointers
  <2>2. Shape(S, rank)' BY <2>1 DEF Shape, TwoWay, Sorted
  <2>3. Pointers' BY <2>1 DEF Pointers
  <2>4. \E rk \in [Slots -> Int] : Shape(S, rk)' BY <2>2
  <2> QED BY <2>1, <2>3, <2>4
<1>5. CASE p # HEAD
  <2>1. h \in S /\ h # n /\ f # h
    BY <1>1, <1>2, <1>3, <1>5 DEF Shape, Sorted
  <2>2. /\ next'[p] = f /\ next'[n] = h /\ next'[HEAD] = n
        /\ \A m \in Node : m # p /\ m # n /\ m # HEAD => next'[m] = next[m]
        /\ prev'[f] = p /\ prev'[h] = n /\ prev'[n] = HEAD
        /\ \A m \in Node : m # f /\ m # n /\ m # h => prev'[m] = prev[m]
    BY <1>1, <1>2, <1>3, <1>5, <2>1 DEF MoveHead, Pointers
  <2>3. Pointers'
    BY <1>1, <1>3, <1>5, <2>1 DEF MoveHead, Pointers
  <2>4. TwoWay(S \cup {HEAD})'
    <3> SUFFICES ASSUME NEW m \in S \cup {HEAD}
                 PROVE  /\ next'[m] \in S \cup {HEAD} /\ prev'[m] \in S \cup {HEAD}
                        /\ prev'[next'[m]] = m /\ next'[prev'[m]] = m
      BY DEF TwoWay
    <3>1. next'[m] \in S \cup {HEAD} /\ prev'[next'[m]] = m
      <4>1. CASE m = p BY <4>1, <1>1, <1>3, <1>5, <2>1, <2>2
      <4>2. CASE m = n BY <4>2, <1>1, <2>1, <2>2
      <4>3. CASE m = HEAD BY <4>3, <1>1, <2>1, <2>2
      <4>4. CASE m # p /\ m # n /\ m # HEAD
        <5>1. next[m] # f /\ next[m] # h /\ next[m] # n
          BY <4>4, <1>1, <1>2
        <5> QED BY <4>4, <5>1, <1>1, <1>2, <2>2
      <4> QED BY <4>1, <4>2, <4>3, <4>4
    <3>2. prev'[m] \in S \cup {HEAD} /\ next'[prev'[m]] = m
      <4>1. CASE m = f BY <4>1, <1>1, <1>3, <1>5, <2>1, <2>2
      <4>2. CASE m = n BY <4>2, <1>1, <2>1, <2>2
      <4>3. CASE m = h BY <4>3, <1>1, <2>1, <2>2
      <4>4. CASE m # f /\ m # n /\ m # h
        <5>1. prev[m] # p /\ prev[m] # HEAD /\ prev[m] # n
          BY <4>4, <1>1, <1>2
        <5> QED BY <4>4, <5>1, <1>1, <1>2, <2>2
      <4> QED BY <4>1, <4>2, <4>3, <4>4
    <3> QED BY <3>1, <3>2
  <2>a. PICK top \in Int : top = rank[h] - 1
    BY <1>1, <2>1
  <2>5. PICK rk \in [Slots -> Int] : rk = [rank EXCEPT ![n] = top]
    OBVIOUS
  <2>6. /\ rk[n] = rank[h] - 1 /\ \A m \in S : m # n => rk[m] = rank[m]
        /\ \A m \in S : m # n => rk[n] < rk[m] /\ rk[m] \in Int
        /\ rk[n] \in Int
    BY <1>1, <2>1, <2>a, <2>5 DEF Shape, Sorted
  <2>7. Sorted(S, rk)'
    <3>1. \A s, t \in S : rk[s] = rk[t] => s = t
      BY <2>6 DEF Shape, Sorted
    <3>2. \A t \in S : next'[HEAD] \in S /\ rk[next'[HEAD]] <= rk[t]
      BY <2>2, <2>6
    <3>3. ASSUME NEW s \in S, next'[s] \in S PROVE rk[s] < rk[next'[s]]
      <4>1. CASE s = n BY <4>1, <2>1, <2>2, <2>6
      <4>2. CASE s = p
        <5>1. rank[p] < rank[n] /\ rank[n] < rank[f]
          BY <4>2, <3>3, <1>2, <2>2 DEF Shape, Sorted
        <5> QED BY <4>2, <5>1, <3>3, <1>1, <1>3, <2>2, <2>6
      <4>3. CASE s # n /\ s # p
        <5>1. next'[s] = next[s] /\ next[s] # n
          BY <4>3, <1>1, <1>2, <2>2
        <5>2. rank[s] < rank[next[s]] BY <5>1, <3>3 DEF Shape, Sorted
        <5> QED BY <4>3, <5>1, <5>2, <3>3, <2>6
      <4> QED BY <4>1, <4>2, <4>3
    <3>4. ASSUME NEW s \in S, NEW t \in S, rk[s] < rk[t]
          PROVE  next'[s] \in S /\ rk[next'[s]] <= rk[t]
      <4>0. t # n BY <3>4, <2>6
      <4>1. CASE s = n
        BY <4>0, <4>1, <2>1, <2>2, <2>6 DEF Shape, Sorted
      <4>2. CASE s # n
        <5>1. next[s] \in S /\ rank[next[s]] <= rank[t]
          BY <3>4, <4>0, <4>2, <2>6 DEF Shape, Sorted
        <5>2. CASE s = p
          <6>1. next[s] = n BY <5>2, <1>2
          <6>2. rank[n] # rank[t] BY <4>0 DEF Shape, Sorted
          <6>3. f \in S /\ rank[f] <= rank[t]
            BY <6>1, <6>2, <5>1, <1>1 DEF Shape, Sorted
          <6> QED BY <6>3, <5>2, <1>3, <2>2, <2>6, <4>0
        <5>3. CASE s # p
          <6>1. next'[s] = next[s] /\ next[s] # n
            BY <4>2, <5>3, <1>1, <1>2, <2>2
          <6> QED BY <6>1, <5>1, <4>0, <2>6
        <5> QED BY <5>2, <5>3
      <4> QED BY <4>1, <4>2
    <3> QED BY <3>1, <3>2, <3>3, <3>4 DEF Sorted
  <2>8. \A m \in Slots \ S : next'[m] = next[m]
    BY <1>1, <2>2 DEF Node
  <2>9. Shape(S, rk)'
    BY <2>4, <2>7, <2>8 DEF Shape
  <2>10. \A m \in S : next[m] \in Node /\ next'[m] \in Node
    BY <1>1, <1>2, <2>4 DEF TwoWay
  <2> QED BY <2>3, <2>5, <2>8, <2>9, <2>10, Apart
<1> QED BY <1>4, <1>5
----------------------------------------------------------------------------
(* Counting slots *)

\* set[] marks finitely many slots.
LEMMA UsedFinite ==
  ASSUME TypeOK
  PROVE  IsFiniteSet(used) /\ Cardinality(used) \in Nat /\ IsFiniteSet(Slots)
         /\ Cardinality(Slots) = CacheLen
<1>1. CacheLen \in Nat \ {0} /\ 0 \in Int /\ CacheLen - 1 \in Int
  BY LRUCacheAssumption DEF LRUCacheAssumption
<1>2. IsFiniteSet(Slots) /\ Cardinality(Slots) = CacheLen
  BY <1>1, FS_Interval DEF Slots
<1>3. IsFiniteSet(used)
  BY <1>2, FS_Subset DEF TypeOK
<1> QED BY <1>2, <1>3, FS_CardinalityType

\* Slots below m only: at most m of them.
LEMMA AtMost ==
  ASSUME TypeOK, Counted, NEW m \in Nat, \A s \in used : s < m
  PROVE  length <= m
<1>1. IsFiniteSet(0 .. m - 1) /\ Cardinality(0 .. m - 1) = m
  BY FS_Interval
<1>2. used \subseteq 0 .. m - 1
  BY Apart DEF TypeOK, Slots
<1> QED BY <1>1, <1>2, FS_Subset DEF Counted

\* All slots below length are all there are.
LEMMA Packed ==
  ASSUME TypeOK, Counted, \A s \in Slots : s < length => s \in used
  PROVE  used = 0 .. length - 1
<1>1. length \in Nat /\ length <= CacheLen
  BY LRUCacheAssumption DEF LRUCacheAssumption, TypeOK
<1>2. Cardinality(0 .. length - 1) = length
  BY <1>1, FS_Interval
<1>3. 0 .. length - 1 \subseteq used
  BY <1>1, LRUCacheAssumption DEF LRUCacheAssumption, Slots
<1> QED BY <1>2, <1>3, UsedFinite, FS_Subset DEF Counted

\* When every slot is used the cache is full.
LEMMA Full ==
  ASSUME TypeOK, Counted, Free = {}
  PROVE  length = CacheLen
<1>1. used = Slots BY DEF Free, TypeOK
<1> QED BY <1>1, UsedFinite DEF Counted
----------------------------------------------------------------------------
(* Locks *)

\* The three kinds of thread are different.
LEMMA Threads ==
  /\ Scanner # Console /\ Scanner # NONE /\ Console # NONE
  /\ \A q \in Queries : q # Scanner /\ q # Console /\ q # NONE /\ q \notin Records
  /\ \A r \in Records : r # Scanner /\ r # Console /\ r # NONE
  BY LRUCacheAssumption DEF LRUCacheAssumption

\* Taking and giving back the lock goes with the program counter.
LEMMA LocksStep == TypeOK /\ Locks /\ [Next]_vars => Locks'
<1> SUFFICES ASSUME TypeOK, Locks, [Next]_vars PROVE Locks' OBVIOUS
<1> USE DEF Locks, Goto, lock, local, list, WriteLock, WriteUnlock, ReadLock,
            ReadUnlock, Proc
<1> USE Threads
<1>t. pc \in [Proc -> Phase] BY DEF TypeOK
<1>1. ASSUME NEW r \in Records, InsertFree(r) PROVE Locks'
  BY <1>1, <1>t DEF InsertFree
<1>2. ASSUME NEW r \in Records, InsertEvict(r) PROVE Locks'
  BY <1>2, <1>t DEF InsertEvict
<1>3. ASSUME NEW q \in Queries, QueryLock(q) PROVE Locks'
  BY <1>3, <1>t DEF QueryLock
<1>4. ASSUME NEW q \in Queries, QueryVisit(q) PROVE Locks'
  BY <1>4 DEF QueryVisit
<1>5. ASSUME NEW q \in Queries, QueryUnlock(q) PROVE Locks'
  BY <1>5, <1>t DEF QueryUnlock
<1>6. ASSUME NEW q \in Queries, RotateLock(q) PROVE Locks'
  BY <1>6, <1>t DEF RotateLock
<1>7. ASSUME NEW q \in Queries, RotateNode(q) PROVE Locks'
  BY <1>7 DEF RotateNode
<1>8. ASSUME NEW q \in Queries, RotateUnlock(q) PROVE Locks'
  BY <1>8, <1>t DEF RotateUnlock
<1>9. CASE ScanLock BY <1>9, <1>t DEF ScanLock
<1>10. CASE ScanVisit BY <1>10 DEF ScanVisit
<1>11. CASE ScanUnlock BY <1>11, <1>t DEF ScanUnlock
<1>12. CASE FlushLock BY <1>12, <1>t DEF FlushLock
<1>13. CASE FlushNode BY <1>13 DEF FlushNode
<1>14. CASE FlushUnlock BY <1>14, <1>t DEF FlushUnlock
<1>15. CASE Tick BY <1>15 DEF Tick
<1>16. CASE UNCHANGED vars BY <1>16 DEF vars
<1> QED
  BY <1>1, <1>2, <1>3, <1>4, <1>5, <1>6, <1>7, <1>8, <1>9, <1>10, <1>11, <1>12,
     <1>13, <1>14, <1>15, <1>16
  DEF Next, cacheInsert, cacheQuery, rotate, cacheScan, cacheFlush
----------------------------------------------------------------------------
(* One lemma per operation: what it does to the list *)

ListInv == TypeOK /\ Ordered /\ Fresh /\ Counted /\ NoHoleYet /\ Prefix /\ Cursors /\ Temps

\* Without a walk or a scan under way only the shape of the list matters.
LEMMA OrderedAlone ==
  ASSUME Locks', readers' = {}, writer' # Scanner,
         NEW rank \in [Slots -> Int], Shape(Chained, rank)'
  PROVE  Ordered'
<1>1. Walked(rank)' BY DEF Walked, Locks
<1>2. Scanned(rank)' BY DEF Scanned, Locks
<1> QED BY <1>1, <1>2 DEF Ordered

\* A record goes into the first free slot, the slots before it all being used.
LEMMA InsertFreeKeeps ==
  ASSUME IInv, NEW r \in Records, InsertFree(r)
  PROVE  ListInv'
<1> USE Threads
<1>1. /\ Running /\ writer = NONE /\ readers = {} /\ length < CacheLen
      /\ pc' = [pc EXCEPT ![r] = "done"]
      /\ UNCHANGED <<clock, writer, readers, at, i, temp, removed, began>>
  BY DEF InsertFree, Goto, lock, history
<1>2. Free # {} /\ length \in Nat
  BY <1>1, Full, LRUCacheAssumption DEF IInv, TypeOK, LRUCacheAssumption
<1>3. PICK s \in Slots :
        /\ FirstFree(s) /\ AddHead(s) /\ Fill(s, r)
        /\ used' = used \cup {s} /\ length' = length + 1 /\ fault' = fault
  BY <1>2 DEF InsertFree
<1>4. PICK S \in SUBSET Slots : S = used
  BY DEF IInv, TypeOK
<1>5. s \notin S /\ Chained = S /\ Chained' = S \cup {s}
  BY <1>1, <1>3, <1>4 DEF FirstFree, Free, Chained
<1>6. PICK rank \in [Slots -> Int] : Shape(Chained, rank)
  BY <1>1 DEF IInv, Ordered
<1>7. Pointers BY DEF IInv, TypeOK, Pointers
<1>8. Shape(S, rank) BY <1>5, <1>6
<1>9. /\ Pointers'
      /\ \E rk \in [Slots -> Int] : Shape(S \cup {s}, rk)'
      /\ \A m \in Slots \ S : m # s => next'[m] = next[m]
  BY <1>3, <1>5, <1>7, <1>8, AddShape
<1>10. PICK rk \in [Slots -> Int] : Shape(S \cup {s}, rk)'
  BY <1>9
<1>11. TypeOK'
  <2>1. /\ entry' \in [Slots -> Records \cup {NONE}]
        /\ expires' \in [Slots -> Int]
    BY <1>3, LRUCacheAssumption DEF IInv, TypeOK, Fill, LRUCacheAssumption
  <2>2. length' \in 0 .. CacheLen
    BY <1>1, <1>2, <1>3, LRUCacheAssumption DEF LRUCacheAssumption
  <2>3. pc' \in [Proc -> Phase] /\ used' \subseteq Slots
    BY <1>1, <1>3 DEF IInv, TypeOK, Phase
  <2> QED BY <1>1, <1>3, <1>9, <2>1, <2>2, <2>3 DEF IInv, TypeOK, Pointers
<1>12. Locks'
  BY LocksStep DEF IInv, Next, cacheInsert
<1>13. Ordered'
  <2>1. Shape(Chained, rk)' BY <1>5, <1>10
  <2>2. readers' = {} /\ writer' # Scanner BY <1>1
  <2> QED BY <2>1, <2>2, <1>12, OrderedAlone
<1>14. \A m \in Slots : next'[m] = WILD => next[m] = WILD /\ m # s /\ m \notin used
  <2> SUFFICES ASSUME NEW m \in Slots, next'[m] = WILD
               PROVE  next[m] = WILD /\ m # s /\ m \notin used
    OBVIOUS
  <2>1. \A x \in S \cup {s} \cup {HEAD} : next'[x] \in S \cup {s} \cup {HEAD}
    BY <1>10 DEF Shape, TwoWay
  <2>2. m \notin S \cup {s} BY <2>1, Apart DEF Node
  <2> QED BY <2>2, <1>4, <1>9
<1>15. Fresh'
  <2> SUFFICES ASSUME NEW a \in Slots, NEW b \in Slots, next'[a] = WILD, a <= b
               PROVE  next'[b] = WILD /\ b \notin used'
    BY DEF Fresh
  <2>1. a \in Free BY <1>14 DEF Free
  <2>2. s <= a /\ s # a BY <2>1, <1>3, <1>14 DEF FirstFree
  <2>3. b # s BY <2>2, Apart
  <2>4. next[b] = WILD /\ b \notin used BY <1>14 DEF IInv, Fresh
  <2> QED BY <2>3, <2>4, <1>3, <1>4, <1>9
<1>16. Counted'
  BY <1>3, <1>4, <1>5, UsedFinite, FS_AddElement DEF IInv, Counted
<1>17. NoHoleYet' BY <1>1 DEF NoHoleYet
<1>18. Prefix'
  <2> SUFFICES ASSUME Scanner \notin removed PROVE used' = 0 .. length'  - 1
    BY <1>1 DEF Prefix
  <2>1. used = 0 .. length - 1 BY DEF IInv, Prefix
  <2>2. length \in Slots
    BY <1>1, <1>2, LRUCacheAssumption DEF Slots, LRUCacheAssumption
  <2>3. length \in Free BY <2>1, <2>2, <1>2 DEF Free
  <2>4. s <= length /\ s \notin 0 .. length - 1
    BY <2>1, <2>3, <1>3 DEF FirstFree, Free
  <2>5. s = length BY <2>4, <1>2, Apart
  <2> QED BY <2>1, <2>5, <1>2, <1>3
<1>19. Cursors'
  <2>1. pc'[Scanner] = pc[Scanner] /\ \A q \in Queries : pc'[q] = pc[q]
    BY <1>1 DEF IInv, TypeOK, Proc
  <2> QED BY <2>1, <1>1, <1>3 DEF IInv, Cursors
<1>20. Temps'
  <2> SUFFICES ASSUME NEW q \in Queries, NEW k \in 1 .. Len(temp[q])
               PROVE  /\ next'[temp[q][k]] # WILD
                      /\ removed = {} => temp[q][k] \in used'
    BY <1>1 DEF Temps
  <2>1. temp[q][k] \in Slots
    BY DEF IInv, TypeOK
  <2> QED BY <2>1, <1>3, <1>14 DEF IInv, Temps
<1> QED BY <1>11, <1>13, <1>15, <1>16, <1>17, <1>18, <1>19, <1>20 DEF ListInv

\* Moving a used slot to the front leaves everything but the order as it was.
LEMMA MoveKeeps ==
  ASSUME IInv, Locks', Running, readers' = {}, writer \notin {Scanner, Console},
         NEW n \in Slots, n \in used, MoveHead(n),
         UNCHANGED <<used, length, writer, temp, removed>>
  PROVE  /\ Pointers'
         /\ Ordered' /\ Fresh' /\ Counted' /\ NoHoleYet' /\ Prefix' /\ Temps'
<1>1. PICK S \in SUBSET Slots : S = used
  BY DEF IInv, TypeOK
<1>2. Chained = S /\ Chained' = S
  BY <1>1 DEF Chained
<1>3. PICK rank \in [Slots -> Int] : Shape(Chained, rank)
  BY DEF IInv, Ordered
<1>4. Pointers /\ Shape(S, rank) /\ n \in S
  BY <1>1, <1>2, <1>3 DEF IInv, TypeOK, Pointers
<1>5. /\ Pointers'
      /\ \E rk \in [Slots -> Int] : Shape(S, rk)'
      /\ \A m \in Slots : next'[m] \in {NULL, WILD} <=> next[m] \in {NULL, WILD}
      /\ \A m \in Slots \ S : next'[m] = next[m]
  BY <1>4, MoveShape
<1>6. PICK rk \in [Slots -> Int] : Shape(S, rk)'
  BY <1>5
<1>7. Ordered'
  <2>1. Shape(Chained, rk)' BY <1>2, <1>6
  <2> QED BY <2>1, OrderedAlone
<1>8. \A m \in Slots : next'[m] = WILD <=> next[m] = WILD
  <2> TAKE m \in Slots
  <2>1. CASE m \in S
    <3>1. next'[m] \in Node /\ next[m] \in Node
      BY <2>1, <1>4, <1>6 DEF Shape, TwoWay, Node
    <3> QED BY <3>1, Apart
  <2> QED BY <2>1, <1>5
<1>9. Fresh' BY <1>8 DEF IInv, Fresh
<1>10. Counted' /\ NoHoleYet' /\ Prefix'
  BY DEF IInv, Counted, NoHoleYet, Prefix
<1>11. Temps'
  <2> SUFFICES ASSUME NEW q \in Queries, NEW k \in 1 .. Len(temp[q])
               PROVE  /\ next'[temp[q][k]] # WILD
                      /\ removed = {} => temp[q][k] \in used
    BY DEF Temps
  <2>1. temp[q][k] \in Slots BY DEF IInv, TypeOK
  <2> QED BY <2>1, <1>8 DEF IInv, Temps
<1> QED BY <1>5, <1>7, <1>9, <1>10, <1>11

\* The last record of a full cache makes room for the new one.
LEMMA InsertEvictKeeps ==
  ASSUME IInv, NEW r \in Records, InsertEvict(r)
  PROVE  ListInv'
<1> USE Threads
<1>1. /\ Running /\ writer = NONE /\ readers = {} /\ length >= CacheLen
      /\ pc' = [pc EXCEPT ![r] = "done"]
      /\ UNCHANGED <<used, length, clock, writer, readers, at, i, temp, fault,
                    removed, began>>
  BY DEF InsertEvict, Goto, lock, history
<1>2. Locks'
  BY LocksStep DEF IInv, Next, cacheInsert
<1>3. used # {}
  <2>1. used = {} => Cardinality(used) = 0 BY FS_EmptySet
  <2> QED BY <2>1, <1>1, LRUCacheAssumption DEF LRUCacheAssumption, IInv, Counted
<1>4. PICK rank \in [Slots -> Int] : Shape(used, rank)
  BY <1>1 DEF IInv, Ordered, Chained
<1>5. prev[HEAD] \in used /\ next[prev[HEAD]] = HEAD
  BY <1>3, <1>4, Apart DEF Shape, TwoWay, Sorted, IInv, TypeOK
<1>6. PICK n \in Slots : n = prev[HEAD]
  BY <1>5 DEF IInv, TypeOK
<1>7. MoveHead(n) /\ Fill(n, r)
  BY <1>5, <1>6 DEF InsertEvict
<1>8. /\ Pointers'
      /\ Ordered' /\ Fresh' /\ Counted' /\ NoHoleYet' /\ Prefix' /\ Temps'
  BY <1>1, <1>2, <1>5, <1>6, <1>7, MoveKeeps
<1>9. TypeOK'
  <2>1. /\ entry' \in [Slots -> Records \cup {NONE}]
        /\ expires' \in [Slots -> Int]
    BY <1>7, LRUCacheAssumption DEF IInv, TypeOK, Fill, LRUCacheAssumption
  <2>2. pc' \in [Proc -> Phase]
    BY <1>1 DEF IInv, TypeOK, Phase
  <2> QED BY <1>1, <1>8, <2>1, <2>2 DEF IInv, TypeOK, Pointers
<1>10. Cursors'
  <2>1. pc'[Scanner] = pc[Scanner] /\ \A q \in Queries : pc'[q] = pc[q]
    BY <1>1 DEF IInv, TypeOK, Proc
  <2> QED BY <2>1, <1>1 DEF IInv, Cursors
<1> QED BY <1>8, <1>9, <1>10 DEF ListInv

\* A rotate thread moves a slot that is still in the list; one that is not
\* is null, and only because something was deleted since the walk.
LEMMA RotateNodeKeeps ==
  ASSUME IInv, NEW q \in Queries, RotateNode(q)
  PROVE  ListInv' /\ StaysInBounds' /\ FaultCause'
<1> USE Threads
<1>1. /\ Running /\ pc[q] = "rotate" /\ i[q] <= Len(temp[q])
      /\ i' = [i EXCEPT ![q] = @ + 1]
      /\ UNCHANGED <<entry, expires, used, length, clock, writer, readers, pc,
                    at, temp, removed, began>>
  BY DEF RotateNode, lock, history
<1>2. writer = q /\ readers = {}
  BY <1>1 DEF IInv, Locks
<1>3. Locks'
  BY LocksStep DEF IInv, Next, rotate
<1>4. i[q] \in 1 .. Len(temp[q]) /\ q \in Proc /\ Console \in Proc
  BY <1>1 DEF IInv, TypeOK, Indices, Proc
<1>5. PICK n \in Slots : n = temp[q][i[q]]
  BY <1>4 DEF IInv, TypeOK
<1>6. next[n] # WILD /\ (removed = {} => n \in used)
  BY <1>4, <1>5 DEF IInv, Temps
<1>7. PICK rank \in [Slots -> Int] : Shape(used, rank)
  BY <1>1, <1>2 DEF IInv, Ordered, Chained
<1>8. Cursors' BY <1>1 DEF IInv, Cursors
<1>9. i' \in [Proc -> Nat] BY <1>1, <1>4 DEF IInv, TypeOK
<1>10. CASE next[HEAD] = HEAD /\ UNCHANGED <<next, prev, fault>>
  <2>1. TypeOK' BY <1>1, <1>9, <1>10 DEF IInv, TypeOK
  <2>2. Shape(Chained, rank)' /\ readers' = {} /\ writer' # Scanner
    BY <1>1, <1>2, <1>7, <1>10 DEF Shape, TwoWay, Sorted, Chained
  <2>3. Ordered' BY <2>2, <1>3, OrderedAlone
  <2>4. Fresh' /\ Counted' /\ NoHoleYet' /\ Prefix' /\ Temps'
    BY <1>1, <1>2, <1>10 DEF IInv, Fresh, Counted, NoHoleYet, Prefix, Temps
  <2>5. StaysInBounds' /\ FaultCause'
    BY <1>1, <1>10 DEF IInv, StaysInBounds, FaultCause
  <2> QED BY <2>1, <2>3, <2>4, <2>5, <1>8 DEF ListInv
<1>11. CASE Linked(n) /\ MoveHead(n) /\ UNCHANGED fault
  <2>1. n \in used
    BY <1>7, <1>11, Apart DEF Linked, Shape
  <2>2. /\ Pointers'
        /\ Ordered' /\ Fresh' /\ Counted' /\ NoHoleYet' /\ Prefix' /\ Temps'
    BY <1>1, <1>2, <1>3, <1>11, <2>1, MoveKeeps
  <2>3. TypeOK' BY <1>1, <1>9, <1>11, <2>2 DEF IInv, TypeOK, Pointers
  <2>4. StaysInBounds' /\ FaultCause'
    BY <1>1, <1>11 DEF IInv, StaysInBounds, FaultCause
  <2> QED BY <2>2, <2>3, <2>4, <1>8 DEF ListInv
<1>12. CASE ~Linked(n) /\ fault' = next[n] /\ UNCHANGED <<next, prev>>
  <2>0. used \subseteq Slots BY DEF IInv, TypeOK
  <2>1. n \notin used
    BY <2>0, <1>7, <1>12 DEF Linked, Shape, TwoWay, Node
  <2>2. fault' = NULL
    BY <2>1, <1>6, <1>7, <1>12 DEF Shape
  <2>3. TypeOK' BY <2>2, <1>1, <1>9, <1>12 DEF IInv, TypeOK
  <2>4. Ordered' BY <2>2, Apart DEF Ordered, Running
  <2>5. Fresh' /\ Counted' /\ NoHoleYet' /\ Prefix' /\ Temps'
    BY <1>1, <1>2, <1>12 DEF IInv, Fresh, Counted, NoHoleYet, Prefix, Temps
  <2>6. StaysInBounds' BY <2>2, Apart DEF StaysInBounds
  <2>7. FaultCause'
    BY <2>1, <1>1, <1>2, <1>4, <1>5, <1>6 DEF FaultCause
  <2> QED BY <2>3, <2>4, <2>5, <2>6, <2>7, <1>8 DEF ListInv
<1>13. \/ next[HEAD] = HEAD /\ UNCHANGED <<next, prev, fault>>
       \/ Linked(n) /\ MoveHead(n) /\ UNCHANGED fault
       \/ ~Linked(n) /\ fault' = next[n] /\ UNCHANGED <<next, prev>>
  <2> DEFINE m == temp[q][i[q]]
  <2>1. \/ next[HEAD] = HEAD /\ UNCHANGED <<next, prev, fault>>
        \/ Linked(m) /\ MoveHead(m) /\ UNCHANGED fault
        \/ ~Linked(m) /\ fault' = next[m] /\ UNCHANGED <<next, prev>>
    BY DEF RotateNode
  <2>2. m = n BY <1>5
  <2> HIDE DEF m
  <2> QED BY <2>1, <2>2 DEF Linked, MoveHead
<1> QED BY <1>10, <1>11, <1>12, <1>13

\* In a sorted list nothing lies between a node and the next one.
LEMMA NothingBetween ==
  ASSUME NEW S \in SUBSET Slots, NEW rank \in [Slots -> Int], Sorted(S, rank),
         NEW n \in S, NEW s \in S, s # n,
         next[n] = HEAD \/ rank[s] < rank[next[n]]
  PROVE  rank[s] < rank[n]
<1>1. rank[s] \in Int /\ rank[n] \in Int /\ HEAD \notin S
  BY Apart
<1>2. rank[s] # rank[n] BY DEF Sorted
<1>3. CASE rank[n] < rank[s]
  <2>1. next[n] \in S /\ rank[next[n]] <= rank[s] BY <1>3 DEF Sorted
  <2>2. rank[next[n]] \in Int BY <2>1
  <2> QED BY <2>1, <2>2, <1>1
<1> QED BY <1>1, <1>2, <1>3

\* Taking a node out marks no slot as fresh that was not.
LEMMA DelFresh ==
  ASSUME Fresh, NEW S \in SUBSET Slots, NEW n \in S, NEW rank \in [Slots -> Int],
         Shape(S \ {n}, rank)', next'[n] = NULL, used' \subseteq used,
         \A m \in Slots \ S : next'[m] = next[m], \A m \in S : next[m] # WILD
  PROVE  Fresh' /\ \A m \in Slots : next'[m] = WILD => next[m] = WILD
<1>1. \A m \in S : next'[m] # WILD
  BY Apart DEF Shape, TwoWay, Node
<1>2. \A m \in Slots : next'[m] = WILD <=> next[m] = WILD
  BY <1>1
<1> QED BY <1>2 DEF Fresh

\* A scan deletes the node under its cursor if it is overdue, and goes on.
LEMMA ScanVisitKeeps ==
  ASSUME IInv, ScanVisit
  PROVE  ListInv'
<1> USE Threads
<1> DEFINE n == at[Scanner]
<1>1. /\ Running /\ pc[Scanner] = "scan" /\ n # HEAD
      /\ at' = [at EXCEPT ![Scanner] = next[n]]
      /\ UNCHANGED <<clock, writer, readers, pc, i, temp, fault, began>>
  BY DEF ScanVisit, lock
<1>2. writer = Scanner /\ readers = {} /\ n \in used /\ used \subseteq Slots
  BY <1>1 DEF IInv, Locks, Cursors, TypeOK
<1>3. Locks'
  BY LocksStep DEF IInv, Next, cacheScan
<1>4. PICK S \in SUBSET Slots : S = used
  BY <1>2
<1>5. PICK m \in S : m = n
  BY <1>2, <1>4
<1>6. PICK rank \in [Slots -> Int] : Shape(S, rank) /\ Scanned(rank)
  <2>1. PICK rank \in [Slots -> Int] : Shape(Chained, rank) /\ Scanned(rank)
    BY <1>1 DEF IInv, Ordered
  <2> QED BY <2>1, <1>2, <1>4 DEF Chained
<1>7. /\ next[m] \in S \cup {HEAD} /\ next[m] # m
      /\ \A x \in S : next[x] # WILD
  <2>1. \A x \in Slots : rank[x] \in Int OBVIOUS
  <2> QED BY <2>1, <1>6, Apart DEF Shape, TwoWay, Sorted, Node
<1>8. /\ \A q \in Queries : pc[q] # "walk"
      /\ at'[Scanner] = next[m] /\ at' \in [Proc -> Node]
  BY <1>1, <1>2, <1>5, <1>7 DEF IInv, Locks, TypeOK, Proc, Node
<1>9. \A s \in S : s # m /\ Passed(rank, Scanner, s)' => expires[s] >= began
  <2> SUFFICES ASSUME NEW s \in S, s # m, Passed(rank, Scanner, s)'
               PROVE  expires[s] >= began
    OBVIOUS
  <2>1. next[m] = HEAD \/ rank[s] < rank[next[m]]
    BY <1>8 DEF Passed
  <2>2. rank[s] < rank[m]
    BY <2>1, <1>6, NothingBetween DEF Shape
  <2> QED BY <2>2, <1>1, <1>4, <1>5, <1>6 DEF Scanned, Passed
<1>10. CASE Overdue(n) /\ Unlink(n) /\ removed' = removed \cup {Scanner}
  <2>1. /\ Del(m) /\ entry' = [entry EXCEPT ![m] = NONE] /\ used' = S \ {m}
        /\ length' = length - 1 /\ expires' = expires
    BY <1>4, <1>5, <1>10 DEF Unlink, Del
  <2>2. Pointers BY DEF IInv, TypeOK, Pointers
  <2>3. /\ Pointers' /\ Shape(S \ {m}, rank)' /\ next'[m] = NULL
        /\ \A x \in Slots \ S : next'[x] = next[x]
    BY <2>1, <2>2, <1>6, DelShape
  <2>4. Fresh' /\ \A x \in Slots : next'[x] = WILD => next[x] = WILD
    <3>1. Fresh /\ used' \subseteq used BY <2>1, <1>4 DEF IInv
    <3> QED BY <3>1, <2>3, <1>7, DelFresh
  <2>5. Cardinality(used') = Cardinality(used) - 1 /\ IsFiniteSet(used)
        /\ Cardinality(used') \in Nat /\ Counted'
    <3>1. IsFiniteSet(used) /\ IsFiniteSet(used')
          /\ Cardinality(used') = Cardinality(used) - 1
      BY <2>1, <1>4, UsedFinite, FS_RemoveElement DEF IInv
    <3>2. Cardinality(used') \in Nat BY <3>1, FS_CardinalityType
    <3> QED BY <3>1, <3>2, <2>1 DEF IInv, Counted
  <2>6. TypeOK'
    <3>1. length' \in 0 .. CacheLen
      BY <2>1, <2>5, LRUCacheAssumption
      DEF IInv, TypeOK, Counted, LRUCacheAssumption
    <3>2. entry' \in [Slots -> Records \cup {NONE}]
      BY <2>1 DEF IInv, TypeOK
    <3>3. removed' \subseteq {Scanner, Console}
      BY <1>10 DEF IInv, TypeOK
    <3> QED BY <3>1, <3>2, <3>3, <1>1, <1>8, <2>1, <2>3 DEF IInv, TypeOK, Pointers
  <2>7. Ordered'
    <3>1. Chained' = S \ {m} BY <2>1, <1>1, <1>2 DEF Chained
    <3>2. Walked(rank)' BY <1>1, <1>8 DEF Walked
    <3>3. Scanned(rank)' BY <1>1, <1>9, <2>1 DEF Scanned
    <3>4. Shape(Chained, rank)' BY <3>1, <2>3
    <3> QED BY <3>2, <3>3, <3>4 DEF Ordered
  <2>8. NoHoleYet' /\ Prefix'
    BY <1>1, <1>2, <1>10 DEF NoHoleYet, Prefix
  <2>9. Cursors'
    <3>1. next[m] \in used' \cup {HEAD} BY <1>7, <2>1
    <3> QED BY <3>1, <1>1, <1>8 DEF Cursors
  <2>10. Temps'
    <3> SUFFICES ASSUME NEW q \in Queries, NEW k \in 1 .. Len(temp[q])
                 PROVE  next'[temp[q][k]] # WILD
      BY <1>1, <1>10 DEF Temps
    <3>1. temp[q][k] \in Slots BY DEF IInv, TypeOK
    <3> QED BY <3>1, <2>4 DEF IInv, Temps
  <2> QED BY <2>4, <2>5, <2>6, <2>7, <2>8, <2>9, <2>10 DEF ListInv
<1>11. CASE ~Overdue(n) /\ UNCHANGED <<list, removed>>
  <2>1. UNCHANGED <<next, prev, entry, expires, used, length, removed>>
    BY <1>11 DEF list
  <2>2. TypeOK' BY <2>1, <1>1, <1>8 DEF IInv, TypeOK
  <2>3. Ordered'
    <3>1. Chained' = S BY <2>1, <1>1, <1>2, <1>4 DEF Chained
    <3>2. Walked(rank)' BY <1>1, <1>8 DEF Walked
    <3>3. expires[m] >= began
      <4>1. expires[m] \in Int /\ clock \in Int /\ began \in Int /\ began <= clock
        BY DEF IInv, TypeOK
      <4> QED BY <4>1, <1>5, <1>11 DEF Overdue
    <3>4. Scanned(rank)' BY <3>3, <1>1, <1>4, <1>9, <2>1 DEF Scanned
    <3>5. Shape(S, rank)' BY <1>6, <2>1 DEF Shape, TwoWay, Sorted
    <3>6. Shape(Chained, rank)' BY <3>1, <3>5
    <3> QED BY <3>2, <3>4, <3>6 DEF Ordered
  <2>4. Fresh' /\ Counted' /\ NoHoleYet' /\ Prefix' /\ Temps'
    BY <1>1, <1>2, <2>1 DEF IInv, Fresh, Counted, NoHoleYet, Prefix, Temps
  <2>5. Cursors'
    BY <1>1, <1>4, <1>7, <1>8, <2>1 DEF Cursors
  <2> QED BY <2>2, <2>3, <2>4, <2>5 DEF ListInv
<1> QED BY <1>10, <1>11 DEF ScanVisit

\* A flush takes out slot after slot and stops at the first hole, which is
\* below length and so was filled once.
LEMMA FlushNodeKeeps ==
  ASSUME IInv, FlushNode
  PROVE  ListInv' /\ StaysInBounds' /\ FaultCause'
<1> USE Threads
<1>1. /\ Running /\ pc[Console] = "flush" /\ i[Console] < length
      /\ entry' = [entry EXCEPT ![i[Console]] = NONE]
      /\ i' = [i EXCEPT ![Console] = @ + 1]
      /\ UNCHANGED <<expires, used, length, clock, writer, readers, pc, at, temp,
                    removed, began>>
  BY DEF FlushNode, Flushing, lock, history
<1>2. writer = Console /\ readers = {} /\ used \subseteq Slots
  BY <1>1 DEF IInv, Locks, TypeOK
<1>3. Locks'
  BY LocksStep DEF IInv, Next, cacheFlush
<1>4. /\ i[Console] \in Nat /\ length \in Nat /\ length <= CacheLen /\ CacheLen \in Nat
      /\ i'[Console] = i[Console] + 1 /\ i' \in [Proc -> Nat]
  BY <1>1, LRUCacheAssumption DEF IInv, TypeOK, Proc, LRUCacheAssumption
<1>5. PICK n \in Slots : n = i[Console]
  BY <1>1, <1>4 DEF Slots
<1>6. PICK S \in SUBSET Slots : S = Chained
  BY <1>2 DEF Chained
<1>7. PICK rank \in [Slots -> Int] : Shape(S, rank)
  BY <1>1, <1>6 DEF IInv, Ordered
<1>8. S = {s \in used : s >= n} /\ Chained' = {s \in used : s >= n + 1}
  BY <1>2, <1>4, <1>5, <1>6, <1>1 DEF Chained
<1>9. Chained' = S \ {n}
  BY <1>2, <1>8, Apart
<1>10. n \in S <=> Linked(n)
  BY <1>7, Apart DEF Shape, TwoWay, Linked, Node
<1>11. next[n] # WILD
  <2> SUFFICES ASSUME next[n] = WILD PROVE FALSE OBVIOUS
  <2>1. \A s \in used : s < n
    BY <1>2, Apart DEF IInv, Fresh
  <2> QED BY <2>1, <1>1, <1>4, <1>5, AtMost DEF IInv
<1>12. /\ entry' \in [Slots -> Records \cup {NONE}] /\ Counted' /\ Cursors'
       /\ Prefix'
  BY <1>1, <1>2 DEF IInv, TypeOK, Counted, Cursors, Prefix
<1>13. CASE Linked(n) /\ Del(n) /\ UNCHANGED fault
  <2>1. n \in S BY <1>10, <1>13
  <2>2. Pointers BY DEF IInv, TypeOK, Pointers
  <2>3. /\ Pointers' /\ Shape(S \ {n}, rank)' /\ next'[n] = NULL
        /\ \A x \in Slots \ S : next'[x] = next[x]
    BY <2>1, <2>2, <1>7, <1>13, DelShape
  <2>4. Fresh' /\ \A x \in Slots : next'[x] = WILD => next[x] = WILD
    <3>1. Fresh /\ used' \subseteq used /\ \A x \in S : next[x] # WILD
      BY <1>1, <1>7, Apart DEF IInv, Shape, TwoWay, Node
    <3> QED BY <3>1, <2>1, <2>3, DelFresh
  <2>5. TypeOK'
    BY <1>1, <1>4, <1>12, <1>13, <2>3 DEF IInv, TypeOK, Pointers
  <2>6. Ordered'
    <3>1. Shape(Chained, rank)' BY <1>9, <2>3
    <3> QED BY <3>1, <1>1, <1>2, <1>3, OrderedAlone
  <2>7. NoHoleYet'
    <3>1. n \in used /\ \A s \in Slots : s < n => s \in used
      BY <2>1, <1>1, <1>2, <1>5, <1>8 DEF IInv, NoHoleYet
    <3>2. \A s \in Slots : s < n + 1 => s \in used
      BY <3>1, Apart
    <3> QED BY <3>2, <1>1, <1>4, <1>5 DEF NoHoleYet
  <2>8. Temps'
    <3> SUFFICES ASSUME NEW q \in Queries, NEW k \in 1 .. Len(temp[q])
                 PROVE  /\ next'[temp[q][k]] # WILD
                        /\ removed = {} => temp[q][k] \in used
      BY <1>1 DEF Temps
    <3>1. temp[q][k] \in Slots BY DEF IInv, TypeOK
    <3> QED BY <3>1, <2>4 DEF IInv, Temps
  <2>9. StaysInBounds' /\ FaultCause'
    BY <1>1, <1>13, Apart DEF IInv, StaysInBounds, FaultCause, Running
  <2> QED BY <2>4, <2>5, <2>6, <2>7, <2>8, <2>9, <1>12 DEF ListInv
<1>14. CASE ~Linked(n) /\ fault' = next[n] /\ UNCHANGED <<next, prev>>
  <2>1. n \notin S BY <1>10, <1>14
  <2>2. fault' = NULL
    BY <2>1, <1>7, <1>11, <1>14 DEF Shape
  <2>3. TypeOK' BY <2>2, <1>1, <1>4, <1>12, <1>14 DEF IInv, TypeOK
  <2>4. Ordered' /\ NoHoleYet' BY <2>2, Apart DEF Ordered, NoHoleYet, Running
  <2>5. Fresh' /\ Temps'
    BY <1>1, <1>14 DEF IInv, Fresh, Temps
  <2>6. n \notin used BY <2>1, <1>8, Apart
  <2>7. Scanner \in removed
    BY <2>6, <1>1, <1>4, <1>5 DEF IInv, Prefix
  <2>8. StaysInBounds' /\ FaultCause'
    BY <2>2, <2>7, <1>1, <1>2, Apart DEF StaysInBounds, FaultCause
  <2> QED BY <2>3, <2>4, <2>5, <2>8, <1>12 DEF ListInv
<1>15. \/ Linked(n) /\ Del(n) /\ UNCHANGED fault
       \/ ~Linked(n) /\ fault' = next[n] /\ UNCHANGED <<next, prev>>
  <2> DEFINE m == i[Console]
  <2>1. \/ Linked(m) /\ Del(m) /\ UNCHANGED fault
        \/ ~Linked(m) /\ fault' = next[m] /\ UNCHANGED <<next, prev>>
    BY DEF FlushNode
  <2>2. m = n BY <1>5
  <2> HIDE DEF m
  <2> QED BY <2>1, <2>2 DEF Linked, Del
<1> QED BY <1>13, <1>14, <1>15

\* A flush that comes to its end has taken out every slot there was.
LEMMA FlushUnlockKeeps ==
  ASSUME IInv, FlushUnlock
  PROVE  ListInv'
<1> USE Threads
<1>1. /\ Running /\ pc[Console] = "flush" /\ i[Console] >= length
      /\ pc' = [pc EXCEPT ![Console] = "idle"]
      /\ writer' = NONE /\ i' = [i EXCEPT ![Console] = 0]
      /\ next' = [next EXCEPT ![HEAD] = HEAD]
      /\ prev' = [prev EXCEPT ![HEAD] = HEAD]
      /\ used' = {} /\ length' = 0
      /\ removed' = removed \cup {Console}
      /\ UNCHANGED <<entry, expires, clock, readers, at, temp, fault, began>>
  <2>1. FlushUnlock => ~(i[Console] < length) BY DEF FlushUnlock, Flushing
  <2>2. i[Console] \in Nat /\ length \in Nat
    BY LRUCacheAssumption DEF IInv, TypeOK, Proc, LRUCacheAssumption
  <2> QED BY <2>1, <2>2 DEF FlushUnlock, Goto, WriteUnlock
<1>2. writer = Console /\ readers = {} /\ used \subseteq Slots
  BY <1>1 DEF IInv, Locks, TypeOK
<1>3. Locks'
  BY LocksStep DEF IInv, Next, cacheFlush
<1>4. i[Console] \in Nat /\ length \in Nat /\ CacheLen \in Nat
  BY LRUCacheAssumption DEF IInv, TypeOK, Proc, LRUCacheAssumption
<1>5. \A s \in Slots : s < length => s \in used
  <2>1. i[Console] = length BY <1>1, <1>2, <1>4 DEF IInv, NoHoleYet
  <2> QED BY <2>1, <1>1, <1>2 DEF IInv, NoHoleYet
<1>6. used = 0 .. length - 1 BY <1>5, Packed DEF IInv
<1>7. Chained = {} /\ Chained' = {}
  BY <1>1, <1>2, <1>4, <1>6 DEF Chained
<1>8. PICK rank \in [Slots -> Int] : Shape({}, rank)
  BY <1>1, <1>7 DEF IInv, Ordered
<1>9. /\ next'[HEAD] = HEAD /\ prev'[HEAD] = HEAD /\ HEAD \notin Slots
      /\ \A s \in Slots : next'[s] = next[s]
  BY <1>1, Apart DEF IInv, TypeOK, Node
<1>10. Shape({}, rank)'
  BY <1>8, <1>9 DEF Shape, TwoWay, Sorted
<1>11. Ordered'
  <2>1. Shape(Chained, rank)' BY <1>7, <1>10
  <2> QED BY <2>1, <1>1, <1>2, <1>3, OrderedAlone
<1>12. TypeOK'
  <2>1. /\ next' \in [Node -> Node \cup {NULL, WILD}]
        /\ prev' \in [Node -> Node \cup {NULL, WILD}]
    BY <1>1 DEF IInv, TypeOK, Node
  <2>2. pc' \in [Proc -> Phase]
    BY <1>1 DEF IInv, TypeOK, Phase
  <2>4. i' \in [Proc -> Nat] BY <1>1 DEF IInv, TypeOK
  <2>5. length' \in 0 .. CacheLen BY <1>1, <1>4
  <2>6. used' \subseteq Slots /\ writer' \in Proc \cup {NONE} BY <1>1
  <2>3. removed' \subseteq {Scanner, Console} BY <1>1 DEF IInv, TypeOK
  <2> QED BY <1>1, <2>1, <2>2, <2>3, <2>4, <2>5, <2>6 DEF IInv, TypeOK
<1>13. Fresh' BY <1>1, <1>9 DEF IInv, Fresh
<1>14. Counted' BY <1>1, FS_EmptySet DEF Counted
<1>15. NoHoleYet' BY <1>1 DEF NoHoleYet
<1>16. Prefix' BY <1>1 DEF Prefix
<1>17. Cursors'
  <2>1. pc'[Scanner] # "scan" /\ \A q \in Queries : pc'[q] # "walk"
    BY <1>1, <1>2, <1>3 DEF Locks
  <2> QED BY <2>1 DEF Cursors
<1>18. Temps'
  <2> SUFFICES ASSUME NEW q \in Queries, NEW k \in 1 .. Len(temp[q])
               PROVE  next'[temp[q][k]] # WILD
    BY <1>1 DEF Temps
  <2>1. temp[q][k] \in Slots BY DEF IInv, TypeOK
  <2> QED BY <2>1, <1>9 DEF IInv, Temps
<1> QED BY <1>11, <1>12, <1>13, <1>14, <1>15, <1>16, <1>17, <1>18 DEF ListInv

----------------------------------------------------------------------------
(* The steps that leave the list alone *)

\* Nothing precedes the first node.
LEMMA NothingBefore ==
  ASSUME NEW S \in SUBSET Slots, NEW rank \in [Slots -> Int], Sorted(S, rank),
         NEW s \in S
  PROVE  next[HEAD] # HEAD /\ ~(rank[s] < rank[next[HEAD]])
<1>1. HEAD \notin S /\ next[HEAD] \in S /\ rank[next[HEAD]] <= rank[s]
  BY Apart DEF Sorted
<1>2. rank[next[HEAD]] \in Int /\ rank[s] \in Int BY <1>1
<1> QED BY <1>1, <1>2

\* What is said of the set[] bytes stays without a write to them.
LEMMA ListUntouched ==
  ASSUME IInv, UNCHANGED <<next, prev, used, length, removed>>
  PROVE  Fresh' /\ Counted' /\ Prefix'
  BY DEF IInv, Fresh, Counted, Prefix

\* The shape of the list stays without a write to a pointer.
LEMMA ShapeUntouched ==
  ASSUME UNCHANGED <<next, prev>>, NEW S, NEW rank, Shape(S, rank)
  PROVE  Shape(S, rank)'
  BY DEF Shape, TwoWay, Sorted

\* Other threads may let time pass, but do not touch what a walk relies on.
LEMMA WalkOn ==
  ASSUME TypeOK, clock' \in Int, clock' >= clock, UNCHANGED <<used, entry, expires>>,
         NEW q \in Queries, NEW rank, WalkedBy(rank, q),
         at'[q] = at[q], temp'[q] = temp[q]
  PROVE  WalkedBy(rank, q)'
<1>1. Found(q)' = Found(q) BY DEF Found
<1>2. \A s : Passed(rank, q, s)' <=> Passed(rank, q, s) BY DEF Passed
<1>3. \A s \in used : Match(q, s)' => Match(q, s)
  <2> SUFFICES ASSUME NEW s \in used, Match(q, s)' PROVE Match(q, s) OBVIOUS
  <2>1. expires[s] \in Int /\ clock \in Int BY DEF TypeOK
  <2> QED BY <2>1 DEF Match
<1> QED BY <1>1, <1>2, <1>3 DEF WalkedBy

\* A walk starts in front of all nodes, with nothing found.
LEMMA QueryLockKeeps ==
  ASSUME IInv, NEW q \in Queries, QueryLock(q)
  PROVE  ListInv'
<1> USE Threads
<1>1. /\ Running /\ pc[q] = "start" /\ pc' = [pc EXCEPT ![q] = "walk"]
      /\ writer = NONE /\ writer' = NONE /\ readers' = readers \cup {q}
      /\ at' = [at EXCEPT ![q] = next[HEAD]]
      /\ UNCHANGED <<next, prev, entry, expires, used, length, clock, i, temp,
                    fault, removed, began>>
  BY DEF QueryLock, Goto, ReadLock, list, history
<1>2. Locks'
  BY LocksStep DEF IInv, Next, cacheQuery
<1>3. PICK S \in SUBSET Slots : S = used
  BY DEF IInv, TypeOK
<1>4. PICK rank \in [Slots -> Int] : Shape(S, rank) /\ Walked(rank)
  BY <1>1, <1>3 DEF IInv, Ordered, Chained
<1>5. next[HEAD] \in S \cup {HEAD} /\ S \subseteq Node /\ HEAD \in Node /\ q \in Proc
  BY <1>4 DEF Shape, TwoWay, Node, Proc
<1>6. /\ at'[q] = next[HEAD] /\ pc'[q] = "walk" /\ temp[q] = <<>>
      /\ \A p \in Proc : p # q => at'[p] = at[p] /\ pc'[p] = pc[p]
      /\ Queries \subseteq Proc /\ Scanner \in Proc
  BY <1>1, <1>5 DEF IInv, TypeOK, Indices, Proc
<1>7. TypeOK'
  <2>1. pc' \in [Proc -> Phase] BY <1>1 DEF IInv, TypeOK, Phase
  <2>2. at' \in [Proc -> Node] BY <1>1, <1>5 DEF IInv, TypeOK
  <2> QED BY <1>1, <2>1, <2>2 DEF IInv, TypeOK
<1>8. Walked(rank)'
  <2> SUFFICES ASSUME NEW p \in Queries, pc'[p] = "walk" PROVE WalkedBy(rank, p)'
    BY DEF Walked
  <2>1. CASE p = q
    <3>1. Found(p)' = {} /\ Len(temp'[p]) = 0 /\ Cardinality(Found(p)') = 0
      <4>1. temp'[p] = <<>> /\ Len(temp'[p]) = 0 BY <2>1, <1>1, <1>6
      <4>2. Found(p)' = {} BY <4>1 DEF Found
      <4> QED BY <4>1, <4>2, FS_EmptySet
    <3>2. \A s \in S : next[HEAD] # HEAD /\ ~(rank[s] < rank[next[HEAD]])
      BY <1>4, NothingBefore DEF Shape
    <3>3. \A s \in S : ~Passed(rank, p, s)'
      BY <3>2, <2>1, <1>6 DEF Passed
    <3> QED BY <3>1, <3>3, <1>1, <1>3 DEF WalkedBy
  <2>2. CASE p # q
    <3>1. WalkedBy(rank, p) /\ at'[p] = at[p] BY <2>2, <1>4, <1>6 DEF Walked
    <3>2. clock \in Int BY DEF IInv, TypeOK
    <3> QED BY <3>1, <3>2, <1>1, WalkOn DEF IInv
  <2> QED BY <2>1, <2>2
<1>9. Ordered'
  <2>1. Chained' = S BY <1>1, <1>3 DEF Chained
  <2>2. Shape(S, rank)' BY <1>1, <1>4, ShapeUntouched
  <2>3. Scanned(rank)' BY <1>1, <1>2 DEF Scanned, Locks
  <2> QED BY <1>8, <2>1, <2>2, <2>3 DEF Ordered
<1>10. Fresh' /\ Counted' /\ Prefix' BY <1>1, ListUntouched
<1>11. NoHoleYet' /\ Temps' BY <1>1 DEF IInv, NoHoleYet, Temps
<1>12. Cursors'
  BY <1>1, <1>3, <1>5, <1>6 DEF IInv, Cursors
<1> QED BY <1>7, <1>9, <1>10, <1>11, <1>12 DEF ListInv

\* A walk collects the slot under its cursor if it matches, and goes on.
LEMMA QueryVisitKeeps ==
  ASSUME IInv, NEW q \in Queries, QueryVisit(q)
  PROVE  ListInv'
<1> USE Threads
<1>1. /\ Running /\ pc[q] = "walk" /\ at[q] # HEAD
      /\ temp' = IF Match(q, at[q]) THEN [temp EXCEPT ![q] = Append(@, at[q])]
                                    ELSE temp
      /\ at' = [at EXCEPT ![q] = next[at[q]]]
      /\ UNCHANGED <<next, prev, entry, expires, used, length, clock, writer,
                    readers, pc, i, fault, removed, began>>
  BY DEF QueryVisit, list, lock, history
<1>2. Locks'
  BY LocksStep DEF IInv, Next, cacheQuery
<1>3. writer = NONE /\ at[q] \in used /\ used \subseteq Slots /\ q \in Proc
  BY <1>1 DEF IInv, Locks, Cursors, TypeOK, Proc
<1>4. PICK S \in SUBSET Slots : S = used
  BY <1>3
<1>5. PICK n \in S : n = at[q]
  BY <1>3, <1>4
<1>6. PICK rank \in [Slots -> Int] : Shape(S, rank) /\ Walked(rank)
  BY <1>1, <1>3, <1>4 DEF IInv, Ordered, Chained
<1>7. next[n] \in S \cup {HEAD} /\ S \subseteq Node /\ HEAD \in Node
  BY <1>6 DEF Shape, TwoWay, Node
<1>8. /\ at'[q] = next[n] /\ at' \in [Proc -> Node]
      /\ \A p \in Proc : p # q => at'[p] = at[p]
      /\ Queries \subseteq Proc /\ Scanner \in Proc
  BY <1>1, <1>3, <1>5, <1>7 DEF IInv, TypeOK, Proc
<1>9. /\ temp' \in [Queries -> Seq(Slots)]
      /\ temp'[q] = IF Match(q, n) THEN Append(temp[q], n) ELSE temp[q]
      /\ \A p \in Queries : p # q => temp'[p] = temp[p]
      /\ temp[q] \in Seq(Slots)
  BY <1>1, <1>5 DEF IInv, TypeOK
<1>10. TypeOK'
  BY <1>1, <1>8, <1>9 DEF IInv, TypeOK
<1>11. WalkedBy(rank, q)
  BY <1>1, <1>6 DEF Walked
<1>12. HEAD \notin S /\ \A s \in S : rank[s] \in Int
  BY Apart
<1>13. \A s \in S : Passed(rank, q, s)' <=> Passed(rank, q, s) \/ s = n
  <2> SUFFICES ASSUME NEW s \in S
               PROVE  Passed(rank, q, s)' <=> Passed(rank, q, s) \/ s = n
    OBVIOUS
  <2>1. Passed(rank, q, s) <=> rank[s] < rank[n]
    BY <1>5, <1>12 DEF Passed
  <2>2. Passed(rank, q, s)' <=> next[n] = HEAD \/ rank[s] < rank[next[n]]
    BY <1>8 DEF Passed
  <2>3. next[n] \in S => rank[n] < rank[next[n]]
    BY <1>6 DEF Shape, Sorted
  <2>4. s # n /\ (next[n] = HEAD \/ rank[s] < rank[next[n]]) => rank[s] < rank[n]
    BY <1>6, NothingBetween DEF Shape
  <2> QED BY <2>1, <2>2, <2>3, <2>4, <1>7, <1>12
<1>14. \A s \in S : Match(q, s)' <=> Match(q, s)
  BY <1>1 DEF Match
<1>15. n \notin Found(q)
  BY <1>5, <1>11, <1>12 DEF WalkedBy, Passed
<1>16. WalkedBy(rank, q)'
  <2>1. CASE Match(q, n)
    <3>0. /\ Len(temp[q]) \in Nat /\ Len(temp'[q]) = Len(temp[q]) + 1
          /\ temp'[q][Len(temp[q]) + 1] = n
          /\ \A k \in 1 .. Len(temp[q]) : temp'[q][k] = temp[q][k]
      BY <2>1, <1>9
    <3>1. Found(q)' = Found(q) \cup {n}
      <4>1. ASSUME NEW x \in Found(q)' PROVE x \in Found(q) \cup {n}
        BY <3>0, <4>1 DEF Found
      <4>2. Found(q) \subseteq Found(q)'
        BY <3>0 DEF Found
      <4>3. n \in Found(q)'
        <5>1. Len(temp[q]) + 1 \in 1 .. Len(temp'[q]) BY <3>0
        <5> QED BY <5>1, <3>0 DEF Found
      <4> QED BY <4>1, <4>2, <4>3
    <3>2. IsFiniteSet(Found(q))
      <4>1. Found(q) \subseteq used BY <1>11 DEF WalkedBy
      <4> QED BY <4>1, UsedFinite, FS_Subset DEF IInv
    <3>3. Cardinality(Found(q)') = Len(temp'[q])
      <4>1. Cardinality(Found(q) \cup {n}) = Cardinality(Found(q)) + 1
        BY <3>2, <1>15, FS_AddElement
      <4> QED BY <4>1, <3>0, <3>1, <1>11 DEF WalkedBy
    <3>4. \A s \in Found(q)' :
            s \in S /\ Key[entry[s]] = Key[q] /\ Passed(rank, q, s)'
      BY <3>1, <2>1, <1>4, <1>11, <1>13 DEF WalkedBy, Match
    <3>5. \A s \in S : Match(q, s)' /\ Passed(rank, q, s)' => s \in Found(q)'
      BY <3>1, <1>4, <1>11, <1>13, <1>14 DEF WalkedBy
    <3> QED BY <3>3, <3>4, <3>5, <1>1, <1>4 DEF WalkedBy
  <2>2. CASE ~Match(q, n)
    <3>1. Found(q)' = Found(q) /\ Len(temp'[q]) = Len(temp[q])
      BY <2>2, <1>9 DEF Found
    <3>2. \A s \in Found(q)' :
            s \in S /\ Key[entry[s]] = Key[q] /\ Passed(rank, q, s)'
      BY <3>1, <1>4, <1>11, <1>13 DEF WalkedBy
    <3>3. \A s \in S : Match(q, s)' /\ Passed(rank, q, s)' => s \in Found(q)'
      BY <3>1, <2>2, <1>4, <1>11, <1>13, <1>14 DEF WalkedBy
    <3>4. Cardinality(Found(q)') = Len(temp'[q])
      BY <3>1, <1>11 DEF WalkedBy
    <3> QED BY <3>2, <3>3, <3>4, <1>1, <1>4 DEF WalkedBy
  <2> QED BY <2>1, <2>2
<1>17. Walked(rank)'
  <2> SUFFICES ASSUME NEW p \in Queries, pc'[p] = "walk", p # q
               PROVE  WalkedBy(rank, p)'
    BY <1>16 DEF Walked
  <2>1. WalkedBy(rank, p) /\ at'[p] = at[p] /\ temp'[p] = temp[p]
    BY <1>1, <1>6, <1>8, <1>9 DEF Walked
  <2>2. clock \in Int BY DEF IInv, TypeOK
  <2> QED BY <2>1, <2>2, <1>1, WalkOn DEF IInv
<1>18. Ordered'
  <2>1. Chained' = S BY <1>1, <1>3, <1>4 DEF Chained
  <2>2. Shape(S, rank)' BY <1>1, <1>6, ShapeUntouched
  <2>3. Scanned(rank)' BY <1>1, <1>2, <1>3 DEF Scanned, Locks
  <2> QED BY <1>17, <2>1, <2>2, <2>3 DEF Ordered
<1>19. Fresh' /\ Counted' /\ Prefix' BY <1>1, ListUntouched
<1>20. NoHoleYet' BY <1>1, <1>3 DEF NoHoleYet
<1>21. Temps'
  <2>1. next[n] # WILD
    BY <1>7, Apart
  <2> SUFFICES ASSUME NEW p \in Queries, NEW k \in 1 .. Len(temp'[p])
               PROVE  /\ next[temp'[p][k]] # WILD
                      /\ removed = {} => temp'[p][k] \in used
    BY <1>1 DEF Temps
  <2>2. CASE temp'[p] = temp[p] BY <2>2 DEF IInv, Temps
  <2>3. CASE p = q /\ temp'[q] = Append(temp[q], n)
    <3>1. CASE k = Len(temp[q]) + 1
      BY <3>1, <2>1, <2>3, <1>4, <1>9
    <3>2. CASE k \in 1 .. Len(temp[q])
      <4>1. temp'[p][k] = temp[q][k] BY <3>2, <2>3, <1>9
      <4> QED BY <3>2, <4>1 DEF IInv, Temps
    <3> QED BY <3>1, <3>2, <2>3, <1>9
  <2> QED BY <2>2, <2>3, <1>9
<1>22. Cursors'
  BY <1>1, <1>4, <1>7, <1>8 DEF IInv, Cursors
<1> QED BY <1>10, <1>18, <1>19, <1>20, <1>21, <1>22 DEF ListInv

\* A walk at its end hands over what it has found.
LEMMA QueryUnlockKeeps ==
  ASSUME IInv, NEW q \in Queries, QueryUnlock(q)
  PROVE  ListInv'
<1> USE Threads
<1>1. /\ Running /\ pc[q] = "walk" /\ pc' = [pc EXCEPT ![q] = "spawned"]
      /\ writer' = writer /\ readers' = readers \ {q}
      /\ UNCHANGED <<next, prev, entry, expires, used, length, clock, at, i, temp,
                    fault, removed, began>>
  BY DEF QueryUnlock, Goto, ReadUnlock, list, history
<1>2. Locks' /\ writer = NONE
  BY <1>1, LocksStep DEF IInv, Locks, Next, cacheQuery
<1>3. PICK S \in SUBSET Slots : S = used
  BY DEF IInv, TypeOK
<1>4. PICK rank \in [Slots -> Int] : Shape(S, rank) /\ Walked(rank)
  BY <1>1, <1>2, <1>3 DEF IInv, Ordered, Chained
<1>5. \A p \in Proc : pc'[p] = pc[p] \/ pc'[p] = "spawned"
  BY <1>1 DEF IInv, TypeOK
<1>6. Queries \subseteq Proc /\ Scanner \in Proc BY DEF Proc
<1>7. TypeOK'
  <2>1. pc' \in [Proc -> Phase] BY <1>1 DEF IInv, TypeOK, Phase
  <2> QED BY <1>1, <2>1 DEF IInv, TypeOK
<1>8. Walked(rank)'
  <2> SUFFICES ASSUME NEW p \in Queries, pc'[p] = "walk" PROVE WalkedBy(rank, p)'
    BY DEF Walked
  <2>1. WalkedBy(rank, p) BY <1>4, <1>5, <1>6 DEF Walked
  <2>2. clock \in Int BY DEF IInv, TypeOK
  <2> QED BY <2>1, <2>2, <1>1, WalkOn DEF IInv
<1>9. Ordered'
  <2>1. Chained' = S BY <1>1, <1>2, <1>3 DEF Chained
  <2>2. Shape(S, rank)' BY <1>1, <1>4, ShapeUntouched
  <2>3. Scanned(rank)' BY <1>1, <1>2 DEF Scanned, Locks
  <2> QED BY <1>8, <2>1, <2>2, <2>3 DEF Ordered
<1>10. Fresh' /\ Counted' /\ Prefix' BY <1>1, ListUntouched
<1>11. NoHoleYet' /\ Temps' BY <1>1, <1>2 DEF IInv, NoHoleYet, Temps
<1>12. Cursors'
  BY <1>1, <1>5, <1>6 DEF IInv, Cursors
<1> QED BY <1>7, <1>9, <1>10, <1>11, <1>12 DEF ListInv

\* When the lock changes hands and nobody walks or scans, only the cursor of the
\* thread and the types of what it sets are left to look at.
LEMMA LockedAlone ==
  ASSUME IInv, Locks', Running, readers' = {}, writer' # Scanner,
         Chained' = Chained,
         UNCHANGED <<next, prev, used, length, removed>>
  PROVE  Ordered' /\ Fresh' /\ Counted' /\ Prefix' /\ Cursors'
<1>1. PICK S : S = Chained OBVIOUS
<1>2. PICK rank \in [Slots -> Int] : Shape(S, rank) BY <1>1 DEF IInv, Ordered
<1>3. Shape(S, rank)' BY <1>2, ShapeUntouched
<1>4. Shape(Chained, rank)' BY <1>1, <1>3
<1>5. Ordered' BY <1>4, OrderedAlone
<1>6. Cursors' BY DEF Locks, Cursors
<1> QED BY <1>5, <1>6, ListUntouched

\* A rotate thread starts with nobody else at the list.
LEMMA RotateLockKeeps ==
  ASSUME IInv, NEW q \in Queries, RotateLock(q)
  PROVE  ListInv'
<1> USE Threads
<1>1. /\ Running /\ pc' = [pc EXCEPT ![q] = "rotate"]
      /\ writer = NONE /\ readers = {} /\ writer' = q /\ readers' = {}
      /\ i' = [i EXCEPT ![q] = 1]
      /\ UNCHANGED <<next, prev, entry, expires, used, length, clock, at, temp,
                    fault, removed, began>>
  BY DEF RotateLock, Goto, WriteLock, list, history
<1>2. Locks'
  BY LocksStep DEF IInv, Next, rotate
<1>3. Chained' = Chained BY <1>1 DEF Chained
<1>4. Ordered' /\ Fresh' /\ Counted' /\ Prefix' /\ Cursors'
  BY <1>1, <1>2, <1>3, LockedAlone
<1>5. TypeOK'
  <2>1. pc' \in [Proc -> Phase] BY <1>1 DEF IInv, TypeOK, Phase
  <2>2. i' \in [Proc -> Nat] BY <1>1 DEF IInv, TypeOK
  <2>3. writer' \in Proc BY <1>1 DEF Proc
  <2> QED BY <1>1, <2>1, <2>2, <2>3 DEF IInv, TypeOK
<1>6. NoHoleYet' /\ Temps' BY <1>1 DEF IInv, NoHoleYet, Temps
<1> QED BY <1>4, <1>5, <1>6 DEF ListInv

\* A rotate thread ends and frees its temp array.
LEMMA RotateUnlockKeeps ==
  ASSUME IInv, NEW q \in Queries, RotateUnlock(q)
  PROVE  ListInv'
<1> USE Threads
<1>1. /\ Running /\ pc[q] = "rotate" /\ pc' = [pc EXCEPT ![q] = "done"]
      /\ writer' = NONE /\ readers' = readers
      /\ temp' = [temp EXCEPT ![q] = <<>>]
      /\ i' = [i EXCEPT ![q] = 0]
      /\ UNCHANGED <<next, prev, entry, expires, used, length, clock, at,
                    fault, removed, began>>
  BY DEF RotateUnlock, Goto, WriteUnlock, list, history
<1>2. Locks' /\ writer = q /\ readers = {}
  BY <1>1, LocksStep DEF IInv, Locks, Next, rotate
<1>3. Chained' = Chained BY <1>1, <1>2 DEF Chained
<1>4. Ordered' /\ Fresh' /\ Counted' /\ Prefix' /\ Cursors'
  BY <1>1, <1>2, <1>3, LockedAlone
<1>5. /\ temp' \in [Queries -> Seq(Slots)] /\ Len(temp'[q]) = 0
      /\ \A p \in Queries : p # q => temp'[p] = temp[p]
  BY <1>1 DEF IInv, TypeOK
<1>6. TypeOK'
  <2>1. pc' \in [Proc -> Phase] BY <1>1 DEF IInv, TypeOK, Phase
  <2>2. i' \in [Proc -> Nat] BY <1>1 DEF IInv, TypeOK
  <2> QED BY <1>1, <1>5, <2>1, <2>2 DEF IInv, TypeOK
<1>7. NoHoleYet' BY <1>1 DEF NoHoleYet
<1>8. Temps'
  <2> SUFFICES ASSUME NEW p \in Queries, NEW k \in 1 .. Len(temp'[p])
               PROVE  /\ next[temp'[p][k]] # WILD
                      /\ removed = {} => temp'[p][k] \in used
    BY <1>1 DEF Temps
  <2>1. p # q BY <1>5
  <2> QED BY <2>1, <1>5 DEF IInv, Temps
<1> QED BY <1>4, <1>6, <1>7, <1>8 DEF ListInv

\* A scan starts in front of all nodes, at the time it gets the lock.
LEMMA ScanLockKeeps ==
  ASSUME IInv, ScanLock
  PROVE  ListInv'
<1> USE Threads
<1>1. /\ Running /\ pc' = [pc EXCEPT ![Scanner] = "scan"]
      /\ writer = NONE /\ readers = {} /\ writer' = Scanner /\ readers' = {}
      /\ at' = [at EXCEPT ![Scanner] = next[HEAD]] /\ began' = clock
      /\ UNCHANGED <<next, prev, entry, expires, used, length, clock, i, temp,
                    fault, removed>>
  BY DEF ScanLock, Goto, WriteLock, list
<1>2. Locks'
  BY LocksStep DEF IInv, Next, cacheScan
<1>3. PICK S \in SUBSET Slots : S = used
  BY DEF IInv, TypeOK
<1>4. PICK rank \in [Slots -> Int] : Shape(S, rank)
  BY <1>1, <1>3 DEF IInv, Ordered, Chained
<1>5. next[HEAD] \in S \cup {HEAD} /\ next[HEAD] \in Node /\ Scanner \in Proc
  BY <1>4 DEF Shape, TwoWay, Node, Proc
<1>6. at'[Scanner] = next[HEAD] /\ \A q \in Queries : pc'[q] # "walk"
  BY <1>1, <1>2, <1>5 DEF IInv, TypeOK, Locks
<1>7. TypeOK'
  <2>1. pc' \in [Proc -> Phase] BY <1>1 DEF IInv, TypeOK, Phase
  <2>2. at' \in [Proc -> Node] BY <1>1, <1>5 DEF IInv, TypeOK
  <2>3. began' \in 0 .. clock' BY <1>1 DEF IInv, TypeOK
  <2>4. writer' \in Proc BY <1>1, <1>5
  <2> QED BY <1>1, <2>1, <2>2, <2>3, <2>4 DEF IInv, TypeOK
<1>8. Ordered'
  <2>1. Chained' = S BY <1>1, <1>3 DEF Chained
  <2>2. Shape(S, rank)' BY <1>1, <1>4, ShapeUntouched
  <2>3. Walked(rank)' BY <1>6 DEF Walked
  <2>4. \A s \in S : ~Passed(rank, Scanner, s)'
    <3>1. \A s \in S : next[HEAD] # HEAD /\ ~(rank[s] < rank[next[HEAD]])
      BY <1>4, NothingBefore DEF Shape
    <3> QED BY <3>1, <1>6 DEF Passed
  <2>5. Scanned(rank)' BY <2>4, <1>1, <1>3 DEF Scanned
  <2> QED BY <2>1, <2>2, <2>3, <2>5 DEF Ordered
<1>9. Fresh' /\ Counted' /\ Prefix' BY <1>1, ListUntouched
<1>10. NoHoleYet' /\ Temps' BY <1>1 DEF IInv, NoHoleYet, Temps
<1>11. Cursors' BY <1>1, <1>3, <1>5, <1>6 DEF Cursors
<1> QED BY <1>7, <1>8, <1>9, <1>10, <1>11 DEF ListInv

\* A scan at its end gives the list back as it is.
LEMMA ScanUnlockKeeps ==
  ASSUME IInv, ScanUnlock
  PROVE  ListInv'
<1> USE Threads
<1>1. /\ Running /\ pc[Scanner] = "scan" /\ pc' = [pc EXCEPT ![Scanner] = "sleep"]
      /\ writer' = NONE /\ readers' = readers
      /\ UNCHANGED <<next, prev, entry, expires, used, length, clock, at, i, temp,
                    fault, removed, began>>
  BY DEF ScanUnlock, Goto, WriteUnlock, list, history
<1>2. Locks' /\ writer = Scanner /\ readers = {}
  BY <1>1, LocksStep DEF IInv, Locks, Next, cacheScan
<1>3. Chained' = Chained BY <1>1, <1>2 DEF Chained
<1>4. Ordered' /\ Fresh' /\ Counted' /\ Prefix' /\ Cursors'
  BY <1>1, <1>2, <1>3, LockedAlone
<1>5. TypeOK'
  <2>1. pc' \in [Proc -> Phase] BY <1>1 DEF IInv, TypeOK, Phase
  <2> QED BY <1>1, <2>1 DEF IInv, TypeOK
<1>6. NoHoleYet' /\ Temps' BY <1>1 DEF IInv, NoHoleYet, Temps
<1> QED BY <1>4, <1>5, <1>6 DEF ListInv

\* A flush starts at slot 0, where it has neither passed nor unlinked a slot.
LEMMA FlushLockKeeps ==
  ASSUME IInv, FlushLock
  PROVE  ListInv'
<1> USE Threads
<1>1. /\ Running /\ pc' = [pc EXCEPT ![Console] = "flush"]
      /\ writer = NONE /\ readers = {} /\ writer' = Console /\ readers' = {}
      /\ UNCHANGED <<next, prev, entry, expires, used, length, clock, at, i, temp,
                    fault, removed, began>>
  BY DEF FlushLock, Goto, WriteLock, list, history
<1>2. Locks'
  BY LocksStep DEF IInv, Next, cacheFlush
<1>3. i'[Console] = 0 /\ length \in Nat /\ used \subseteq Slots
  BY <1>1, LRUCacheAssumption DEF IInv, Indices, TypeOK, LRUCacheAssumption
<1>4. Chained' = Chained BY <1>1, <1>3, Apart DEF Chained
<1>5. Ordered' /\ Fresh' /\ Counted' /\ Prefix' /\ Cursors'
  BY <1>1, <1>2, <1>4, LockedAlone
<1>6. TypeOK'
  <2>1. pc' \in [Proc -> Phase] BY <1>1 DEF IInv, TypeOK, Phase
  <2>2. writer' \in Proc BY <1>1 DEF Proc
  <2> QED BY <1>1, <2>1, <2>2 DEF IInv, TypeOK
<1>7. NoHoleYet' BY <1>1, <1>3, Apart DEF NoHoleYet
<1>8. Temps' BY <1>1 DEF IInv, Temps
<1> QED BY <1>5, <1>6, <1>7, <1>8 DEF ListInv

\* As time passes records only become overdue.
LEMMA TickKeeps ==
  ASSUME IInv, Tick
  PROVE  ListInv'
<1>1. /\ Running /\ clock < MaxClock /\ clock' = clock + 1
      /\ UNCHANGED <<next, prev, entry, expires, used, length, writer, readers,
                    pc, at, i, temp, fault, removed, began>>
  BY DEF Tick, list, lock, local, history
<1>2. clock \in Int /\ clock >= 0 /\ began \in Int /\ MaxClock \in Int
  BY LRUCacheAssumption DEF IInv, TypeOK, LRUCacheAssumption
<1>3. PICK S : S = Chained OBVIOUS
<1>4. PICK rank \in [Slots -> Int] : Shape(S, rank) /\ Walked(rank) /\ Scanned(rank)
  BY <1>1, <1>3 DEF IInv, Ordered
<1>5. Walked(rank)'
  <2> SUFFICES ASSUME NEW p \in Queries, pc'[p] = "walk" PROVE WalkedBy(rank, p)'
    BY DEF Walked
  <2>1. WalkedBy(rank, p) BY <1>1, <1>4 DEF Walked
  <2>2. clock' \in Int /\ clock' >= clock BY <1>1, <1>2
  <2> QED BY <2>1, <2>2, <1>1, WalkOn DEF IInv
<1>6. Ordered'
  <2>1. Chained' = S BY <1>1, <1>3 DEF Chained
  <2>2. Shape(S, rank)' BY <1>1, <1>4, ShapeUntouched
  <2>3. Scanned(rank)' BY <1>1, <1>4 DEF Scanned, Passed
  <2> QED BY <1>5, <2>1, <2>2, <2>3 DEF Ordered
<1>7. TypeOK'
  <2>1. clock' \in 0 .. MaxClock /\ began' \in 0 .. clock'
    BY <1>1, <1>2 DEF IInv, TypeOK
  <2> QED BY <1>1, <2>1 DEF IInv, TypeOK
<1>8. Fresh' /\ Counted' /\ Prefix' BY <1>1, ListUntouched
<1>9. NoHoleYet' /\ Cursors' /\ Temps'
  BY <1>1 DEF IInv, NoHoleYet, Cursors, Temps, Running
<1> QED BY <1>6, <1>7, <1>8, <1>9 DEF ListInv

----------------------------------------------------------------------------
(* The invariant *)

\* A loop index and a temp array are set by nobody but the thread they belong to.
LEMMA IndicesStep == TypeOK /\ Locks /\ Indices /\ [Next]_vars => Indices'
<1> SUFFICES ASSUME TypeOK, Locks, Indices, [Next]_vars PROVE Indices' OBVIOUS
<1> USE DEF Indices, Goto, lock, local, list, WriteLock, WriteUnlock, ReadLock,
            ReadUnlock, Proc
<1> USE Threads
<1>t. pc \in [Proc -> Phase] /\ i \in [Proc -> Nat] /\ temp \in [Queries -> Seq(Slots)]
  BY DEF TypeOK
<1>1. ASSUME NEW r \in Records, InsertFree(r) PROVE Indices'
  BY <1>1, <1>t DEF InsertFree
<1>2. ASSUME NEW r \in Records, InsertEvict(r) PROVE Indices'
  BY <1>2, <1>t DEF InsertEvict
<1>3. ASSUME NEW q \in Queries, QueryLock(q) PROVE Indices'
  BY <1>3, <1>t DEF QueryLock
<1>4. ASSUME NEW q \in Queries, QueryVisit(q) PROVE Indices'
  BY <1>4, <1>t DEF QueryVisit
<1>5. ASSUME NEW q \in Queries, QueryUnlock(q) PROVE Indices'
  BY <1>5, <1>t DEF QueryUnlock
<1>6. ASSUME NEW q \in Queries, RotateLock(q) PROVE Indices'
  BY <1>6, <1>t DEF RotateLock
<1>7. ASSUME NEW q \in Queries, RotateNode(q) PROVE Indices'
  BY <1>7, <1>t DEF RotateNode
<1>8. ASSUME NEW q \in Queries, RotateUnlock(q) PROVE Indices'
  <2>1. /\ pc' = [pc EXCEPT ![q] = "done"] /\ temp' = [temp EXCEPT ![q] = <<>>]
        /\ i' = [i EXCEPT ![q] = 0] /\ writer = q
    BY <1>8 DEF RotateUnlock, Locks
  <2>2. i'[Console] = i[Console] /\ i[Console] = 0 BY <2>1, <1>t
  <2>3. \A p \in Queries : pc'[p] = "start" => temp'[p] = <<>>
    BY <2>1, <1>t
  <2>4. \A p \in Queries : pc'[p] = "rotate" => i'[p] >= 1
    BY <2>1, <1>t
  <2> QED BY <2>2, <2>3, <2>4
<1>9. CASE ScanLock BY <1>9, <1>t DEF ScanLock
<1>10. CASE ScanVisit
  <2>1. UNCHANGED <<writer, pc, i, temp>> BY <1>10 DEF ScanVisit
  <2> QED BY <2>1
<1>11. CASE ScanUnlock BY <1>11, <1>t DEF ScanUnlock, Locks
<1>12. CASE FlushLock BY <1>12, <1>t DEF FlushLock
<1>13. CASE FlushNode BY <1>13, <1>t DEF FlushNode, Locks
<1>14. CASE FlushUnlock BY <1>14, <1>t DEF FlushUnlock
<1>15. CASE Tick BY <1>15 DEF Tick
<1>16. CASE UNCHANGED vars BY <1>16 DEF vars
<1> QED
  BY <1>1, <1>2, <1>3, <1>4, <1>5, <1>6, <1>7, <1>8, <1>9, <1>10, <1>11, <1>12,
     <1>13, <1>14, <1>15, <1>16
  DEF Next, cacheInsert, cacheQuery, rotate, cacheScan, cacheFlush

\* A cache just made is an empty list with nobody at it.
LEMMA InitInv == Init => IInv
<1> SUFFICES ASSUME Init PROVE IInv OBVIOUS
<1> USE Threads
<1>1. /\ next = [n \in Node |-> IF n = HEAD THEN HEAD ELSE WILD]
      /\ prev = [n \in Node |-> IF n = HEAD THEN HEAD ELSE WILD]
      /\ used = {} /\ length = 0 /\ clock = 0 /\ began = 0
      /\ writer = NONE /\ readers = {} /\ fault = NONE /\ removed = {}
      /\ at = [p \in Proc |-> HEAD] /\ i = [p \in Proc |-> 0]
      /\ temp = [q \in Queries |-> <<>>]
      /\ entry = [s \in Slots |-> NONE] /\ expires = [s \in Slots |-> 0]
  BY DEF Init
<1>2. /\ pc \in [Proc -> Phase]
      /\ pc[Scanner] = "sleep" /\ pc[Console] = "idle"
      /\ \A q \in Queries : pc[q] = "start"
  BY DEF Init, Proc, Phase
<1>3. HEAD \in Node /\ Slots \subseteq Node BY DEF Node
<1>4. TypeOK
  <2>1. next \in [Node -> Node \cup {NULL, WILD}] /\ prev \in [Node -> Node \cup {NULL, WILD}]
    BY <1>1, <1>3
  <2>2. length \in 0 .. CacheLen /\ clock \in 0 .. MaxClock /\ began \in 0 .. clock
    BY <1>1, LRUCacheAssumption DEF LRUCacheAssumption
  <2>3. at \in [Proc -> Node] /\ i \in [Proc -> Nat] /\ temp \in [Queries -> Seq(Slots)]
    BY <1>1, <1>3
  <2> QED BY <1>1, <1>2, <2>1, <2>2, <2>3 DEF TypeOK
<1>5. Locks BY <1>1, <1>2 DEF Locks
<1>6. Ordered
  <2>0. [s \in Slots |-> 0] \in [Slots -> Int] OBVIOUS
  <2>1. PICK rank \in [Slots -> Int] : rank = [s \in Slots |-> 0] BY <2>0
  <2>2. Chained = {} BY <1>1 DEF Chained
  <2>3. Shape({}, rank)
    BY <1>1, <1>3, Apart DEF Shape, TwoWay, Sorted
  <2>4. Shape(Chained, rank) BY <2>2, <2>3
  <2>5. Walked(rank) /\ Scanned(rank) BY <1>2 DEF Walked, Scanned
  <2> QED BY <2>4, <2>5 DEF Ordered
<1>7. Fresh
  BY <1>1, <1>3, Apart DEF Fresh
<1>8. Counted BY <1>1, FS_EmptySet DEF Counted
<1>9. NoHoleYet /\ Prefix /\ StaysInBounds /\ FaultCause
  BY <1>1, Apart DEF NoHoleYet, Prefix, StaysInBounds, FaultCause
<1>10. Cursors BY <1>2 DEF Cursors
<1>11. Temps /\ Indices
  <2>1. \A q \in Queries : temp[q] = <<>> /\ Len(temp[q]) = 0 BY <1>1
  <2>2. i[Console] = 0 BY <1>1 DEF Proc
  <2> QED BY <1>2, <2>1, <2>2 DEF Temps, Indices
<1> QED BY <1>4, <1>5, <1>6, <1>7, <1>8, <1>9, <1>10, <1>11 DEF IInv

\* A step that follows no pointer leaves it to the later ones to fail.
LEMMA NoFault ==
  ASSUME IInv, Running, fault' = fault
  PROVE  StaysInBounds' /\ FaultCause'
  BY Apart DEF Running, StaysInBounds, FaultCause

\* Every step of every thread keeps the invariant.
LEMMA StepInv == IInv /\ [Next]_vars => IInv'
<1> SUFFICES ASSUME IInv, [Next]_vars PROVE IInv' OBVIOUS
<1>0. Locks' /\ Indices'
  BY LocksStep, IndicesStep DEF IInv
<1>a. SUFFICES ListInv' /\ StaysInBounds' /\ FaultCause'
  BY <1>0 DEF ListInv, IInv
<1>1. ASSUME NEW r \in Records, cacheInsert(r)
      PROVE  ListInv' /\ StaysInBounds' /\ FaultCause'
  <2>1. CASE InsertFree(r)
    <3>1. Running /\ length < CacheLen BY <2>1 DEF InsertFree, Goto
    <3>2. Free # {}
      BY <3>1, Full, LRUCacheAssumption DEF IInv, TypeOK, LRUCacheAssumption
    <3>3. fault' = fault BY <2>1, <3>2 DEF InsertFree
    <3> QED BY <2>1, <3>1, <3>3, InsertFreeKeeps, NoFault
  <2>2. CASE InsertEvict(r)
    <3>1. Running /\ fault' = fault BY <2>2 DEF InsertEvict, Goto
    <3> QED BY <2>2, <3>1, InsertEvictKeeps, NoFault
  <2> QED BY <1>1, <2>1, <2>2 DEF cacheInsert
<1>2. ASSUME NEW q \in Queries, cacheQuery(q)
      PROVE  ListInv' /\ StaysInBounds' /\ FaultCause'
  <2>1. Running /\ fault' = fault
    BY <1>2 DEF cacheQuery, QueryLock, QueryVisit, QueryUnlock, Goto
  <2>2. ListInv'
    BY <1>2, QueryLockKeeps, QueryVisitKeeps, QueryUnlockKeeps DEF cacheQuery
  <2> QED BY <2>1, <2>2, NoFault
<1>3. ASSUME NEW q \in Queries, rotate(q)
      PROVE  ListInv' /\ StaysInBounds' /\ FaultCause'
  <2>1. CASE RotateNode(q) BY <2>1, RotateNodeKeeps
  <2>2. CASE RotateLock(q) \/ RotateUnlock(q)
    <3>1. Running /\ fault' = fault BY <2>2 DEF RotateLock, RotateUnlock, Goto
    <3>2. ListInv' BY <2>2, RotateLockKeeps, RotateUnlockKeeps
    <3> QED BY <3>1, <3>2, NoFault
  <2> QED BY <1>3, <2>1, <2>2 DEF rotate
<1>4. CASE cacheScan
  <2>1. Running /\ fault' = fault
    BY <1>4 DEF cacheScan, ScanLock, ScanVisit, ScanUnlock, Goto
  <2>2. ListInv'
    BY <1>4, ScanLockKeeps, ScanVisitKeeps, ScanUnlockKeeps DEF cacheScan
  <2> QED BY <2>1, <2>2, NoFault
<1>5. CASE cacheFlush
  <2>1. CASE FlushNode BY <2>1, FlushNodeKeeps
  <2>2. CASE FlushLock \/ FlushUnlock
    <3>1. Running /\ fault' = fault BY <2>2 DEF FlushLock, FlushUnlock, Goto
    <3>2. ListInv' BY <2>2, FlushLockKeeps, FlushUnlockKeeps
    <3> QED BY <3>1, <3>2, NoFault
  <2> QED BY <1>5, <2>1, <2>2 DEF cacheFlush
<1>6. CASE Tick
  <2>1. Running /\ fault' = fault BY <1>6 DEF Tick
  <2> QED BY <1>6, <2>1, TickKeeps, NoFault
<1>7. CASE UNCHANGED vars
  <2>1. UNCHANGED <<next, prev, entry, expires, used, length, clock, writer,
                    readers, pc, at, i, temp, fault, removed, began>>
    BY <1>7 DEF vars, list, lock, local, history
  <2>2. TypeOK' BY <2>1 DEF IInv, TypeOK
  <2>3. Ordered'
    <3>1. CASE ~Running BY <2>1, <3>1 DEF Ordered, Running
    <3>2. CASE Running
      <4>1. PICK S : S = Chained OBVIOUS
      <4>2. PICK rank \in [Slots -> Int] :
              Shape(S, rank) /\ Walked(rank) /\ Scanned(rank)
        BY <3>2, <4>1 DEF IInv, Ordered
      <4>3. Shape(S, rank)' BY <2>1, <4>2, ShapeUntouched
      <4>4. Chained' = S BY <2>1, <4>1 DEF Chained
      <4>5. Walked(rank)' /\ Scanned(rank)'
        <5>1. Scanned(rank)' BY <2>1, <4>2 DEF Scanned, Passed
        <5>2. \A q \in Queries : WalkedBy(rank, q) => WalkedBy(rank, q)'
          <6>1. clock \in Int BY DEF IInv, TypeOK
          <6> QED BY <6>1, <2>1, WalkOn DEF IInv
        <5> QED BY <5>1, <5>2, <2>1, <4>2 DEF Walked
      <4> QED BY <4>3, <4>4, <4>5 DEF Ordered
    <3> QED BY <3>1, <3>2
  <2>4. Fresh' /\ Counted' /\ Prefix' BY <2>1, ListUntouched
  <2>5. NoHoleYet' /\ Cursors' /\ Temps'
    BY <2>1 DEF IInv, NoHoleYet, Cursors, Temps, Running
  <2>6. StaysInBounds' /\ FaultCause'
    BY <2>1 DEF IInv, StaysInBounds, FaultCause
  <2> QED BY <2>2, <2>3, <2>4, <2>5, <2>6 DEF ListInv
<1> QED BY <1>1, <1>2, <1>3, <1>4, <1>5, <1>6, <1>7 DEF Next

\* IInv holds in every reachable state.
THEOREM Invariance == Spec => []IInv
<1> QED BY InitInv, StepInv, PTL DEF Spec
----------------------------------------------------------------------------
(* What follows from it *)

\* Every variable of the cache keeps its type; above all length never exceeds
\* __CACHE_LEN__, which cacheInsert reads before it looks for a free slot.
THEOREM TypeCorrect == Spec => []TypeOK
<1>1. IInv => TypeOK BY DEF IInv
<1> QED BY <1>1, Invariance, PTL

\* No call ever follows a pointer of a slot that was never filled or writes
\* behind list[]: neither cacheFlush, which indexes by length, nor cacheInsert.
THEOREM InBounds == Spec => []StaysInBounds
<1>1. IInv => StaysInBounds BY DEF IInv
<1> QED BY <1>1, Invariance, PTL

\* Only a flush after a scan has deleted, and only a rotation of a slot that was
\* deleted since its walk, follow a null node.
THEOREM FaultsOnlyAfterDeletion == Spec => []FaultCause
<1>1. IInv => FaultCause BY DEF IInv
<1> QED BY <1>1, Invariance, PTL

\* cacheQuery finds every matching record that is not overdue, once, and no
\* other, although other walks, rotations and the clock run beside it.
THEOREM QueriesExact == Spec => []QueryExact
<1>1. IInv => QueryExact
  <2> SUFFICES ASSUME IInv, NEW q \in Queries, pc[q] = "walk", at[q] = HEAD
               PROVE  /\ Cardinality(Found(q)) = Len(temp[q])
                      /\ \A s \in Found(q) : s \in used /\ Key[entry[s]] = Key[q]
                      /\ \A s \in used : Match(q, s) => s \in Found(q)
    BY DEF QueryExact, Found
  <2>1. Running 
    BY Threads DEF IInv, TypeOK, Locks, StaysInBounds, FaultCause, Running
  <2>2. PICK rank \in [Slots -> Int] : Walked(rank) BY <2>1 DEF IInv, Ordered
  <2>3. WalkedBy(rank, q) BY <2>2 DEF Walked
  <2> QED BY <2>3 DEF WalkedBy, Passed
<1> QED BY <1>1, Invariance, PTL

\* When cacheScan ends, no record that was overdue when it began is left.
THEOREM ScansComplete == Spec => []ScanComplete
<1>1. IInv => ScanComplete
  <2> SUFFICES ASSUME IInv, pc[Scanner] = "scan", at[Scanner] = HEAD
               PROVE  \A s \in used : expires[s] >= began
    BY DEF ScanComplete
  <2>1. Running 
    BY Threads DEF IInv, TypeOK, Locks, StaysInBounds, FaultCause, Running
  <2>2. PICK rank \in [Slots -> Int] : Scanned(rank) BY <2>1 DEF IInv, Ordered
  <2> QED BY <2>2 DEF Scanned, Passed
<1> QED BY <1>1, Invariance, PTL
=============================================================================
