---------------------------- MODULE LRUCacheInv ----------------------------
(***************************************************************************)
(* The inductive invariant of LRUCache: why the cache never leaves its     *)
(* array, why a null node is followed only after a deletion, and why a     *)
(* walk misses nothing.                                                    *)
(***************************************************************************)
EXTENDS LRUCache

\* The lock variables say what the program counters say.
Locks ==
  /\ writer # NONE => readers = {}
  /\ \A q \in Queries : /\ q \in readers <=> pc[q] = "walk"
                        /\ writer = q <=> pc[q] = "rotate"
  /\ writer = Scanner <=> pc[Scanner] = "scan"
  /\ writer = Console <=> pc[Console] = "flush"
  /\ writer \notin Records

\* The slots whose node is in the list: a flush has taken out those it passed.
Chained == IF writer = Console THEN {s \in used : s >= i[Console]} ELSE used

\* next and prev are inverse to each other on S and do not lead out of it.
TwoWay(S) ==
  \A n \in S : /\ next[n] \in S /\ prev[n] \in S
               /\ prev[next[n]] = n /\ next[prev[n]] = n

\* The list runs through S in the order of rank, without leaving one out.
Sorted(S, rank) ==
  /\ \A s, t \in S : rank[s] = rank[t] => s = t
  /\ \A t \in S : next[HEAD] \in S /\ rank[next[HEAD]] <= rank[t]
  /\ \A s \in S : next[s] \in S => rank[s] < rank[next[s]]
  /\ \A s, t \in S : rank[s] < rank[t] => next[s] \in S /\ rank[next[s]] <= rank[t]

\* The nodes of the slots S and no others are in the list, in this order.
Shape(S, rank) ==
  /\ TwoWay(S \cup {HEAD})
  /\ Sorted(S, rank)
  /\ \A s \in Slots \ S : next[s] \in {NULL, WILD}

\* The cursor of p is behind slot s.
Passed(rank, p, s) == at[p] = HEAD \/ rank[s] < rank[at[p]]

Found(q) == {temp[q][k] : k \in 1 .. Len(temp[q])}

\* q has collected every match behind its cursor, once, and no other slot.
WalkedBy(rank, q) ==
  /\ Cardinality(Found(q)) = Len(temp[q])
  /\ \A s \in Found(q) : s \in used /\ Key[entry[s]] = Key[q] /\ Passed(rank, q, s)
  /\ \A s \in used : Match(q, s) /\ Passed(rank, q, s) => s \in Found(q)

Walked(rank) == \A q \in Queries : pc[q] = "walk" => WalkedBy(rank, q)

\* A scan has left nothing behind its cursor that was overdue when it began.
Scanned(rank) ==
  pc[Scanner] = "scan" =>
    \A s \in used : Passed(rank, Scanner, s) => expires[s] >= began

Ordered ==
  Running => \E rank \in [Slots -> Int] :
    Shape(Chained, rank) /\ Walked(rank) /\ Scanned(rank)

\* The slots never filled are the last ones: cacheInsert takes the first free.
Fresh ==
  \A s, t \in Slots : next[s] = WILD /\ s <= t => next[t] = WILD /\ t \notin used

Counted == length = Cardinality(used)

\* A flush that has not failed has met no hole so far.
NoHoleYet ==
  Running /\ writer = Console =>
    i[Console] <= length /\ \A s \in Slots : s < i[Console] => s \in used

\* As long as nothing was deleted one by one there is no hole at all.
Prefix == Scanner \notin removed => used = 0 .. length - 1

\* A cursor is in the list, and every record in the list is one.
Cursors ==
  /\ \A q \in Queries : pc[q] = "walk" => at[q] \in used \cup {HEAD}
  /\ pc[Scanner] = "scan" => at[Scanner] \in used \cup {HEAD}

\* The slots a walk has left behind were filled once, and still are unless
\* something was deleted.
Temps ==
  \A q \in Queries : \A k \in 1 .. Len(temp[q]) :
    /\ next[temp[q][k]] # WILD
    /\ removed = {} => temp[q][k] \in used

\* A query starts with an empty temp array, a rotate thread at its first slot
\* and a flush at slot 0.
Indices ==
  /\ \A q \in Queries : pc[q] = "start" => temp[q] = <<>>
  /\ \A q \in Queries : pc[q] = "rotate" => i[q] >= 1
  /\ writer # Console => i[Console] = 0

IInv ==
  /\ TypeOK
  /\ Locks /\ Ordered /\ Fresh /\ Counted /\ NoHoleYet /\ Prefix
  /\ Cursors /\ Temps /\ Indices
  /\ StaysInBounds /\ FaultCause

=============================================================================
