------------------------------ MODULE LRUCache ------------------------------
(***************************************************************************)
(* The record cache (src/Service/cache.c) and the intrusive list it is     *)
(* made of (include/utils/list.h), pointer by pointer, as four kinds of    *)
(* thread use it under one read-write lock:                                *)
(*   - a response worker inserts a record (cacheInsert);                   *)
(*   - a request worker walks the list (cacheQuery) under the read lock    *)
(*     and leaves the slots it matched to a detached thread, which later   *)
(*     takes the write lock and rotates them to the head                   *)
(*     (__LRU_cache_rotate);                                               *)
(*   - the timing thread deletes overdue records (cacheScan), for ever;    *)
(*   - the console thread flushes the cache (cacheFlush).                  *)
(*                                                                         *)
(* What happens under the write lock without reading the time is visible   *)
(* to nobody before the unlock; it is split only where a pointer may turn  *)
(* out not to be there.                                                    *)
(***************************************************************************)
EXTENDS Integers, Sequences, FiniteSets

CONSTANTS
  CacheLen,   \* __CACHE_LEN__
  Records,    \* DNS_entry values handed to cacheInsert, each in one call
  Queries,    \* calls of cacheQuery
  Key,        \* domain name and type of a record, or asked for by a query
  Lifetimes,  \* timestamp minus time(NULL) at the moment of the insertion
  MaxClock,   \* bound on the clock
  Scanner,    \* the thread of cacheScanHandle
  Console,    \* the thread of debugHandle
  HEAD,       \* &cache->head
  NULL,       \* the pointer that mylist_del leaves
  WILD,       \* what malloc leaves in a slot that was never filled
  NONE        \* no record; no thread; no fault

Slots == 0 .. CacheLen - 1      \* cache->list
Node == Slots \cup {HEAD}

ASSUME LRUCacheAssumption ==
  /\ CacheLen \in Nat \ {0}
  /\ Lifetimes \subseteq Int
  /\ MaxClock \in Nat
  /\ Records \cap Queries = {}
  /\ {Scanner, Console} \cap (Records \cup Queries) = {}
  /\ Scanner # Console
  /\ NONE \notin Records \cup Queries \cup {Scanner, Console}
  /\ {HEAD, NULL, WILD, NONE} \cap Int = {}
  /\ HEAD \notin {NULL, WILD} /\ NULL # WILD
  /\ NONE \notin {NULL, WILD}

VARIABLES
  next,     \* of the node of each slot and of the head ...
  prev,     \* ... its two pointers
  entry,    \* the record in a slot; NONE once its strings are freed
  expires,  \* its timestamp
  used,     \* the slots whose set[] byte is 1
  length,   \* cache->length
  clock,    \* time(NULL)
  writer,   \* who holds cache->lock for writing
  readers,  \* who holds it for reading
  pc,       \* where each call or thread is
  at,       \* its list cursor p
  i,        \* its loop index
  temp,     \* the temp array that a query leaves to its rotate thread
  fault,    \* the pointer that was followed and is not there
  removed,  \* history: cacheScan or cacheFlush has unlinked a node
  began     \* history: the time at which cacheScan got its lock

list == <<next, prev, entry, expires, used, length>>
lock == <<writer, readers>>
local == <<pc, at, i, temp>>
history == <<removed, began>>
vars == <<list, clock, lock, local, fault, history>>
----------------------------------------------------------------------------
Proc == Records \cup Queries \cup {Scanner, Console}

Phase == {"start", "walk", "spawned", "rotate", "sleep", "scan", "idle",
          "flush", "done"}

Running == fault = NONE
Linked(n) == next[n] \in Node /\ prev[n] \in Node
Free == Slots \ used

\* writeLock and readLock block until the lock can be had.
WriteLock(p) == writer = NONE /\ readers = {} /\ writer' = p /\ UNCHANGED readers
WriteUnlock(p) == writer' = NONE /\ UNCHANGED readers
ReadLock(q) == writer = NONE /\ readers' = readers \cup {q} /\ UNCHANGED writer
ReadUnlock(q) == readers' = readers \ {q} /\ UNCHANGED writer

Goto(p, from, to) == Running /\ pc[p] = from /\ pc' = [pc EXCEPT ![p] = to]

\* mylist_add_head of a node that is not in the list
AddHead(n) ==
  /\ next' = [next EXCEPT ![n] = next[HEAD], ![HEAD] = n]
  /\ prev' = [prev EXCEPT ![next[HEAD]] = n, ![n] = HEAD]

\* mylist_del
Del(n) ==
  /\ next' = [next EXCEPT ![prev[n]] = next[n], ![n] = NULL]
  /\ prev' = [prev EXCEPT ![next[n]] = prev[n], ![n] = NULL]

\* mylist_move_head: _mylist_del, then mylist_add_head
MoveHead(n) ==
  LET nx == [next EXCEPT ![prev[n]] = next[n]]
      pv == [prev EXCEPT ![next[n]] = prev[n]]
  IN  /\ next' = [nx EXCEPT ![n] = nx[HEAD], ![HEAD] = n]
      /\ prev' = [pv EXCEPT ![nx[HEAD]] = n, ![n] = HEAD]

\* cacheInit; no slot is filled and list[] comes straight from malloc.
Init ==
  /\ next = [n \in Node |-> IF n = HEAD THEN HEAD ELSE WILD]
  /\ prev = [n \in Node |-> IF n = HEAD THEN HEAD ELSE WILD]
  /\ entry = [s \in Slots |-> NONE]
  /\ expires = [s \in Slots |-> 0]
  /\ used = {}
  /\ length = 0
  /\ clock = 0
  /\ writer = NONE
  /\ readers = {}
  /\ pc = [p \in Proc |-> CASE p = Scanner -> "sleep"
                            [] p = Console -> "idle"
                            [] OTHER -> "start"]
  /\ at = [p \in Proc |-> HEAD]
  /\ i = [p \in Proc |-> 0]
  /\ temp = [q \in Queries |-> <<>>]
  /\ fault = NONE
  /\ removed = {}
  /\ began = 0
----------------------------------------------------------------------------
(* cacheInsert *)

Fill(s, r) ==
  /\ entry' = [entry EXCEPT ![s] = r]
  /\ \E ttl \in Lifetimes : expires' = [expires EXCEPT ![s] = clock + ttl]

MutFirstFree(s) == s \in Free /\ \A t \in Free : t <= s   \* mutant: the last
FirstFree(s) == s \in Free /\ \A t \in Free : s <= t

\* Without a free slot the loop would end on list[__CACHE_LEN__].
InsertFree(r) ==
  /\ Goto(r, "start", "done")
  /\ writer = NONE /\ readers = {}
  /\ length < CacheLen
  /\ IF Free = {}
       THEN fault' = CacheLen /\ UNCHANGED list
       ELSE \E s \in Slots :
              /\ FirstFree(s) /\ AddHead(s) /\ Fill(s, r)
              /\ used' = used \cup {s}
              /\ length' = length + 1
              /\ UNCHANGED fault
  /\ UNCHANGED <<clock, lock, at, i, temp, history>>

MutInsertEvict(r) ==            \* mutant: the evicted record is still counted
  LET tail == prev[HEAD] IN
  /\ Goto(r, "start", "done")
  /\ writer = NONE /\ readers = {}
  /\ length >= CacheLen
  /\ MoveHead(tail) /\ Fill(tail, r)
  /\ length' = length + 1
  /\ UNCHANGED <<used, clock, lock, at, i, temp, fault, history>>

\* The tail's node is deleted and added again in one go, with the new record;
\* a tail that is not the last node would leave the cache as it is.
InsertEvict(r) ==
  LET tail == prev[HEAD] IN
  /\ Goto(r, "start", "done")
  /\ writer = NONE /\ readers = {}
  /\ length >= CacheLen
  /\ IF next[tail] = HEAD
       THEN MoveHead(tail) /\ Fill(tail, r)
       ELSE UNCHANGED <<next, prev, entry, expires>>
  /\ UNCHANGED <<used, length, clock, lock, at, i, temp, fault, history>>
----------------------------------------------------------------------------
(* cacheQuery and the thread it detaches *)

QueryLock(q) ==
  /\ Goto(q, "start", "walk") /\ ReadLock(q)
  /\ at' = [at EXCEPT ![q] = next[HEAD]]
  /\ UNCHANGED <<list, clock, i, temp, fault, history>>

Match(q, s) ==
  entry[s] \in Records /\ Key[entry[s]] = Key[q] /\ expires[s] >= clock

MutQueryVisit(q) ==             \* mutant: an overdue record ends the walk
  /\ Running /\ pc[q] = "walk" /\ at[q] # HEAD
  /\ temp' = IF Match(q, at[q]) THEN [temp EXCEPT ![q] = Append(@, at[q])]
                                ELSE temp
  /\ at' = [at EXCEPT ![q] = IF expires[at[q]] < clock THEN HEAD ELSE next[at[q]]]
  /\ UNCHANGED <<list, clock, lock, pc, i, fault, history>>

QueryVisit(q) ==
  /\ Running /\ pc[q] = "walk" /\ at[q] # HEAD
  /\ temp' = IF Match(q, at[q]) THEN [temp EXCEPT ![q] = Append(@, at[q])]
                                ELSE temp
  /\ at' = [at EXCEPT ![q] = next[at[q]]]
  /\ UNCHANGED <<list, clock, lock, pc, i, fault, history>>

\* The answer is returned; temp and its count go to the new thread.
QueryUnlock(q) ==
  /\ at[q] = HEAD /\ Goto(q, "walk", "spawned") /\ ReadUnlock(q)
  /\ UNCHANGED <<list, clock, at, i, temp, fault, history>>

RotateLock(q) ==
  /\ Goto(q, "spawned", "rotate") /\ WriteLock(q)
  /\ i' = [i EXCEPT ![q] = 1]
  /\ UNCHANGED <<list, clock, at, temp, fault, history>>

\* mylist_rotate_node_head: nothing to do in an empty list.
RotateNode(q) ==
  LET n == temp[q][i[q]] IN
  /\ Running /\ pc[q] = "rotate" /\ i[q] <= Len(temp[q])
  /\ \/ next[HEAD] = HEAD /\ UNCHANGED <<next, prev, fault>>
     \/ next[HEAD] # HEAD /\ Linked(n) /\ MoveHead(n) /\ UNCHANGED fault
     \/ next[HEAD] # HEAD /\ ~Linked(n) /\ fault' = next[n]
        /\ UNCHANGED <<next, prev>>
  /\ i' = [i EXCEPT ![q] = @ + 1]
  /\ UNCHANGED <<entry, expires, used, length, clock, lock, pc, at, temp, history>>

\* The thread frees the array and ends.
RotateUnlock(q) ==
  /\ i[q] > Len(temp[q]) /\ Goto(q, "rotate", "done") /\ WriteUnlock(q)
  /\ temp' = [temp EXCEPT ![q] = <<>>]
  /\ i' = [i EXCEPT ![q] = 0]
  /\ UNCHANGED <<list, clock, at, fault, history>>
----------------------------------------------------------------------------
(* cacheScan, called by cacheScanHandle whenever its sleep is over *)

ScanLock ==
  /\ Goto(Scanner, "sleep", "scan") /\ WriteLock(Scanner)
  /\ at' = [at EXCEPT ![Scanner] = next[HEAD]]
  /\ began' = clock
  /\ UNCHANGED <<list, clock, i, temp, fault, removed>>

MutOverdue(s) == expires[s] <= clock    \* mutant: `<=' for `<'
Overdue(s) == expires[s] < clock

MutUnlink(n) ==                 \* mutant: the set[] byte is not cleared
  /\ Del(n)
  /\ entry' = [entry EXCEPT ![n] = NONE]
  /\ length' = length - 1
  /\ UNCHANGED <<expires, used>>

\* __LRU_list_del and the bookkeeping of cacheScan
Unlink(n) ==
  /\ Del(n)
  /\ entry' = [entry EXCEPT ![n] = NONE]
  /\ used' = used \ {n}
  /\ length' = length - 1
  /\ UNCHANGED expires

MutScanVisit ==                 \* mutant: the cursor does not step back
  LET n == at[Scanner] IN
  /\ Running /\ pc[Scanner] = "scan" /\ n # HEAD
  /\ \/ Overdue(n) /\ Unlink(n) /\ removed' = removed \cup {Scanner}
        /\ at' = [at EXCEPT ![Scanner] = next[next[n]]]
     \/ ~Overdue(n) /\ UNCHANGED <<list, removed>>
        /\ at' = [at EXCEPT ![Scanner] = next[n]]
  /\ UNCHANGED <<clock, lock, pc, i, temp, fault, began>>

\* The cursor steps back before its node is unlinked, and so goes on with the
\* node that followed it.
ScanVisit ==
  LET n == at[Scanner] IN
  /\ Running /\ pc[Scanner] = "scan" /\ n # HEAD
  /\ \/ Overdue(n) /\ Unlink(n) /\ removed' = removed \cup {Scanner}
     \/ ~Overdue(n) /\ UNCHANGED <<list, removed>>
  /\ at' = [at EXCEPT ![Scanner] = next[n]]
  /\ UNCHANGED <<clock, lock, pc, i, temp, fault, began>>

MutScanUnlock ==                \* mutant: the timing thread scans only once
  /\ at[Scanner] = HEAD /\ Goto(Scanner, "scan", "done") /\ WriteUnlock(Scanner)
  /\ UNCHANGED <<list, clock, at, i, temp, fault, history>>

ScanUnlock ==
  /\ at[Scanner] = HEAD /\ Goto(Scanner, "scan", "sleep") /\ WriteUnlock(Scanner)
  /\ UNCHANGED <<list, clock, at, i, temp, fault, history>>
----------------------------------------------------------------------------
(* cacheFlush *)

FlushLock ==
  /\ Goto(Console, "idle", "flush") /\ WriteLock(Console)
  /\ UNCHANGED <<list, clock, at, i, temp, fault, history>>

MutFlushing ==                  \* mutant: `<=' for `<' in the loop condition
  i[Console] <= length /\ i[Console] < CacheLen
Flushing == i[Console] < length

\* The loop counts up to length but indexes list[], whatever set[] says.
FlushNode ==
  LET n == i[Console] IN
  /\ Running /\ pc[Console] = "flush" /\ Flushing
  /\ \/ Linked(n) /\ Del(n) /\ UNCHANGED fault
     \/ ~Linked(n) /\ fault' = next[n] /\ UNCHANGED <<next, prev>>
  /\ entry' = [entry EXCEPT ![n] = NONE]
  /\ i' = [i EXCEPT ![Console] = @ + 1]
  /\ UNCHANGED <<expires, used, length, clock, lock, pc, at, temp, history>>

FlushUnlock ==
  /\ ~Flushing /\ Goto(Console, "flush", "idle") /\ WriteUnlock(Console)
  /\ next' = [next EXCEPT ![HEAD] = HEAD]
  /\ prev' = [prev EXCEPT ![HEAD] = HEAD]
  /\ used' = {} /\ length' = 0
  /\ i' = [i EXCEPT ![Console] = 0]
  /\ removed' = removed \cup {Console}
  /\ UNCHANGED <<entry, expires, clock, at, temp, fault, began>>
----------------------------------------------------------------------------
Tick ==
  /\ Running /\ clock < MaxClock
  /\ clock' = clock + 1
  /\ UNCHANGED <<list, lock, local, fault, history>>

cacheInsert(r) == InsertFree(r) \/ InsertEvict(r)
cacheQuery(q) == QueryLock(q) \/ QueryVisit(q) \/ QueryUnlock(q)
rotate(q) == RotateLock(q) \/ RotateNode(q) \/ RotateUnlock(q)
cacheScan == ScanLock \/ ScanVisit \/ ScanUnlock
cacheFlush == FlushLock \/ FlushNode \/ FlushUnlock

Next ==
  \/ \E r \in Records : cacheInsert(r)
  \/ \E q \in Queries : cacheQuery(q) \/ rotate(q)
  \/ cacheScan
  \/ cacheFlush
  \/ Tick

Spec == Init /\ [][Next]_vars

\* The timing thread runs for ever and a thread that holds the lock goes on;
\* nobody has to insert, to ask or to flush.
Fairness ==
  /\ WF_vars(cacheScan)
  /\ WF_vars(FlushNode \/ FlushUnlock)
  /\ \A q \in Queries :
       /\ WF_vars(QueryVisit(q) \/ QueryUnlock(q))
       /\ WF_vars(RotateNode(q) \/ RotateUnlock(q))

LiveSpec == Spec /\ Fairness
----------------------------------------------------------------------------
(* Types *)

\* Every variable holds what the C declarations allow.
TypeOK ==
  /\ next \in [Node -> Node \cup {NULL, WILD}]
  /\ prev \in [Node -> Node \cup {NULL, WILD}]
  /\ entry \in [Slots -> Records \cup {NONE}]
  /\ expires \in [Slots -> Int]
  /\ used \subseteq Slots
  /\ length \in 0 .. CacheLen
  /\ clock \in 0 .. MaxClock
  /\ writer \in Proc \cup {NONE}
  /\ readers \subseteq Queries
  /\ pc \in [Proc -> Phase]
  /\ at \in [Proc -> Node]
  /\ i \in [Proc -> Nat]
  /\ temp \in [Queries -> Seq(Slots)]
  /\ fault \in {NONE, NULL, WILD, CacheLen}
  /\ removed \subseteq {Scanner, Console}
  /\ began \in 0 .. clock
----------------------------------------------------------------------------
(* Safety *)

\* The k-th node of the list, the head being the 0-th.
Nth == LET nth[k \in 0 .. CacheLen + 1] ==
             IF k = 0 THEN HEAD ELSE next[nth[k - 1]]
       IN  nth

\* Whenever no flush is under way the list is a ring through exactly the slots
\* that set[] marks, length of them, and prev undoes next: insertion, eviction,
\* rotation and deletion agree on one list.
Ring ==
  writer # Console =>
    /\ length = Cardinality(used)
    /\ \A n \in used \cup {HEAD} :
         next[n] \in used \cup {HEAD} /\ prev[next[n]] = n
    /\ {Nth[k] : k \in 1 .. length} = used
    /\ Nth[length + 1] = HEAD

\* A slot that was never filled is never followed, and no record is written
\* behind the array: cacheFlush stays among slots that have been used although
\* it indexes them by length, and cacheInsert finds a free slot.
StaysInBounds == fault \notin {WILD, CacheLen}

\* A null node is followed only after a deletion: by cacheFlush when cacheScan
\* has left a hole, by a rotate thread when its node has gone since the walk.
FaultCause ==
  fault = NULL =>
    \/ writer = Console /\ Scanner \in removed
    \/ writer \in Queries /\ removed # {}
       /\ \E k \in 1 .. Len(temp[writer]) : temp[writer][k] \notin used

\* When a walk ends it has found every matching record that is not overdue,
\* once, and nothing but records of the name and type it was asked for.
QueryExact ==
  \A q \in Queries : pc[q] = "walk" /\ at[q] = HEAD =>
    LET found == {temp[q][k] : k \in 1 .. Len(temp[q])} IN
    /\ Cardinality(found) = Len(temp[q])
    /\ \A s \in found : s \in used /\ Key[entry[s]] = Key[q]
    /\ \A s \in used : Match(q, s) => s \in found

\* When a scan ends it has deleted every record that was overdue when it began,
\* although it unlinks the very node its cursor is on.
ScanComplete ==
  pc[Scanner] = "scan" /\ at[Scanner] = HEAD =>
    \A s \in used : expires[s] >= began

\* cacheFlush empties the cache, as its comment says: it does not stop on a
\* pointer that is not there.
FlushSucceeds == ~(writer = Console /\ fault # NONE)

\* mylist_rotate_node_head is called for nodes of the list only, as its comment
\* asks of the caller.
RotatesMember ==
  \A q \in Queries : pc[q] = "rotate" /\ i[q] <= Len(temp[q]) =>
    temp[q][i[q]] \in used
----------------------------------------------------------------------------
(* Liveness *)

\* The cleanup the README promises: a record that is overdue leaves the cache,
\* whatever the other threads do, unless the process dies.
Purged ==
  \A s \in Slots : \A r \in Records :
    (entry[s] = r /\ expires[s] < clock) ~> (entry[s] # r \/ fault # NONE)
----------------------------------------------------------------------------
(* The list as LruList sees it: the records in the order of the ring.  A     *)
(* flush counts from the moment it gets the lock.                            *)
Items ==
  IF writer = Console THEN <<>>
  ELSE [k \in 1 .. length |-> [record |-> entry[Nth[k]], expires |-> expires[Nth[k]]]]

Abstract == INSTANCE LruList WITH items <- Items, now <- clock

\* Pointer by pointer, the cache implements the list of LruList.
ImplementsLruList == Abstract!Spec

=============================================================================
