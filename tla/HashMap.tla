------------------------------- MODULE HashMap -------------------------------
(***************************************************************************)
(* The hash table of src/Utils/hash.c, pointer by pointer, used by several *)
(* threads as its header promises ("thread-safe bucket").                  *)
(*                                                                         *)
(* A bucket is a list from head to tail under a read-write lock.  A call   *)
(* does all its work on the list between lock and unlock, so that this is  *)
(* one step; but query_hash takes only a copy of the NODE under the lock   *)
(* and copies the value afterwards, by the pointer and the length (val_s)  *)
(* that it saved, with no lock: that is a second step, the end of a copy   *)
(* which a writer may overtake.  A length is part of a value here.  Which  *)
(* keys share a bucket is up to the hash function and free here.           *)
(*                                                                         *)
(* The relay itself inserts at start and then only queries; modify_hash,   *)
(* remove_hash and free_hash are modelled as the library offers them.      *)
(***************************************************************************)
EXTENDS Integers, Sequences, FiniteSets

CONSTANTS
  Readers,   \* threads that query; which thread writes makes no difference
  Keys,
  Values,
  Buckets,
  BucketOf,  \* fnv32(key, k_len) & HASH_MASK
  Nodes,     \* addresses that malloc has for a hash_node ...
  Blocks,    \* ... and for a value
  NULL,
  NONE       \* no value

ASSUME HashMapAssumption ==
  /\ IsFiniteSet(Nodes)
  /\ BucketOf \in [Keys -> Buckets]
  /\ NULL \notin Nodes \cup Blocks \cup Keys
  /\ Nodes \cap Blocks = {}
  /\ NONE \notin Values
  /\ Values \cap {"none", "SUCCUSS", "FAILURE"} = {}

VARIABLES
  head, tail, bk_s,    \* hash_bucket
  key, value, next,    \* hash_node
  content,             \* what is stored in each block
  live,                \* the addresses malloc has given out
  want,                \* the key a query is about, between its two steps
  ret,                 \* the local __ret.value of query_hash
  last,                \* the last call that has returned
  touched,             \* history: the key was modified or removed in between
  raced,               \* such a query has returned; no more is said after it
  crashed,             \* a null pointer was followed
  freed                \* free_hash was called

bucket == <<head, tail, bk_s>>
node == <<key, value, next>>
heap == <<node, content, live>>
query == <<want, ret, touched, raced>>
vars == <<bucket, heap, query, last, crashed, freed>>
----------------------------------------------------------------------------
\* The nodes that a loop `for(now = bk->head; now; now = now->next)' visits.
Chain(b) ==
  LET now[i \in 1 .. Cardinality(Nodes)] ==
        IF i = 1 THEN head[b]
        ELSE IF now[i - 1] = NULL THEN NULL ELSE next[now[i - 1]]
      rounds == {i \in 1 .. Cardinality(Nodes) : now[i] # NULL}
  IN [i \in rounds |-> now[i]]

\* The node where such a loop stops for KEY_MATCH; NULL if it does not.
Match(k) ==
  LET c == Chain(BucketOf[k])
      hits == {i \in DOMAIN c : key[c[i]] = k}
  IN IF hits = {} THEN NULL ELSE c[CHOOSE i \in hits : \A j \in hits : i <= j]

\* `prev' when the loop of remove_bucket is at node n.
Prev(b, n) ==
  LET c == Chain(b) IN c[CHOOSE i \in 1 .. Len(c) - 1 : c[i + 1] = n]

Init ==
  /\ head = [b \in Buckets |-> NULL]
  /\ tail = [b \in Buckets |-> NULL]
  /\ bk_s = [b \in Buckets |-> 0]
  /\ key = [n \in Nodes |-> NULL]
  /\ value = [n \in Nodes |-> NULL]
  /\ next = [n \in Nodes |-> NULL]
  /\ content = [x \in Blocks |-> NONE]
  /\ live = {}
  /\ want = [t \in Readers |-> NULL]
  /\ ret = [t \in Readers |-> NULL]
  /\ last = <<"none", NULL, "none">>
  /\ touched = {}
  /\ raced = FALSE
  /\ crashed = FALSE
  /\ freed = FALSE

\* The threads that are between the two steps of a query of k.
Between(k) == {t \in Readers : want[t] = k}

Running == ~crashed /\ ~raced /\ ~freed
Idle(t) == Running /\ want[t] = NULL
Return(op, k, r) == last' = <<op, k, r>>
----------------------------------------------------------------------------
(* insert_hash *)

\* The addresses malloc may give out.  No pointer to a node is kept outside the
\* lock, so one free node is as good as another; a block is one that a query
\* still points to, or some other one.
One(S) == IF S = {} THEN {} ELSE {CHOOSE a \in S : TRUE}
NewNode == One(Nodes \ live)
NewBlock ==
  LET held == {ret[t] : t \in Readers} IN
  ((held \cap Blocks) \ live) \cup One(Blocks \ (live \cup held))

\* make_node, and where the list then leads to the node n.
MakeNode(n, k, v, nextOf) ==
  \E x \in NewBlock :
    /\ live' = live \cup {n, x}
    /\ key' = [key EXCEPT ![n] = k]
    /\ value' = [value EXCEPT ![n] = x]
    /\ content' = [content EXCEPT ![x] = v]
    /\ next' = nextOf

InsertFirst(k, v) ==
  LET b == BucketOf[k] IN
  /\ Running /\ head[b] = NULL
  /\ \E n \in NewNode :
       /\ MakeNode(n, k, v, [next EXCEPT ![n] = NULL])
       /\ head' = [head EXCEPT ![b] = n]
       /\ tail' = [tail EXCEPT ![b] = n]
  /\ bk_s' = [bk_s EXCEPT ![b] = 1]
  /\ Return("insert", k, "SUCCUSS")
  /\ UNCHANGED <<query, crashed, freed>>

MutInsertLast(k, v) ==          \* mutant: the tail is not moved on
  LET b == BucketOf[k] IN
  /\ Running /\ head[b] # NULL /\ Match(k) = NULL
  /\ \E n \in NewNode :
       MakeNode(n, k, v, [next EXCEPT ![tail[b]] = n, ![n] = NULL])
  /\ bk_s' = [bk_s EXCEPT ![b] = @ + 1]
  /\ Return("insert", k, "SUCCUSS")
  /\ UNCHANGED <<head, tail, query, crashed, freed>>
InsertLast(k, v) ==
  LET b == BucketOf[k] IN
  /\ Running /\ head[b] # NULL /\ Match(k) = NULL
  /\ \E n \in NewNode :
       /\ MakeNode(n, k, v, [next EXCEPT ![tail[b]] = n, ![n] = NULL])
       /\ tail' = [tail EXCEPT ![b] = n]
  /\ bk_s' = [bk_s EXCEPT ![b] = @ + 1]
  /\ Return("insert", k, "SUCCUSS")
  /\ UNCHANGED <<head, query, crashed, freed>>

MutInsertDuplicate(k, v) ==     \* mutant: a second insert replaces the value
  /\ Running /\ Match(k) # NULL
  /\ \E x \in NewBlock :
       /\ live' = (live \ {value[Match(k)]}) \cup {x}
       /\ value' = [value EXCEPT ![Match(k)] = x]
       /\ content' = [content EXCEPT ![x] = v]
  /\ Return("insert", k, "FAILURE")
  /\ UNCHANGED <<bucket, key, next, query, crashed, freed>>
\* The node that was made before the look is kept by nobody.
InsertDuplicate(k, v) ==
  /\ Running /\ Match(k) # NULL
  /\ \E n \in NewNode, x \in NewBlock :
       live' = live \cup {n, x} /\ content' = [content EXCEPT ![x] = v]
  /\ Return("insert", k, "FAILURE")
  /\ UNCHANGED <<bucket, node, query, crashed, freed>>
----------------------------------------------------------------------------
(* remove_hash *)

\* KEY_MATCH(bk->head, ...) without a look at the pointer.
RemoveEmpty(k) ==
  /\ Running /\ head[BucketOf[k]] = NULL
  /\ crashed' = TRUE
  /\ UNCHANGED <<bucket, heap, query, last, freed>>

Touch(k) == touched' = touched \cup Between(k)

\* What is left in a node that has left its list is read by nobody.
Drop(n, nextOf) ==
  /\ key' = [key EXCEPT ![n] = NULL]
  /\ value' = [value EXCEPT ![n] = NULL]
  /\ next' = [nextOf EXCEPT ![n] = NULL]

\* The head is unlinked and freed, its value with it.  (free_node also frees the
\* list of host records that it takes the value for, which lies outside the table.)
RemoveHead(k) ==
  LET b == BucketOf[k]
      prev == head[b]
  IN
  /\ Running /\ prev # NULL /\ Match(k) = prev
  /\ head' = [head EXCEPT ![b] = next[prev]]
  /\ live' = live \ {prev, value[prev]}
  /\ content' = [content EXCEPT ![value[prev]] = NONE]
  /\ Drop(prev, next)
  /\ bk_s' = [bk_s EXCEPT ![b] = @ - 1]
  /\ tail' = IF bk_s'[b] = 0 THEN [tail EXCEPT ![b] = NULL] ELSE tail
  /\ Touch(k) /\ Return("remove", k, "SUCCUSS")
  /\ UNCHANGED <<want, ret, raced, crashed, freed>>

MutRemoveInner(k) ==            \* mutant: the tail is not moved back
  LET prev == Prev(BucketOf[k], Match(k)) IN
  /\ Running /\ Match(k) \notin {NULL, head[BucketOf[k]]}
  /\ Drop(Match(k), [next EXCEPT ![prev] = next[Match(k)]])
  /\ bk_s' = [bk_s EXCEPT ![BucketOf[k]] = @ - 1]
  /\ Touch(k) /\ Return("remove", k, "SUCCUSS")
  /\ UNCHANGED <<head, tail, content, live, want, ret, raced, crashed, freed>>
\* Any other node is unlinked, and not freed.
RemoveInner(k) ==
  LET b == BucketOf[k]
      prev == Prev(b, Match(k))
  IN
  /\ Running /\ Match(k) \notin {NULL, head[BucketOf[k]]}
  /\ Drop(Match(k), [next EXCEPT ![prev] = next[Match(k)]])
  /\ bk_s' = [bk_s EXCEPT ![b] = @ - 1]
  /\ tail' = IF tail[b] = Match(k) THEN [tail EXCEPT ![b] = prev] ELSE tail
  /\ Touch(k) /\ Return("remove", k, "SUCCUSS")
  /\ UNCHANGED <<head, content, live, want, ret, raced, crashed, freed>>

MutRemoveMissing(k) ==          \* mutant: the count goes down all the same
  /\ Running /\ head[BucketOf[k]] # NULL /\ Match(k) = NULL
  /\ bk_s' = [bk_s EXCEPT ![BucketOf[k]] = @ - 1]
  /\ Return("remove", k, "FAILURE")
  /\ UNCHANGED <<head, tail, heap, query, crashed, freed>>
RemoveMissing(k) ==
  /\ Running /\ head[BucketOf[k]] # NULL /\ Match(k) = NULL
  /\ Return("remove", k, "FAILURE")
  /\ UNCHANGED <<bucket, heap, query, crashed, freed>>
----------------------------------------------------------------------------
(* query_hash *)

\* query_bucket: the node is copied, its value is not.
QueryFound(t, k) ==
  /\ Idle(t) /\ Match(k) # NULL
  /\ want' = [want EXCEPT ![t] = k]
  /\ ret' = [ret EXCEPT ![t] = value[Match(k)]]
  /\ UNCHANGED <<bucket, heap, last, touched, raced, crashed, freed>>

QueryMissing(t, k) ==
  /\ Idle(t) /\ Match(k) = NULL
  /\ Return("query", k, "FAILURE")
  /\ UNCHANGED <<bucket, heap, query, crashed, freed>>

\* What the copy leaves in the caller's buffer.  If the key was modified or
\* removed meanwhile that may be anything: an old value behind a pointer that was
\* freed, a new one cut to the old length, or, when realloc kept the address, some
\* bytes of either.  NONE stands for what is no value at all.
Read(t) ==
  IF ret[t] \in live /\ t \notin touched THEN {content[ret[t]]} ELSE Values \cup {NONE}

CopyValue(t) ==
  /\ Running /\ want[t] # NULL
  /\ \E v \in Read(t) : Return("query", want[t], v)
  /\ raced' = (raced \/ t \in touched)
  /\ want' = [want EXCEPT ![t] = NULL]
  /\ ret' = [ret EXCEPT ![t] = NULL]
  /\ touched' = touched \ {t}
  /\ UNCHANGED <<bucket, heap, crashed, freed>>
----------------------------------------------------------------------------
(* modify_hash: realloc may move the value *)

ModifyFound(k, v) ==
  /\ Running /\ Match(k) # NULL
  /\ LET old == value[Match(k)] IN \E x \in NewBlock \cup {old} :
       /\ live' = (live \ {old}) \cup {x}
       /\ value' = [value EXCEPT ![Match(k)] = x]
       /\ content' = [content EXCEPT ![old] = NONE, ![x] = v]
  /\ Touch(k) /\ Return("modify", k, "SUCCUSS")
  /\ UNCHANGED <<bucket, key, next, want, ret, raced, crashed, freed>>

ModifyMissing(k) ==
  /\ Running /\ Match(k) = NULL
  /\ Return("modify", k, "FAILURE")
  /\ UNCHANGED <<bucket, heap, query, crashed, freed>>
----------------------------------------------------------------------------
\* free_hash: of each bucket all nodes but the last are freed.
FreeHash ==
  LET passed == UNION {{Chain(b)[i] : i \in 1 .. Len(Chain(b)) - 1} : b \in Buckets} IN
  /\ Running
  /\ live' = live \ (passed \cup {value[n] : n \in passed})
  /\ freed' = TRUE
  /\ UNCHANGED <<bucket, node, content, query, last, crashed>>
----------------------------------------------------------------------------
insert_hash(k, v) == InsertFirst(k, v) \/ InsertLast(k, v) \/ InsertDuplicate(k, v)
remove_hash(k) ==
  RemoveEmpty(k) \/ RemoveHead(k) \/ RemoveInner(k) \/ RemoveMissing(k)
query_hash(t, k) == QueryFound(t, k) \/ QueryMissing(t, k)
modify_hash(k, v) == ModifyFound(k, v) \/ ModifyMissing(k)

Next ==
  \/ \E k \in Keys, v \in Values : insert_hash(k, v) \/ modify_hash(k, v)
  \/ \E k \in Keys : remove_hash(k)
  \/ \E t \in Readers : CopyValue(t) \/ (\E k \in Keys : query_hash(t, k))
  \/ FreeHash

Spec == Init /\ [][Next]_vars
----------------------------------------------------------------------------
(* Properties *)

TypeOK ==
  /\ head \in [Buckets -> Nodes \cup {NULL}]
  /\ tail \in [Buckets -> Nodes \cup {NULL}]
  /\ bk_s \in [Buckets -> Nat]
  /\ key \in [Nodes -> Keys \cup {NULL}]
  /\ value \in [Nodes -> Blocks \cup {NULL}]
  /\ next \in [Nodes -> Nodes \cup {NULL}]
  /\ content \in [Blocks -> Values \cup {NONE}]
  /\ live \subseteq Nodes \cup Blocks
  /\ want \in [Readers -> Keys \cup {NULL}]
  /\ ret \in [Readers -> Blocks \cup {NULL}]
  /\ last \in {"none", "insert", "remove", "query", "modify"} \X (Keys \cup {NULL})
              \X (Values \cup {NONE, "none", "SUCCUSS", "FAILURE"})
  /\ touched \subseteq Readers
  /\ {raced, crashed, freed} \subseteq BOOLEAN

\* After any calls of any threads each bucket is one list: bk_s counts its nodes,
\* tail is the last one, every key is there once and in its own bucket, and no
\* node or value of it has been freed or is shared.
BucketShape ==
  ~freed => \A b \in Buckets :
    LET c == Chain(b) IN
    /\ bk_s[b] = Len(c)
    /\ tail[b] = IF c = <<>> THEN NULL ELSE c[Len(c)]
    /\ \A i \in DOMAIN c :
         /\ {c[i], value[c[i]]} \subseteq live
         /\ BucketOf[key[c[i]]] = b
         /\ \A j \in DOMAIN c \ {i} : key[c[i]] # key[c[j]]
         /\ \A m \in live \cap (Nodes \ {c[i]}) : value[m] # value[c[i]]

\* The pointer of a query is that of the node under its key.
Stored(t) == Match(want[t]) # NULL /\ value[Match(want[t])] = ret[t]

\* Between its two steps a query holds a pointer that no lock protects; it stays
\* the one stored under its key, and alive, unless that very key was modified or
\* removed meanwhile.  The relay does neither.
StaleCause ==
  ~freed => \A t \in Readers : want[t] # NULL /\ t \notin touched =>
    Stored(t) /\ ret[t] \in live

\* What the list of its bucket has for a key.
Lookup(k) ==
  [n \in Nodes \cup {NULL} |-> IF n = NULL THEN NONE ELSE content[value[n]]][Match(k)]

Table == INSTANCE KeyTable WITH
  map <- [k \in Keys |-> Lookup(k)],
  NoKey <- NULL,
  broken <- crashed \/ raced \/ freed

\* The list of each bucket is the map of KeyTable; a call takes effect in the
\* step that has the lock, a query that found its key when it copies the value.
ImplementsKeyTable == Table!Spec

=============================================================================
