------------------------------ MODULE KeyTable ------------------------------
(***************************************************************************)
(* What src/include/utils/hash.h promises of its hash table: a map from    *)
(* keys to values with four operations, each of which takes effect at one  *)
(* moment although threads call them at the same time.                     *)
(*                                                                         *)
(* HashMap implements it until `broken': a query returns that a modify or  *)
(* a remove of its key has overtaken, whatever it has copied; a remove     *)
(* from an empty bucket; free_hash.                                        *)
(***************************************************************************)
CONSTANTS
  Keys,
  Values,
  NONE,    \* no value
  NoKey    \* no key

VARIABLES
  map,     \* the value under each key
  last,    \* the last call that has returned
  broken   \* the promise has ended

vars == <<map, last, broken>>
----------------------------------------------------------------------------
Init ==
  /\ map = [k \in Keys |-> NONE]
  /\ last = <<"none", NoKey, "none">>
  /\ ~broken

Return(op, k, r) == last' = <<op, k, r>>

\* A key is inserted once.
Insert(k, v) ==
  \/ Return("insert", k, "SUCCUSS") /\ map[k] = NONE /\ map' = [map EXCEPT ![k] = v]
  \/ Return("insert", k, "FAILURE") /\ map[k] # NONE /\ UNCHANGED map

Remove(k) ==
  \/ Return("remove", k, "SUCCUSS") /\ map[k] # NONE /\ map' = [map EXCEPT ![k] = NONE]
  \/ Return("remove", k, "FAILURE") /\ map[k] = NONE /\ UNCHANGED map

Modify(k, v) ==
  \/ Return("modify", k, "SUCCUSS") /\ map[k] # NONE /\ map' = [map EXCEPT ![k] = v]
  \/ Return("modify", k, "FAILURE") /\ map[k] = NONE /\ UNCHANGED map

Query(k) ==
  \/ Return("query", k, "FAILURE") /\ map[k] = NONE /\ UNCHANGED map
  \/ Return("query", k, map[k]) /\ map[k] # NONE /\ UNCHANGED map

Call(k) ==
  \/ \E v \in Values : Insert(k, v) \/ Modify(k, v)
  \/ Remove(k)
  \/ Query(k)

Next == broken' \/ (UNCHANGED broken /\ \E k \in Keys : Call(k))

Spec == Init /\ [][Next]_vars

=============================================================================
