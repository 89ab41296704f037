------------------------------- MODULE LruList -------------------------------
(***************************************************************************)
(* What the record cache promises, without slots, pointers, locks or       *)
(* threads: a list of at most CacheLen records, most recently used first.  *)
(* A new record goes to the front and drops the last one of a full list, a *)
(* record that is used moves to the front, and only an overdue record is   *)
(* ever taken out of the middle.                                           *)
(***************************************************************************)
EXTENDS Integers, Sequences

CONSTANTS
  CacheLen,   \* capacity
  Records,    \* what can be inserted
  Lifetimes   \* seconds a record has left when it is inserted

VARIABLES
  items,      \* the cached records with their timestamps, head first
  now         \* the time

vars == <<items, now>>
----------------------------------------------------------------------------
Item == [record : Records, expires : Int]

Without(k) == SubSeq(items, 1, k - 1) \o SubSeq(items, k + 1, Len(items))

Kept == IF Len(items) < CacheLen THEN items ELSE Without(Len(items))

Init == items = <<>> /\ now = 0

Insert(r) ==
  /\ \E ttl \in Lifetimes :
       items' = <<[record |-> r, expires |-> now + ttl]>> \o Kept
  /\ UNCHANGED now

Touch(k) == items' = <<items[k]>> \o Without(k) /\ UNCHANGED now

Purge(k) == items[k].expires < now /\ items' = Without(k) /\ UNCHANGED now

Clear == items' = <<>> /\ UNCHANGED now

Advance == now' = now + 1 /\ UNCHANGED items

Next ==
  \/ \E r \in Records : Insert(r)
  \/ \E k \in DOMAIN items : Touch(k) \/ Purge(k)
  \/ Clear
  \/ Advance

Spec == Init /\ [][Next]_vars

=============================================================================
