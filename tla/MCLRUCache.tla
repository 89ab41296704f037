----------------------------- MODULE MCLRUCache -----------------------------
(* Finite instances of LRUCache for TLC. *)
EXTENDS LRUCache

CONSTANTS
  MCKey1,    \* the records and queries of one name and type; all the others
             \* share another one
  MinLife,   \* the shortest and the longest lifetime of a record
  MaxLife

MCKey == [x \in Records \cup Queries |-> x \in MCKey1]
MCLifetimes == MinLife .. MaxLife

=============================================================================
