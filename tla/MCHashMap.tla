----------------------------- MODULE MCHashMap -----------------------------
(* Finite instances of HashMap for TLC. *)
EXTENDS HashMap, TLC

CONSTANT b1

\* The keys share one bucket, as buckets have nothing to do with each other.
MCBucketOf == [k \in Keys |-> b1]
MCSymmetry == Permutations(Readers) \cup Permutations(Keys) \cup Permutations(Values)

=============================================================================
