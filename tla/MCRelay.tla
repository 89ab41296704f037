------------------------------ MODULE MCRelay ------------------------------
(* Finite instances of Relay for TLC. *)
EXTENDS Relay

CONSTANTS r1, r2, p1, p2

\* The second request asks for the same name and meets the same cell.  Both
\* replies are to the first one, and only one of them has a record to store.
MCName == [r \in Requests |-> "a"]
MCAnswers == [p \in Responses |-> r1]
MCLife == [p \in Responses |-> 0]

=============================================================================
