------------------------------ MODULE MCIdMap ------------------------------
(* Finite instances of IdMap for TLC. *)
EXTENDS IdMap, FiniteSets, TLC

CONSTANTS
  Answered,  \* requests the upstream server may answer
  Copies     \* datagrams it may send for each of them

MCResponses == Answered \X Copies
MCAnswers == [p \in MCResponses |-> p[1]]
WrapSymmetry ==
  Permutations(Answered) \cup Permutations(Requests \ Answered) \cup Permutations(Copies)

\* Beyond an overlap, of which the other properties say nothing, behaviours are
\* followed as long as no more than three workers have started.
FewRacers == overlap => Cardinality({w \in Worker : pc[w] # "start"}) <= 3

=============================================================================
