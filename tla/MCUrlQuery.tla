----------------------------- MODULE MCUrlQuery -----------------------------
(* Finite instances of UrlQuery for TLC. *)
EXTENDS UrlQuery

\* The types A, AAAA and CAA; the last has the low eight bits of the first.
MCTypes == {1, 28, 257}

Q(n, t) == [name |-> n, qtype |-> t]
L(n, a) == [name |-> n, ip |-> a]

\* A name with two addresses, a blocked one with addresses of both kinds, an empty
\* line, and a last line that is cut off.
MCFile == <<L("local", "v4"), L("bad", "0.0.0.0"), L(Blank, "v4"), L("bad", "v6"),
            L("local", "v4"), L("bad", "v4"), L("local", "0.0.0.0")>>
MCNames == {"local", "bad", "other"}

\* One worker asks a question of the type that narrows to A, which the cache may
\* answer, and one that the host table answers; the other asks for the blocked
\* name, with a type that is not blocked first.
MCPacket == [w \in Workers |->
  CASE w = 1 -> <<Q("other", 257), Q("local", 1)>>
    [] w = 2 -> <<Q("bad", 28), Q("bad", 1)>>]

\* Replies about a name that the file does not have, and about the blocked one.
MCHeard == {Q("other", 1), Q("bad", 1)}

=============================================================================
