----------------------------- MODULE IdMapInv -----------------------------
(***************************************************************************)
(* The inductive invariant behind the properties of IdMap: what holds at   *)
(* each program point of the two operations while no two workers are in    *)
(* the map on one cell.                                                    *)
(***************************************************************************)
EXTENDS IdMap

FillPc == {"setTimeout", "setOrigin", "setLast", "setFrom", "freeOld"}
EarlyPc == {"start", "check", "checkTime", "save", "publish", "busy"}
HoldPc == {"testLast", "copyOrigin", "copyFrom", "saveOld", "clear"}

\* Serials are drawn in order: all that were drawn in this round are at most
\* __MAP_ALLOC__, so that equal serials come from different rounds.
Tickets ==
  /\ \A r \in Requests : pc[r] # "start" =>
       \/ roundOf[r] < round
       \/ roundOf[r] = round /\ serial[r] <= alloc
  /\ \A r \in Requests : pc[r] \in {"start"} \cup AddPc \cup {"sent", "busy"}
  /\ \A p \in Responses :
       /\ pc[p] \in {"start"} \cup QueryPc \cup {"unmatched", "delivered"}
       /\ pc[p] # "start" => pc[Answers[p]] = "sent"

\* Workers in the map are on different cells.
Exclusive ==
  \A v, w \in Worker :
    InMap(v) /\ InMap(w) /\ v # w => converted(v) # converted(w)

\* A node in the table is live, in its own cell, and past its publication.
Table ==
  \A n \in Requests, c \in 0 .. MapSize - 1 : cell[c] = n =>
    /\ status[n] = "live"
    /\ converted(n) = c
    /\ pc[n] \in FillPc \cup {"sent"}

\* The fields are written in program order.
Written(n) ==
  /\ pc[n] \in EarlyPc => status[n] = "none"
  /\ pc[n] \in (FillPc \ {"setTimeout"}) \cup {"sent"} => timeout[n] \in Nat
  /\ pc[n] \in {"setLast", "setFrom", "freeOld", "sent"} => origin[n] = n
  /\ pc[n] \in {"setFrom", "freeOld", "sent"} => last[n] = current(n)
  /\ pc[n] \in {"freeOld", "sent"} => from[n] = n

Fields == \A n \in Requests : Written(n)

\* The holder of a serial drew it after all relayed requests that share it.
Later ==
  \A m, n \in Requests :
    /\ pc[m] = "sent" /\ m # n /\ serial[m] = serial[n]
    /\ pc[n] \in AddPc \/ Cell(n) = n
    => roundOf[n] > roundOf[m]

\* The node in temp is out of the table and nobody else's.
Taken(w) ==
  /\ temp[w] \in Requests
  /\ Live(temp[w])
  /\ converted(temp[w]) = converted(w)
  /\ pc[temp[w]] = "sent"
  /\ Cell(w) # temp[w]

Matches(n, p) ==
  /\ n \in Requests
  /\ toId[p] = n /\ toAddr[p] = n
  /\ pc[n] = "sent"
  /\ serial[n] = serial[Answers[p]]
  /\ n = Answers[p] \/ roundOf[n] > roundOf[Answers[p]]

\* What a worker knows of its cell at each point of addToMap ...
Adder(r) ==
  /\ pc[r] \in {"start", "check", "checkTime", "save", "busy"} => temp[r] = NULL
  /\ pc[r] = "checkTime" => Cell(r) # NULL
  /\ pc[r] \in {"save", "publish"} /\ Cell(r) # NULL => timeout[Cell(r)] <= clock
  /\ pc[r] = "publish" => temp[r] = Cell(r)
  /\ pc[r] \in FillPc => Cell(r) = r /\ (temp[r] = NULL \/ Taken(r))

Adders == \A r \in Requests : Adder(r)

\* ... and of queryMap.
Querier(p) ==
  /\ pc[p] \in {"start", "test", "unmatched"} \cup (HoldPc \ {"clear"}) => temp[p] = NULL
  /\ pc[p] \in HoldPc => Cell(p) # NULL
  /\ pc[p] \in HoldPc \ {"testLast"} => last[Cell(p)] = current(p)
  /\ pc[p] \in {"copyFrom", "saveOld", "clear"} => toId[p] = Cell(p)
  /\ pc[p] \in {"saveOld", "clear"} => toAddr[p] = Cell(p)
  /\ pc[p] = "clear" => temp[p] = Cell(p)
  /\ pc[p] = "freeTaken" => Cell(p) = NULL /\ Taken(p) /\ Matches(temp[p], p)
  /\ pc[p] = "delivered" => Matches(toAddr[p], p) /\ status[toAddr[p]] = "freed"

Queriers == \A p \in Responses : Querier(p)

\* A relayed request keeps its cell until it is answered or expires.
Kept ==
  \A m \in Requests : pc[m] = "sent" =>
    \/ Cell(m) = m
    \/ \E q \in Responses : pc[q] \in {"freeTaken", "delivered"} /\ toAddr[q] = m
    \/ timeout[m] <= clock

\* A reply that found nothing: its request was answered, or had expired.
Missed ==
  \A p \in Responses : pc[p] = "unmatched" =>
    \/ \E q \in Responses : pc[q] = "delivered" /\ toAddr[q] = Answers[p]
    \/ timeout[Answers[p]] <= clock

\* A live node is in its cell or held by a worker about to free it.
Owned ==
  \A n \in Requests : status[n] = "live" =>
    \/ Cell(n) = n
    \/ \E w \in Worker : InMap(w) /\ temp[w] = n

Alone ==
  /\ ~crashed
  /\ Exclusive /\ Table /\ Fields /\ Later
  /\ Adders /\ Queriers /\ Kept /\ Missed /\ Owned

IInv == TypeOK /\ Tickets /\ (~overlap => Alone)

\* What holds with overlap too: every reference to a request, in a cell, in a
\* node, in a local or in a reply, stays among the requests of one cell.
Ours(w) == {Junk} \cup
           {r \in Requests : pc[r] # "start" /\ converted(r) = converted(w)}

Confined ==
  /\ \A n \in Requests : pc[n] = "start" => origin[n] = Junk /\ from[n] = Junk
  /\ \A n \in Requests, c \in 0 .. MapSize - 1 :
       cell[c] = n => pc[n] # "start" /\ converted(n) = c
  /\ \A n \in Requests : origin[n] \in Ours(n) /\ from[n] \in Ours(n)
  /\ \A p \in Responses :
       /\ pc[p] \in {"copyFrom", "saveOld", "clear", "freeTaken", "delivered"}
            => toId[p] \in Ours(p)
       /\ pc[p] \in {"saveOld", "clear", "freeTaken", "delivered"}
            => toAddr[p] \in Ours(p)
=============================================================================
