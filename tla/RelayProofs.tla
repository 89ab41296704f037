---------------------------- MODULE RelayProofs ----------------------------
(***************************************************************************)
(* Proofs about Relay for any number of requests and responses, any table, *)
(* any hosts and servers: the types, what it takes to answer a query       *)
(* twice, that a refusal is justified, and that the walk of the cache      *)
(* misses no record of a reply that was dealt with.                        *)
(***************************************************************************)
EXTENDS Relay, TLAPS

(* The inductive invariant *)

\* What the program counter of a worker says about its call of the map.  A reply
\* is there only for a request that was recorded.
Stages ==
  /\ \A r \in Requests :
       /\ pc[r] \in {"net", "query", "join", "reply", "draw"} => state[r] = "idle"
       /\ pc[r] \in {"check", "record"} => state[r] = "drawn"
       /\ pc[r] = "send" => state[r] = "sent"
       /\ pc[r] = "end" => state[r] \in {"idle", "sent", "busy"}
       /\ pc[r] \in {"net", "query", "join", "reply", "draw", "check", "record", "send", "end"}
       /\ sentTo[r] # NULL => state[r] = "sent"
  /\ \A p \in Responses :
       /\ pc[p] \in {"net", "lost", "store", "match"} => state[p] = "idle"
       /\ pc[p] \in {"clear", "forward"} => state[p] = "delivered"
       /\ pc[p] = "end" => state[p] \in {"delivered", "unmatched"}
       /\ pc[p] \in {"net", "lost", "store", "match", "clear", "forward", "end"}
       /\ state[p] # "delivered" => to[p] = NULL
       /\ pc[p] \notin {"net", "lost"} => state[Answers[p]] = "sent"

\* A mapping in a cell is that of a relayed request; a reply that has found it
\* and met nobody has still to clear it.
Waiting ==
  \A c \in 0 .. MapSize - 1 : holder[c] # NULL =>
    /\ state[holder[c]] = "sent"
    /\ Map!CellOf(holder[c]) = c
    /\ \A p \in Responses : to[p] = holder[c] => p \in met \/ pc[p] = "clear"

\* A reply that met nobody was matched with a relayed request in its cell, and
\* any other reply matched with that request has met somebody.
Matched ==
  \A p \in Responses : to[p] # NULL /\ p \notin met =>
    /\ state[to[p]] = "sent"
    /\ pc[p] = "clear" => Map!CellOf(to[p]) = CellFor(p)
    /\ \A q \in Responses : to[q] = to[p] => q = p \/ q \in met

\* What was sent to a client came from the local tables, from the one reply that
\* was matched with the request, or from replies one of which met somebody.
Counted ==
  \A r \in Requests : replies[r] > 0 =>
    \/ /\ replies[r] = 1
       /\ \/ pc[r] = "end" /\ state[r] = "idle"
          \/ \E p \in Responses : to[p] = r /\ pc[p] = "end"
    \/ \E p \in Responses \cap met : to[p] = r

\* The record of a reply that is past urlStore is in the cache or was dropped.
Stored ==
  \A p \in Storing :
    pc[p] = "match" \/ Seen(p) => p \in cached \cup evicted

IInv == TypeOK /\ Stages /\ Waiting /\ Matched /\ Counted /\ Stored
----------------------------------------------------------------------------
(* Types *)

\* Every serial has a cell of the table.
LEMMA CellRange ==
  ASSUME TypeOK, NEW r \in Requests
  PROVE  Map!CellOf(r) \in 0 .. MapSize - 1 /\ Map!Holder(r) \in Requests \cup {NULL}
<1>1. \A a \in Nat, m \in Nat \ {0} : a % m \in 0 .. m - 1 OBVIOUS
<1>2. serial[r] \in Nat /\ MapSize \in Nat \ {0}
  BY RelayAssumption DEF TypeOK, RelayAssumption
<1>3. Map!CellOf(r) \in 0 .. MapSize - 1 BY <1>1, <1>2 DEF Map!CellOf
<1> QED BY <1>3 DEF TypeOK, Map!Holder

\* The types hold at the start.
LEMMA TypeInit == Init => TypeOK
<1> SUFFICES ASSUME Init PROVE TypeOK OBVIOUS
<1> QED BY RelayAssumption
  DEF RelayAssumption, Init, Map!Init, TypeOK, Worker, Map!Worker

\* Every worker has a cell.
LEMMA CellForRange ==
  ASSUME TypeOK, NEW w \in Worker
  PROVE  CellFor(w) \in 0 .. MapSize - 1
BY CellRange, RelayAssumption DEF CellFor, Worker, RelayAssumption

\* Those who meet are workers, and nobody is forgotten.
LEMMA MeetIs ==
  ASSUME TypeOK, NEW w \in Worker, Meet(w)
  PROVE  /\ met \subseteq met' /\ met' \subseteq Worker
         /\ Others(w) # {} => w \in met' /\ Others(w) \subseteq met'
         /\ Others(w) \subseteq Worker
BY DEF Meet, Others, TypeOK

\* Every step of the system keeps the types.
LEMMA TypeStep == TypeOK /\ [Next]_vars => TypeOK'
<1> SUFFICES ASSUME TypeOK, [Next]_vars PROVE TypeOK' OBVIOUS
<1> USE RelayAssumption DEF RelayAssumption
<1> USE DEF TypeOK, table, cache, net, Goto, Worker
<1>1. ASSUME NEW w \in Worker, Receive(w) PROVE TypeOK'
  BY <1>1 DEF Receive
<1>2. ASSUME NEW r \in Requests, Walk(r) \/ Join(r) PROVE TypeOK'
  BY <1>2 DEF Walk, Join
<1>3. ASSUME NEW r \in Requests, SendBack(r) PROVE TypeOK'
  BY <1>3 DEF SendBack
<1>4. ASSUME NEW r \in Requests, Draw(r) PROVE TypeOK'
  <2>1. \A a \in Nat, m \in Nat \ {0} : a % m \in 0 .. m - 1 OBVIOUS
  <2>2. (alloc + 1) % SerialMod \in 0 .. SerialMod - 1 BY <2>1
  <2> QED BY <1>4, <2>2 DEF Draw, Map!Draw, Map!Become
<1>5. ASSUME NEW r \in Requests, Record(r) PROVE TypeOK'
  <2>1. clock + ConvertTTL \in 0 .. MaxClock + ConvertTTL OBVIOUS
  <2> QED BY <1>5, <2>1, CellRange DEF Record, Map!Become
<1>6. ASSUME NEW r \in Requests, Check(r) \/ Busy(r) PROVE TypeOK'
  <2>1. CASE Check(r) BY <2>1, MeetIs DEF Check
  <2>2. CASE Busy(r) BY <2>2 DEF Busy, Map!Become
  <2> QED BY <1>6, <2>1, <2>2
<1>7. ASSUME NEW r \in Requests, SendOn(r) PROVE TypeOK'
  BY <1>7 DEF SendOn
<1>8. ASSUME NEW p \in Responses, UrlStore(p) PROVE TypeOK'
  <2>1. clock + Life[p] \in Nat OBVIOUS
  <2>2. cached' \subseteq Responses /\ freshUntil' \in [Responses -> Nat]
    <3>1. CASE p \in Storing BY <1>8, <2>1, <3>1 DEF UrlStore
    <3>2. CASE p \notin Storing BY <1>8, <3>2 DEF UrlStore
    <3> QED BY <3>1, <3>2
  <2> QED BY <1>8, <2>2 DEF UrlStore
<1>9. ASSUME NEW p \in Responses, Find(p) \/ Miss(p) \/ Clear(p) PROVE TypeOK'
  <2>1. CASE Find(p)
    <3>1. Found(p) \subseteq Requests \cup {NULL} BY CellRange DEF Found, Mapped
    <3>2. to' \in [Responses -> Requests \cup {NULL}] BY <2>1, <3>1 DEF Find
    <3> QED BY <2>1, <3>2, MeetIs DEF Find, Map!Become
  <2>2. CASE Miss(p) BY <2>2 DEF Miss, Map!Become
  <2>3. CASE Clear(p) BY <2>3, CellForRange DEF Clear
  <2> QED BY <1>9, <2>1, <2>2, <2>3
<1>10. ASSUME NEW p \in Responses, Forward(p) PROVE TypeOK'
  <2>1. replies' \in [Requests -> Nat]
    <3>1. CASE to[p] \in Requests BY <1>10, <3>1 DEF Forward
    <3>2. CASE to[p] = NULL BY <1>10, <3>2 DEF Forward
    <3> QED BY <3>1, <3>2
  <2> QED BY <1>10, <2>1 DEF Forward
<1>11. ASSUME NEW w \in Worker, SocketClose(w) PROVE TypeOK'
  BY <1>11 DEF SocketClose
<1>12. ASSUME NEW p \in Responses, Lose(p) PROVE TypeOK'
  BY <1>12 DEF Lose
<1>13. ASSUME NEW p \in Responses, Evict(p) PROVE TypeOK'
  BY <1>13 DEF Evict
<1>14. ASSUME NEW s \in Servers, Server(s) PROVE TypeOK'
  BY <1>14 DEF Server
<1>15. CASE Tick
  BY <1>15 DEF Tick, Map!Tick, Map!table
<1>16. CASE UNCHANGED vars
  BY <1>16 DEF vars
<1> QED
  BY <1>1, <1>2, <1>3, <1>4, <1>5, <1>6, <1>7, <1>8, <1>9, <1>10, <1>11, <1>12,
     <1>13, <1>14, <1>15, <1>16
  DEF Next, connectHandle, request, response
----------------------------------------------------------------------------
(* The invariant *)

\* At the start nothing was received and the table is empty.
LEMMA InitInv == Init => IInv
<1> SUFFICES ASSUME Init PROVE IInv OBVIOUS
<1>1. TypeOK BY TypeInit
<1>2. /\ \A w \in Worker : pc[w] = "net" /\ state[w] = "idle"
      /\ \A p \in Responses : to[p] = NULL
      /\ \A c \in 0 .. MapSize - 1 : holder[c] = NULL
      /\ \A r \in Requests : replies[r] = 0 /\ sentTo[r] = NULL
  BY DEF Init, Map!Init, Worker, Map!Worker
<1>3. Stages BY <1>2 DEF Stages, Worker
<1>4. Waiting BY <1>2 DEF Waiting
<1>5. Matched BY <1>2 DEF Matched
<1>6. Counted BY <1>2 DEF Counted
<1>7. Stored BY <1>2, RelayAssumption DEF Stored, Seen, Worker, RelayAssumption
<1> QED BY <1>1, <1>3, <1>4, <1>5, <1>6, <1>7 DEF IInv

\* What is said about cells, matches and sent replies outlives a step that
\* leaves them alone, moves nobody to or from the end of queryMap and sends
\* nothing; others may meet in it.
LEMMA RestInv ==
  ASSUME IInv, TypeOK', UNCHANGED <<serial, holder, to, replies>>,
         met \subseteq met',
         \A r \in Requests :
           /\ state[r] = "sent" => state'[r] = "sent"
           /\ pc[r] = "end" => pc'[r] = "end" /\ state'[r] = state[r],
         \A p \in Responses :
           /\ (pc[p] = "clear") <=> (pc'[p] = "clear")
           /\ pc[p] = "end" => pc'[p] = "end"
  PROVE  Waiting' /\ Matched' /\ Counted'
<1> USE RelayAssumption DEF RelayAssumption, IInv
<1>1. Waiting'
  <2> SUFFICES ASSUME NEW c \in 0 .. MapSize - 1, holder'[c] # NULL
               PROVE  /\ state'[holder'[c]] = "sent"
                      /\ Map!CellOf(holder[c])' = c
                      /\ \A p \in Responses : to'[p] = holder'[c] => p \in met' \/ pc'[p] = "clear"
    BY DEF Waiting
  <2>1. holder'[c] = holder[c] /\ holder[c] \in Requests BY DEF TypeOK
  <2>2. Map!CellOf(holder[c])' = c BY <2>1 DEF Waiting, Map!CellOf
  <2> QED BY <2>1, <2>2 DEF Waiting
<1>2. Matched'
  <2> SUFFICES ASSUME NEW p \in Responses, to'[p] # NULL, p \notin met'
               PROVE  /\ state'[to'[p]] = "sent"
                      /\ pc'[p] = "clear" => Map!CellOf(to[p])' = CellFor(p)'
                      /\ \A q \in Responses : to'[q] = to'[p] => q = p \/ q \in met'
    BY DEF Matched
  <2>1. to'[p] = to[p] /\ to[p] \in Requests /\ p \notin met BY DEF TypeOK
  <2>2. Map!CellOf(to[p])' = Map!CellOf(to[p]) /\ CellFor(p)' = CellFor(p)
    BY DEF Map!CellOf, CellFor
  <2> QED BY <2>1, <2>2 DEF Matched
<1>3. Counted' BY DEF Counted
<1> QED BY <1>1, <1>2, <1>3

\* A step that moves the worker w without a call of the map, a reply or a
\* record.
LEMMA MoveInv ==
  ASSUME IInv, TypeOK', NEW w \in Worker, NEW at, NEW next,
         Goto(w, at, next), UNCHANGED <<table, cache, replies>>,
         \A r \in Requests : sentTo'[r] # sentTo[r] => r = w /\ at = "send",
         IF w \in Requests
         THEN \/ at = "net" /\ next = "query"
              \/ at = "query" /\ next \in {"reply", "join"}
              \/ at = "join" /\ next \in {"reply", "draw"}
              \/ at = "send" /\ next = "end"
         ELSE /\ at = "net" /\ next \in {"lost", "store"}
              /\ state[Answers[w]] = "sent"
  PROVE  IInv'
<1> USE RelayAssumption DEF RelayAssumption, IInv, table, cache, Goto
<1>1. Stages' BY DEF Stages, TypeOK, Worker
<1>2. Waiting' /\ Matched' /\ Counted'
  <2>1. \A p \in Responses : /\ (pc[p] = "clear") <=> (pc'[p] = "clear")
                             /\ pc[p] = "end" => pc'[p] = "end"
    BY DEF TypeOK, Worker
  <2>2. \A r \in Requests : pc[r] = "end" => pc'[r] = "end" BY DEF TypeOK, Worker
  <2> QED BY <2>1, <2>2, RestInv
<1>3. Stored' BY DEF Stored, Seen, TypeOK, Worker
<1> QED BY <1>1, <1>2, <1>3

\* Nothing is said about the clock, the hosts, the addresses and the sockets.
LEMMA StillInv ==
  ASSUME IInv, TypeOK', UNCHANGED <<table, pc, net>>,
         cached' \cup evicted' = cached \cup evicted
  PROVE  IInv'
<1> USE DEF IInv, table, net
<1>1. Stages' BY DEF Stages
<1>2. Waiting' /\ Matched' /\ Counted' BY RestInv
<1>3. Stored' BY DEF Stored, Seen
<1> QED BY <1>1, <1>2, <1>3

\* A local answer: the request was never relayed, so that a reply matched with
\* it has met somebody, and without one it was not answered yet.
LEMMA SendBackInv ==
  ASSUME IInv, TypeOK', NEW r \in Requests, SendBack(r)
  PROVE  IInv'
<1> USE RelayAssumption DEF RelayAssumption, IInv, SendBack, Goto, cache, table
<1>1. Stages' BY DEF Stages, TypeOK, Worker
<1>2. Waiting' BY DEF Waiting, Map!CellOf, TypeOK, Worker
<1>3. Matched' BY DEF Matched, Map!CellOf, CellFor, TypeOK, Worker
<1>4. Counted'
  <2>1. state[r] = "idle" /\ pc[r] = "reply" /\ r # NULL BY DEF Stages
  <2>2. \A x \in Requests : x # r => replies'[x] = replies[x] BY DEF TypeOK
  <2>3. \A x \in Requests : state'[x] = state[x] /\ (pc[x] = "end" => pc'[x] = "end")
    BY DEF TypeOK, Worker
  <2>4. \A p \in Responses : to'[p] = to[p] /\ pc'[p] = pc[p] BY DEF TypeOK, Worker
  <2>5. pc'[r] = "end" /\ met' = met BY DEF TypeOK, Worker
  <2>6. CASE \E p \in Responses \cap met : to[p] = r
    BY <2>2, <2>3, <2>4, <2>5, <2>6 DEF Counted
  <2>7. CASE \A p \in Responses \cap met : to[p] # r
    <3>1. \A p \in Responses : to[p] # r BY <2>1, <2>7 DEF Matched
    <3>2. ~ (replies[r] > 0) BY <2>1, <2>7, <3>1 DEF Counted
    <3>3. replies[r] \in Nat BY DEF TypeOK
    <3>4. replies'[r] \in {0, 1} BY <3>2, <3>3 DEF TypeOK
    <3> QED BY <2>1, <2>2, <2>3, <2>4, <2>5, <3>4 DEF Counted
  <2> QED BY <2>6, <2>7
<1>5. Stored' BY DEF Stored, Seen, TypeOK, Worker
<1> QED BY <1>1, <1>2, <1>3, <1>4, <1>5

\* A serial changes only before its request is in the table.
LEMMA DrawInv ==
  ASSUME IInv, TypeOK', NEW r \in Requests, Draw(r)
  PROVE  IInv'
<1> USE RelayAssumption
    DEF RelayAssumption, IInv, Draw, Map!Draw, Map!Become, Goto, cache, net
<1>1. Stages' BY DEF Stages, TypeOK, Worker
<1>2. \A x \in Requests : x # r => /\ serial'[x] = serial[x] /\ Map!CellOf(x)' = Map!CellOf(x)
                                   /\ state'[x] = state[x] /\ pc'[x] = pc[x]
  BY DEF TypeOK, Worker, Map!CellOf
<1>3. \A p \in Responses : to'[p] = to[p] /\ pc'[p] = pc[p] /\ state'[p] = state[p]
  BY DEF TypeOK, Worker
<1>4. state[r] = "idle" /\ pc[r] = "draw" /\ met' = met /\ holder' = holder OBVIOUS
<1>5. Waiting'
  <2> SUFFICES ASSUME NEW c \in 0 .. MapSize - 1, holder[c] # NULL
               PROVE  /\ state'[holder[c]] = "sent"
                      /\ Map!CellOf(holder[c])' = c
                      /\ \A p \in Responses : to'[p] = holder[c] => p \in met' \/ pc'[p] = "clear"
    BY <1>4 DEF Waiting
  <2>1. holder[c] \in Requests /\ holder[c] # r BY DEF Waiting, TypeOK
  <2> QED BY <1>2, <1>3, <1>4, <2>1 DEF Waiting
<1>6. Matched'
  <2> SUFFICES ASSUME NEW p \in Responses, to[p] # NULL, p \notin met
               PROVE  /\ state'[to[p]] = "sent"
                      /\ pc'[p] = "clear" => Map!CellOf(to[p])' = CellFor(p)'
                      /\ \A q \in Responses : to[q] = to[p] => q = p \/ q \in met
    BY <1>3, <1>4 DEF Matched
  <2>1. to[p] \in Requests /\ to[p] # r BY <1>4 DEF TypeOK, Matched
  <2>2. pc[p] = "clear" => Answers[p] \in Requests /\ Answers[p] # r BY <1>4 DEF Stages
  <2>3. pc[p] = "clear" => CellFor(p)' = CellFor(p) BY <1>2, <2>2 DEF CellFor
  <2> QED BY <1>2, <1>3, <2>1, <2>3 DEF Matched
<1>7. Counted'
  <2>1. pc'[r] = "check" /\ replies' = replies BY DEF TypeOK, Worker
  <2>2. \A x \in Requests : pc[x] = "end" => x # r BY <1>4
  <2> QED BY <1>2, <1>3, <1>4, <2>1, <2>2 DEF Counted
<1>8. Stored' BY DEF Stored, Seen, TypeOK, Worker
<1> QED BY <1>1, <1>5, <1>6, <1>7, <1>8

\* Passing the check, or not, changes no cell.
LEMMA CheckInv ==
  ASSUME IInv, TypeOK', NEW r \in Requests, Check(r) \/ Busy(r)
  PROVE  IInv'
<1> USE RelayAssumption DEF RelayAssumption, IInv, cache, net
<1>1. /\ UNCHANGED <<serial, holder, to, replies, sentTo, cached, evicted>>
      /\ met \subseteq met'
  BY MeetIs DEF Check, Busy, Worker
<1>2. /\ pc[r] = "check" /\ state[r] = "drawn"
      /\ \/ pc'[r] = "record" /\ state'[r] = "drawn"
         \/ pc'[r] = "end" /\ state'[r] = "busy"
      /\ \A w \in Worker : w # r => pc'[w] = pc[w] /\ state'[w] = state[w]
  BY DEF Check, Busy, Goto, Map!Become, Stages, TypeOK, Worker
<1>3. Stages' BY <1>1, <1>2 DEF Stages, Worker
<1>4. Waiting' /\ Matched' /\ Counted' BY <1>1, <1>2, RestInv DEF Worker
<1>5. Stored' BY <1>1, <1>2 DEF Stored, Seen, Worker
<1> QED BY <1>3, <1>4, <1>5

\* No reply that met nobody was matched with the new holder of a cell yet; the
\* old one is waited for no more.
LEMMA RecordInv ==
  ASSUME IInv, TypeOK', NEW r \in Requests, Record(r)
  PROVE  IInv'
<1> USE RelayAssumption
    DEF RelayAssumption, IInv, Record, Map!Become, Goto, cache, net
<1>1. Stages' BY DEF Stages, TypeOK, Worker
<1>2. /\ state[r] = "drawn" /\ state'[r] = "sent" /\ pc'[r] = "send" /\ pc[r] = "record"
      /\ \A w \in Worker : w # r => pc'[w] = pc[w] /\ state'[w] = state[w]
      /\ UNCHANGED <<to, met, serial, replies>> /\ r # NULL
  BY DEF TypeOK, Worker
<1>3. \A p \in Responses : pc'[p] = pc[p] BY <1>2 DEF Worker
<1>4. Waiting'
  <2> SUFFICES ASSUME NEW c \in 0 .. MapSize - 1, holder'[c] # NULL
               PROVE  /\ state'[holder'[c]] = "sent"
                      /\ Map!CellOf(holder[c])' = c
                      /\ \A p \in Responses : to'[p] = holder'[c] => p \in met' \/ pc'[p] = "clear"
    BY DEF Waiting
  <2>1. Map!CellOf(r)' = Map!CellOf(r) BY DEF Map!CellOf
  <2>2. CASE c = Map!CellOf(r)
    <3>1. holder'[c] = r BY <2>2, CellRange DEF TypeOK
    <3>2. \A p \in Responses : to[p] = r => p \in met BY <1>2 DEF Matched
    <3>3. Map!CellOf(holder[c])' = Map!CellOf(r)' BY <3>1 DEF Map!CellOf
    <3> QED BY <1>2, <2>1, <2>2, <3>1, <3>2, <3>3
  <2>3. CASE c # Map!CellOf(r)
    <3>1. holder'[c] = holder[c] BY <2>3, CellRange DEF TypeOK
    <3>2. holder[c] \in Requests /\ holder[c] # r BY <1>2, <3>1 DEF Waiting, TypeOK
    <3>3. state'[holder[c]] = state[holder[c]] BY <1>2, <3>2 DEF Worker
    <3>4. Map!CellOf(holder[c])' = c BY <3>1, <3>2 DEF Waiting, Map!CellOf
    <3> QED BY <1>2, <1>3, <3>1, <3>2, <3>3, <3>4 DEF Waiting
  <2> QED BY <2>2, <2>3
<1>5. Matched'
  <2> SUFFICES ASSUME NEW p \in Responses, to[p] # NULL, p \notin met
               PROVE  /\ state'[to[p]] = "sent"
                      /\ pc'[p] = "clear" => Map!CellOf(to[p])' = CellFor(p)'
                      /\ \A q \in Responses : to[q] = to[p] => q = p \/ q \in met
    BY <1>2 DEF Matched
  <2>1. to[p] \in Requests BY DEF TypeOK
  <2>2. state'[to[p]] = "sent" BY <1>2, <2>1 DEF Matched, Worker
  <2>3. Map!CellOf(to[p])' = Map!CellOf(to[p]) /\ CellFor(p)' = CellFor(p)
    BY <1>2 DEF Map!CellOf, CellFor
  <2> QED BY <1>3, <2>2, <2>3 DEF Matched
<1>6. Counted'
  <2>1. \A x \in Requests : pc[x] = "end" => pc'[x] = "end" /\ state'[x] = state[x]
    BY <1>2 DEF Worker
  <2> QED BY <1>2, <1>3, <2>1 DEF Counted
<1>7. Stored' BY DEF Stored, Seen, TypeOK, Worker
<1> QED BY <1>1, <1>4, <1>5, <1>6, <1>7

\* A record enters the cache before its reply is matched.
LEMMA UrlStoreInv ==
  ASSUME IInv, TypeOK', NEW p \in Responses, UrlStore(p)
  PROVE  IInv'
<1> USE RelayAssumption DEF RelayAssumption, IInv, UrlStore, Goto, table, net
<1>1. Stages' BY DEF Stages, TypeOK, Worker
<1>2. Waiting' /\ Matched' /\ Counted'
  <2>1. \A q \in Responses : /\ (pc[q] = "clear") <=> (pc'[q] = "clear")
                             /\ pc[q] = "end" => pc'[q] = "end"
    BY DEF TypeOK, Worker
  <2>2. \A r \in Requests : pc'[r] = pc[r] BY DEF TypeOK, Worker
  <2> QED BY <2>1, <2>2, RestInv
<1>3. Stored'
  <2>1. cached \subseteq cached' /\ (p \in Storing => p \in cached') OBVIOUS
  <2>2. \A q \in Responses : q # p => pc'[q] = pc[q] BY DEF TypeOK, Worker
  <2> QED BY <2>1, <2>2 DEF Stored, Seen
<1> QED BY <1>1, <1>2, <1>3

\* A reply that is alone on its cell finds a mapping that only replies which met
\* somebody have found before: any other one would be there still.
LEMMA FindInv ==
  ASSUME IInv, TypeOK', NEW p \in Responses, Find(p)
  PROVE  IInv'
<1> USE RelayAssumption DEF RelayAssumption, IInv
<1>1. /\ pc[p] = "match" /\ pc'[p] = "clear" /\ state'[p] = "delivered" /\ to[p] = NULL
      /\ \A w \in Worker : w # p => pc'[w] = pc[w] /\ state'[w] = state[w]
      /\ \A q \in Responses : q # p => to'[q] = to[q]
      /\ to'[p] \in Found(p) /\ to'[p] \in Requests \cup {NULL}
      /\ UNCHANGED <<serial, holder, replies, sentTo, cached, evicted>>
  BY DEF Find, Goto, Map!Become, Stages, TypeOK, Worker, cache, net
<1>2. met \subseteq met' /\ (Others(p) # {} => p \in met') BY MeetIs DEF Find, Worker
<1>3. \A r \in Requests : pc'[r] = pc[r] /\ state'[r] = state[r] BY <1>1 DEF Worker
<1>4. \A r \in Requests : Map!CellOf(r)' = Map!CellOf(r) BY <1>1 DEF Map!CellOf
<1>5. \A w \in Worker : CellFor(w)' = CellFor(w) BY <1>4, <1>1 DEF CellFor, Worker, Map!CellOf
<1>6. Stages' BY <1>1, <1>3 DEF Stages, Worker
<1>7. Waiting'
  <2> SUFFICES ASSUME NEW c \in 0 .. MapSize - 1, holder'[c] # NULL
               PROVE  /\ state'[holder'[c]] = "sent"
                      /\ Map!CellOf(holder[c])' = c
                      /\ \A q \in Responses : to'[q] = holder'[c] => q \in met' \/ pc'[q] = "clear"
    BY DEF Waiting
  <2>1. holder'[c] = holder[c] /\ holder[c] \in Requests BY <1>1 DEF TypeOK
  <2>2. Map!CellOf(holder[c])' = c BY <1>1, <2>1 DEF Waiting, Map!CellOf
  <2>3. \A q \in Responses : to'[q] = holder[c] => q \in met' \/ pc'[q] = "clear"
    BY <1>1, <1>2, <2>1 DEF Waiting, Worker
  <2> QED BY <1>3, <2>1, <2>2, <2>3 DEF Waiting
<1>8. Matched'
  <2> SUFFICES ASSUME NEW q \in Responses, to'[q] # NULL, q \notin met'
               PROVE  /\ state'[to'[q]] = "sent"
                      /\ pc'[q] = "clear" => Map!CellOf(to[q])' = CellFor(q)'
                      /\ \A s \in Responses : to'[s] = to'[q] => s = q \/ s \in met'
    BY DEF Matched
  <2>1. to'[q] \in Requests BY DEF TypeOK
  <2>2. Map!CellOf(to[q])' = serial[to'[q]] % MapSize BY <1>1 DEF Map!CellOf
  <2>3. CASE q = p
    <3>1. Others(p) = {} /\ Mapped(p) /\ to'[p] = Map!Holder(Answers[p])
      BY <1>1, <1>2, <2>3 DEF Found
    <3> DEFINE c == Map!CellOf(Answers[p])
    <3>2. c \in 0 .. MapSize - 1 /\ to'[p] = holder[c] /\ holder[c] # NULL /\ c = CellFor(p)
      BY <2>1, <2>3, <3>1, CellRange DEF Map!Holder, CellFor
    <3>3. state[to'[p]] = "sent" /\ Map!CellOf(to'[p]) = c
          /\ \A s \in Responses : to[s] = to'[p] => s \in met \/ pc[s] = "clear"
      BY <3>2 DEF Waiting
    <3>4. ASSUME NEW s \in Responses, s # p, to'[s] = to'[p], s \notin met PROVE FALSE
      <4>1. pc[s] = "clear" /\ to[s] = to'[p] BY <1>1, <3>3, <3>4
      <4>2. CellFor(s) = CellFor(p) BY <2>1, <2>3, <3>2, <3>3, <3>4, <4>1 DEF Matched
      <4> QED BY <3>1, <3>4, <4>1, <4>2 DEF Others, Worker
    <3>5. \A s \in Responses : to'[s] = to'[p] => s = p \/ s \in met' BY <1>2, <3>4
    <3>6. state'[to'[p]] = "sent" BY <1>3, <2>1, <2>3, <3>3
    <3>7. Map!CellOf(to[q])' = CellFor(q)'
      BY <1>5, <2>2, <2>3, <3>2, <3>3 DEF Map!CellOf, Worker
    <3> QED BY <2>3, <3>5, <3>6, <3>7
  <2>4. CASE q # p
    <3>1. to'[q] = to[q] /\ q \notin met /\ pc'[q] = pc[q] BY <1>1, <1>2, <2>4 DEF Worker
    <3>2. state'[to'[q]] = "sent" BY <1>3, <2>1, <3>1 DEF Matched
    <3>3. pc'[q] = "clear" => Map!CellOf(to[q])' = CellFor(q)'
      BY <1>5, <2>1, <2>2, <3>1 DEF Matched, Map!CellOf, Worker
    <3>4. ASSUME to'[p] = to'[q] PROVE p \in met'
      <4> SUFFICES ASSUME p \notin met' PROVE FALSE OBVIOUS
      <4>1. Others(p) = {} /\ Mapped(p) /\ to'[p] = Map!Holder(Answers[p])
        BY <1>1, <1>2 DEF Found
      <4> DEFINE c == Map!CellOf(Answers[p])
      <4>2. c \in 0 .. MapSize - 1 /\ to[q] = holder[c] /\ holder[c] # NULL /\ c = CellFor(p)
        BY <2>1, <3>1, <3>4, <4>1, CellRange DEF Map!Holder, CellFor
      <4>3. pc[q] = "clear" /\ Map!CellOf(to[q]) = c BY <3>1, <4>2 DEF Waiting
      <4>4. CellFor(q) = CellFor(p) BY <2>1, <3>1, <4>2, <4>3 DEF Matched
      <4> QED BY <2>4, <4>1, <4>3, <4>4 DEF Others, Worker
    <3>5. \A s \in Responses : to'[s] = to'[q] => s = q \/ s \in met'
      BY <1>1, <1>2, <2>1, <3>1, <3>4 DEF Matched
    <3> QED BY <3>2, <3>3, <3>5
  <2> QED BY <2>3, <2>4
<1>9. Counted'
  <2>1. \A q \in Responses : to[q] # NULL => to'[q] = to[q] BY <1>1
  <2>2. \A q \in Responses : pc[q] = "end" => pc'[q] = "end" BY <1>1 DEF Worker
  <2>3. \A r \in Requests : r # NULL OBVIOUS
  <2> QED BY <1>1, <1>2, <1>3, <2>1, <2>2, <2>3 DEF Counted
<1>10. Stored' BY <1>1 DEF Stored, Seen, Worker
<1> QED BY <1>6, <1>7, <1>8, <1>9, <1>10

\* An unmatched reply changes no cell.
LEMMA MissInv ==
  ASSUME IInv, TypeOK', NEW p \in Responses, Miss(p)
  PROVE  IInv'
<1> USE RelayAssumption DEF RelayAssumption, IInv
<1>1. /\ pc[p] = "match" /\ pc'[p] = "end" /\ state[p] = "idle" /\ state'[p] = "unmatched"
      /\ \A w \in Worker : w # p => pc'[w] = pc[w] /\ state'[w] = state[w]
      /\ UNCHANGED <<serial, holder, to, met, replies, sentTo, cached, evicted>>
  BY DEF Miss, Goto, Map!Become, TypeOK, Worker, cache, net
<1>2. Stages' BY <1>1 DEF Stages, Worker
<1>3. Waiting' /\ Matched' /\ Counted' BY <1>1, RestInv DEF Worker
<1>4. Stored' BY <1>1 DEF Stored, Seen, Worker
<1> QED BY <1>2, <1>3, <1>4

\* A reply that met nobody clears the mapping it has found.
LEMMA ClearInv ==
  ASSUME IInv, TypeOK', NEW p \in Responses, Clear(p)
  PROVE  IInv'
<1> USE RelayAssumption DEF RelayAssumption, IInv
<1>1. /\ pc[p] = "clear" /\ pc'[p] = "forward"
      /\ \A w \in Worker : w # p => pc'[w] = pc[w]
      /\ UNCHANGED <<state, serial, to, met, replies, sentTo, cached, evicted>>
  BY DEF Clear, Goto, TypeOK, Worker, cache, net
<1>2. \A r \in Requests : pc'[r] = pc[r] /\ Map!CellOf(r)' = Map!CellOf(r)
  BY <1>1 DEF Worker, Map!CellOf
<1>3. Stages' BY <1>1, <1>2 DEF Stages, Worker
<1>4. Waiting'
  <2> SUFFICES ASSUME NEW c \in 0 .. MapSize - 1, holder'[c] # NULL
               PROVE  /\ state'[holder'[c]] = "sent"
                      /\ Map!CellOf(holder[c])' = c
                      /\ \A q \in Responses : to'[q] = holder'[c] => q \in met' \/ pc'[q] = "clear"
    BY DEF Waiting
  <2>1. CellFor(p) \in 0 .. MapSize - 1 BY CellForRange DEF Worker
  <2>2. c # CellFor(p) /\ holder'[c] = holder[c] BY <2>1 DEF Clear, TypeOK
  <2>3. holder[c] \in Requests BY <2>2 DEF TypeOK
  <2>4. Map!CellOf(holder[c])' = c BY <1>1, <2>2, <2>3 DEF Waiting, Map!CellOf
  <2>5. \A q \in Responses : to[q] = holder[c] => q \in met \/ (q # p /\ pc[q] = "clear")
    BY <1>1, <2>2, <2>3 DEF Waiting, Matched
  <2> QED BY <1>1, <2>2, <2>3, <2>4, <2>5 DEF Waiting, Worker
<1>5. Matched'
  <2>1. \A q \in Responses : CellFor(q)' = CellFor(q) BY <1>1 DEF CellFor, Map!CellOf
  <2>2. \A q \in Responses : pc'[q] = "clear" => pc[q] = "clear" BY <1>1 DEF Worker
  <2>3. \A q \in Responses : to[q] # NULL => to[q] \in Requests BY DEF TypeOK
  <2> SUFFICES ASSUME NEW q \in Responses, to[q] # NULL, q \notin met
               PROVE  /\ state[to[q]] = "sent"
                      /\ pc'[q] = "clear" => Map!CellOf(to[q])' = CellFor(q)'
                      /\ \A s \in Responses : to[s] = to[q] => s = q \/ s \in met
    BY <1>1 DEF Matched
  <2>4. Map!CellOf(to[q])' = Map!CellOf(to[q]) BY <1>1 DEF Map!CellOf
  <2> QED BY <2>1, <2>2, <2>4 DEF Matched
<1>6. Counted'
  <2>1. \A q \in Responses : pc[q] = "end" => pc'[q] = "end" BY <1>1 DEF Worker
  <2> QED BY <1>1, <1>2, <2>1 DEF Counted
<1>7. Stored' BY <1>1 DEF Stored, Seen, Worker
<1> QED BY <1>3, <1>4, <1>5, <1>6, <1>7

\* The reply that was matched with a request is sent to its client.
LEMMA ForwardInv ==
  ASSUME IInv, TypeOK', NEW p \in Responses, Forward(p)
  PROVE  IInv'
<1> USE RelayAssumption DEF RelayAssumption, IInv
<1>1. /\ pc[p] = "forward" /\ pc'[p] = "end"
      /\ \A w \in Worker : w # p => pc'[w] = pc[w]
      /\ UNCHANGED <<state, serial, holder, to, met, sentTo, cached, evicted>>
  BY DEF Forward, Goto, TypeOK, Worker, cache, table
<1>2. Stages' BY <1>1 DEF Stages, Worker
<1>3. Waiting'
  <2>1. \A q \in Responses : pc[q] = "clear" => pc'[q] = "clear" BY <1>1 DEF Worker
  <2>2. \A r : Map!CellOf(r)' = Map!CellOf(r) BY <1>1 DEF Map!CellOf
  <2> QED BY <1>1, <2>1, <2>2 DEF Waiting, Map!CellOf
<1>4. Matched'
  <2>1. \A q \in Responses : pc'[q] = "clear" => pc[q] = "clear" BY <1>1 DEF Worker
  <2> QED BY <1>1, <2>1 DEF Matched, CellFor, Map!CellOf
<1>5. Counted'
  <2>1. /\ \A q \in Responses : pc[q] = "end" => pc'[q] = "end"
        /\ \A x \in Requests : pc'[x] = pc[x]
    BY <1>1 DEF Worker
  <2>2. \A x \in Requests : x # to[p] => replies'[x] = replies[x] BY DEF Forward, TypeOK
  <2>3. ASSUME NEW x \in Requests, replies'[x] > 0
        PROVE  \/ /\ replies'[x] = 1
                  /\ \/ pc'[x] = "end" /\ state'[x] = "idle"
                     \/ \E q \in Responses : to'[q] = x /\ pc'[q] = "end"
               \/ \E q \in Responses \cap met' : to'[q] = x
    <3>1. CASE x # to[p] BY <1>1, <2>1, <2>2, <2>3, <3>1 DEF Counted
    <3>2. CASE x = to[p] /\ \E q \in Responses \cap met : to[q] = x BY <1>1, <3>2
    <3>3. CASE x = to[p] /\ \A q \in Responses \cap met : to[q] # x
      <4>1. x # NULL /\ p \notin met BY <3>3
      <4>2. state[x] = "sent" /\ \A q \in Responses : to[q] = x => q = p
        BY <3>3, <4>1 DEF Matched
      <4>3. ~ (replies[x] > 0) BY <1>1, <3>3, <4>2 DEF Counted
      <4>4. replies[x] \in Nat BY DEF TypeOK
      <4>5. replies'[x] \in {replies[x], replies[x] + 1} BY <3>3 DEF Forward, TypeOK
      <4>6. replies'[x] = 1 BY <2>3, <4>3, <4>4, <4>5
      <4> QED BY <1>1, <3>3, <4>6
    <3> QED BY <3>1, <3>2, <3>3
  <2> QED BY <2>3 DEF Counted
<1>6. Stored' BY <1>1 DEF Stored, Seen, Worker
<1> QED BY <1>2, <1>3, <1>4, <1>5, <1>6

\* Every step of the system keeps the invariant.
LEMMA StepInv == IInv /\ [Next]_vars => IInv'
<1> SUFFICES ASSUME IInv, [Next]_vars PROVE IInv' OBVIOUS
<1> USE DEF table, cache, net
<1>0. TypeOK' BY TypeStep DEF IInv
<1>1. ASSUME NEW p \in Responses, OnItsWay(p) PROVE state[Answers[p]] = "sent"
  BY <1>1, RelayAssumption DEF OnItsWay, IInv, Stages, RelayAssumption
<1>2. ASSUME NEW w \in Worker, Receive(w) PROVE IInv'
  <2>1. CASE w \in Requests BY <1>0, <1>2, <2>1, MoveInv DEF Receive
  <2>2. CASE w \notin Requests
    <3>1. w \in Responses /\ state[Answers[w]] = "sent" BY <1>1, <1>2, <2>2 DEF Receive, Worker
    <3> QED BY <1>0, <1>2, <2>2, <3>1, MoveInv DEF Receive
  <2> QED BY <2>1, <2>2
<1>3. ASSUME NEW r \in Requests, Walk(r) \/ Join(r) PROVE IInv'
  <2>1. CASE Walk(r) BY <1>0, <2>1, MoveInv DEF Walk, Worker
  <2>2. CASE Join(r) BY <1>0, <2>2, MoveInv DEF Join, Worker
  <2> QED BY <1>3, <2>1, <2>2
<1>4. ASSUME NEW r \in Requests, SendOn(r) PROVE IInv'
  <2>1. \A x \in Requests : sentTo'[x] # sentTo[x] => x = r BY <1>4 DEF SendOn, IInv, TypeOK
  <2> QED BY <1>0, <1>4, <2>1, MoveInv DEF SendOn, Worker
<1>5. ASSUME NEW p \in Responses, Lose(p) PROVE IInv'
  <2>1. p \notin Requests /\ state[Answers[p]] = "sent"
    BY <1>1, <1>5, RelayAssumption DEF Lose, RelayAssumption
  <2> QED BY <1>0, <1>5, <2>1, MoveInv DEF Lose, Worker
<1>6. ASSUME NEW r \in Requests, request(r) PROVE IInv'
  BY <1>0, <1>3, <1>4, <1>6, SendBackInv, DrawInv, CheckInv, RecordInv DEF request
<1>12. ASSUME NEW p \in Responses, response(p) PROVE IInv'
  BY <1>0, <1>12, UrlStoreInv, FindInv, MissInv, ClearInv, ForwardInv DEF response
<1>7. ASSUME NEW w \in Worker, SocketClose(w) PROVE IInv'
  BY <1>0, <1>7, StillInv DEF SocketClose
<1>8. ASSUME NEW p \in Responses, Evict(p) PROVE IInv'
  BY <1>0, <1>8, StillInv DEF Evict
<1>9. ASSUME NEW s \in Servers, Server(s) PROVE IInv'
  BY <1>0, <1>9, StillInv DEF Server
<1>10. CASE Tick BY <1>0, <1>10, StillInv DEF Tick, Map!Tick, Map!table
<1>11. CASE UNCHANGED vars BY <1>0, <1>11, StillInv DEF vars
<1> QED
  BY <1>2, <1>5, <1>6, <1>7, <1>8, <1>9, <1>10, <1>11, <1>12
  DEF Next, connectHandle

\* IInv holds in every reachable state.
THEOREM Invariance == Spec => []IInv
<1> QED BY InitInv, StepInv, PTL DEF Spec
----------------------------------------------------------------------------
(* What follows from it *)

\* Every variable of the relay keeps its type: in particular every serial has a
\* cell, and a reply is for a request or for none.
THEOREM TypeCorrect == Spec => []TypeOK
<1>1. IInv => TypeOK BY DEF IInv
<1> QED BY <1>1, Invariance, PTL

\* However datagrams are duplicated, delayed or reordered, connectHandle sends a
\* client two replies to a query only if one of the replies matched with it was
\* in queryMap while another worker was on the cell.
THEOREM OneReplyEach == Spec => []OneReply
<1>1. IInv => OneReply
  <2> SUFFICES ASSUME IInv, NEW r \in Requests, replies[r] > 1
               PROVE  \E p \in Responses \cap met : to[p] = r
    BY DEF OneReply
  <2>1. replies[r] \in Nat BY DEF IInv, TypeOK
  <2>2. replies[r] > 0 /\ replies[r] # 1 BY <2>1
  <2> QED BY <2>2 DEF IInv, Counted
<1> QED BY <1>1, Invariance, PTL

\* addToMap returns UINT16_MAX only while another worker is on the cell, or the
\* request in it is another one, unexpired, that no reply alone on the cell has
\* found: a consumed mapping, or one that a lost reply leaves behind, blocks
\* nobody for longer than CONVERT_TTL.
THEOREM RefusalsJust == Spec => RefusalJust
<1>1. ASSUME IInv, [Next]_vars, NEW r \in Requests,
             state[r] = "drawn", state'[r] = "busy"
      PROVE  RefusedFor(r)
  <2> USE RelayAssumption DEF RelayAssumption, IInv
  <2>1. Busy(r)
    <3> USE <1>1 DEF TypeOK, Worker, table, cache, net, Map!Become
    <3>1. ASSUME NEW x \in Requests, request(x) PROVE Busy(r)
      <4>1. CASE Walk(x) \/ Join(x) \/ SendBack(x) \/ Check(x) \/ SendOn(x)
        BY <4>1 DEF Walk, Join, SendBack, Check, SendOn
      <4>2. CASE Draw(x) BY <4>2 DEF Draw, Map!Draw
      <4>3. CASE Record(x) BY <4>3 DEF Record
      <4>4. CASE Busy(x) BY <4>4 DEF Busy
      <4> QED BY <3>1, <4>1, <4>2, <4>3, <4>4 DEF request
    <3>2. ASSUME NEW p \in Responses, response(p) PROVE Busy(r)
      <4>1. CASE UrlStore(p) \/ Clear(p) \/ Forward(p)
        BY <4>1 DEF UrlStore, Clear, Forward
      <4>2. CASE Find(p) \/ Miss(p) BY <4>2 DEF Find, Miss
      <4> QED BY <3>2, <4>1, <4>2 DEF response
    <3>3. UNCHANGED state => FALSE OBVIOUS
    <3>4. ASSUME NEW w \in Worker, Receive(w) \/ SocketClose(w) PROVE FALSE
      BY <3>3, <3>4 DEF Receive, SocketClose
    <3>5. ASSUME NEW p \in Responses, Lose(p) \/ Evict(p) PROVE FALSE
      BY <3>3, <3>5 DEF Lose, Evict
    <3>6. ASSUME NEW s \in Servers, Server(s) PROVE FALSE
      BY <3>3, <3>6 DEF Server
    <3>7. CASE Tick BY <3>3, <3>7 DEF Tick, Map!Tick, Map!table
    <3>8. CASE UNCHANGED vars BY <3>3, <3>8 DEF vars
    <3> QED BY <3>1, <3>2, <3>4, <3>5, <3>6, <3>7, <3>8 DEF Next, connectHandle
  <2> SUFFICES ASSUME Others(r) = {}
               PROVE  \E s \in Requests \ {r} :
                        /\ Map!CellOf(s) = Map!CellOf(r) /\ state[s] = "sent" /\ clock < expires[s]
                        /\ \A p \in Responses : to[p] = s => p \in met
    BY DEF RefusedFor
  <2> DEFINE s == Map!Holder(r)
  <2>2. s \in Requests \cup {NULL} /\ Map!CellOf(r) \in 0 .. MapSize - 1
    BY <1>1, CellRange
  <2>3. s \in Requests /\ s # NULL /\ ~ (expires[s] <= clock)
    BY <2>1, <2>2 DEF Busy, Vacant
  <2>4. clock < expires[s]
    <3>1. clock \in Int /\ ConvertTTL \in Int /\ MaxClock \in Int BY <1>1 DEF TypeOK
    <3>2. expires[s] \in 0 .. MaxClock + ConvertTTL BY <1>1, <2>3 DEF TypeOK
    <3> HIDE DEF s
    <3> QED BY <2>3, <3>1, <3>2
  <2>5. /\ state[s] = "sent" /\ Map!CellOf(s) = Map!CellOf(r)
        /\ \A p \in Responses : to[p] = s => p \in met \/ pc[p] = "clear"
    BY <1>1, <2>3, <2>2 DEF Waiting, Map!Holder
  <2> HIDE DEF s
  <2>6. ASSUME NEW p \in Responses, to[p] = s, p \notin met PROVE FALSE
    <3>1. pc[p] = "clear" BY <2>5, <2>6
    <3>4. Map!CellOf(to[p]) = CellFor(p) BY <1>1, <2>3, <2>6, <3>1 DEF Matched
    <3>5. Map!CellOf(to[p]) = Map!CellOf(s) BY <2>6 DEF Map!CellOf
    <3>2. CellFor(r) = Map!CellOf(r) BY DEF CellFor
    <3>3. p \in Worker /\ p # r BY <1>1 DEF Worker
    <3> QED BY <2>5, <3>1, <3>2, <3>3, <3>4, <3>5 DEF Others
  <2> QED BY <1>1, <2>3, <2>4, <2>5, <2>6
<1>2. IInv /\ [Next]_vars
        => \A r \in Requests : state[r] = "drawn" /\ state'[r] = "busy" => RefusedFor(r)
  BY <1>1
<1> QED BY <1>2, Invariance, PTL DEF Spec, RefusalJust

\* The walk of the cache leaves a query to the host table and the upstream server
\* only if the record of every reply about its name that connectHandle has dealt
\* with, matched or not, is overdue or was dropped by the cache: urlStore comes
\* before queryMap.
THEOREM RelaysUnknownOnly == Spec => RelayedWhenUnknown
<1>1. ASSUME IInv, [Next]_vars, NEW r \in Requests, pc[r] = "query", pc'[r] = "join"
      PROVE  ~ InCache(r)
  <2> USE <1>1, RelayAssumption
      DEF RelayAssumption, IInv, TypeOK, Worker, Goto, table, cache, net
  <2>1. ASSUME NEW x \in Requests, request(x) PROVE ~ InCache(r)
    <3>1. ~ (Join(x) \/ SendBack(x) \/ Draw(x) \/ Check(x) \/ Busy(x) \/ Record(x) \/ SendOn(x))
      BY DEF Join, SendBack, Draw, Check, Busy, Record, SendOn
    <3>2. Walk(x) BY <2>1, <3>1 DEF request
    <3>3. x = r BY <3>2 DEF Walk
    <3> QED BY <3>2, <3>3 DEF Walk
  <2>2. ASSUME NEW p \in Responses, response(p) PROVE FALSE
    BY <2>2 DEF response, UrlStore, Find, Miss, Clear, Forward
  <2>3. ASSUME NEW w \in Worker, Receive(w) PROVE FALSE
    BY <2>3 DEF Receive
  <2>4. ASSUME NEW p \in Responses, Lose(p) PROVE FALSE
    BY <2>4 DEF Lose
  <2>5. UNCHANGED pc => FALSE OBVIOUS
  <2>6. ASSUME NEW w \in Worker, SocketClose(w) PROVE FALSE
    BY <2>5, <2>6 DEF SocketClose
  <2>7. ASSUME NEW p \in Responses, Evict(p) PROVE FALSE
    BY <2>5, <2>7 DEF Evict
  <2>8. ASSUME NEW s \in Servers, Server(s) PROVE FALSE
    BY <2>5, <2>8 DEF Server
  <2>9. CASE Tick BY <2>5, <2>9 DEF Tick
  <2>10. CASE UNCHANGED vars BY <2>5, <2>10 DEF vars
  <2> QED
    BY <2>1, <2>2, <2>3, <2>4, <2>6, <2>7, <2>8, <2>9, <2>10
    DEF Next, connectHandle
<1>2. ASSUME IInv, NEW r \in Requests, ~ InCache(r),
             NEW p \in Storing, Seen(p), Name[Answers[p]] = Name[r]
      PROVE  p \in evicted \/ freshUntil[p] < clock
  <2>1. p \in cached \/ p \in evicted BY <1>2 DEF IInv, Stored
  <2>2. p \in cached => ~ (freshUntil[p] >= clock) BY <1>2 DEF InCache
  <2>3. freshUntil[p] \in Int /\ clock \in Int
    BY <1>2, RelayAssumption DEF IInv, TypeOK, RelayAssumption
  <2> QED BY <2>1, <2>2, <2>3
<1>3. IInv /\ [Next]_vars
        => \A r \in Requests : pc[r] = "query" /\ pc'[r] = "join" =>
             \A p \in Storing : Seen(p) /\ Name[Answers[p]] = Name[r]
               => p \in evicted \/ freshUntil[p] < clock
  BY <1>1, <1>2
<1> QED BY <1>3, Invariance, PTL DEF Spec, RelayedWhenUnknown
=============================================================================
