---------------------------- MODULE IdMapProofs ----------------------------
(***************************************************************************)
(* Proofs about IdMap for any number of requests and responses, any size   *)
(* of the table, any modulus and any lifetime: the types, the confinement  *)
(* of a race to its cell, the inductive invariant of IdMapInv with the     *)
(* safety properties that follow from it, and the refinement of IdTable.   *)
(***************************************************************************)
EXTENDS IdMapInv, TLAPS

\* Remainder and quotient stay in range: a serial always has a cell.
LEMMA ModRange ==
  ASSUME NEW a \in Nat, NEW m \in Nat \ {0}
  PROVE  a % m \in 0 .. m - 1 /\ a \div m \in Nat
  OBVIOUS

\* A counter below m either counts on or comes round to 0.
LEMMA NextMod ==
  ASSUME NEW m \in Nat \ {0}, NEW a \in 0 .. m - 1
  PROVE  (a + 1) % m = IF a + 1 = m THEN 0 ELSE a + 1
  OBVIOUS

\* Cell and generation determine the serial: what queryMap compares is enough.
LEMMA DivModUnique ==
  ASSUME NEW a \in Nat, NEW b \in Nat, NEW m \in Nat \ {0},
         a % m = b % m, a \div m = b \div m
  PROVE  a = b
  OBVIOUS

\* The operators on serials and cells stay in their ranges.
LEMMA CellTypes ==
  ASSUME TypeOK, NEW w \in Worker
  PROVE  /\ SerialOf(w) \in 0 .. SerialMod - 1
         /\ converted(w) \in 0 .. MapSize - 1
         /\ current(w) \in Nat
         /\ Cell(w) \in Requests \cup {NULL}
<1>1. SerialOf(w) \in 0 .. SerialMod - 1
  BY IdMapAssumption DEF IdMapAssumption, TypeOK, SerialOf, Worker
<1>2. SerialOf(w) \in Nat /\ MapSize \in Nat \ {0}
  BY <1>1, IdMapAssumption DEF IdMapAssumption
<1>3. converted(w) \in 0 .. MapSize - 1 /\ current(w) \in Nat
  BY <1>2, ModRange DEF converted, current
<1> QED BY <1>1, <1>3 DEF Cell, TypeOK

\* addToMap draws the successor of the last serial, or 0.
LEMMA NextSerialIs ==
  TypeOK => NextSerial = IF alloc + 1 = SerialMod THEN 0 ELSE alloc + 1
  BY NextMod, IdMapAssumption DEF IdMapAssumption, NextSerial, TypeOK
----------------------------------------------------------------------------
(* Types *)

\* Every step of the two operations keeps the types.
LEMMA TypeStep == TypeOK /\ [Next]_vars => TypeOK'
<1> SUFFICES ASSUME TypeOK, [Next]_vars PROVE TypeOK' OBVIOUS
<1> USE IdMapAssumption DEF IdMapAssumption
<1> USE DEF TypeOK, Step, shared, heap, reply, history, AddPc, QueryPc, Outcome,
            Worker
<1>4. ASSUME NEW r \in Requests, Allocate(r) PROVE TypeOK'
  <2>1. NextSerial \in 0 .. SerialMod - 1 BY NextSerialIs
  <2> QED BY <1>4, <2>1 DEF Allocate, Enter
<1>5. ASSUME NEW r \in Requests, CheckEmpty(r) PROVE TypeOK'
  BY <1>5 DEF CheckEmpty
<1>6. ASSUME NEW r \in Requests, CheckTimeout(r) PROVE TypeOK'
  BY <1>6 DEF CheckTimeout
<1>7. ASSUME NEW r \in Requests, SaveOld(r) PROVE TypeOK'
  <2>1. Cell(r) \in Requests \cup {NULL} BY CellTypes
  <2> QED BY <1>7, <2>1 DEF SaveOld
<1>8. ASSUME NEW r \in Requests, Publish(r) PROVE TypeOK'
  BY <1>8, CellTypes DEF Publish
<1>9. ASSUME NEW r \in Requests, SetTimeout(r) PROVE TypeOK'
  <2>1. clock + ConvertTTL \in Nat OBVIOUS
  <2> QED BY <1>9, <2>1 DEF SetTimeout
<1>10. ASSUME NEW r \in Requests, SetOrigin(r) PROVE TypeOK'
  BY <1>10 DEF SetOrigin
<1>11. ASSUME NEW r \in Requests, SetLast(r) PROVE TypeOK'
  BY <1>11, CellTypes DEF SetLast
<1>12. ASSUME NEW r \in Requests, SetFrom(r) PROVE TypeOK'
  BY <1>12 DEF SetFrom
<1>13. ASSUME NEW r \in Requests, FreeOld(r) PROVE TypeOK'
  BY <1>13 DEF FreeOld, Free
<1>14. ASSUME NEW p \in Responses, Arrive(p) PROVE TypeOK'
  BY <1>14 DEF Arrive, Enter
<1>15. ASSUME NEW p \in Responses, TestEmpty(p) PROVE TypeOK'
  BY <1>15 DEF TestEmpty
<1>16. ASSUME NEW p \in Responses, TestLast(p) PROVE TypeOK'
  BY <1>16 DEF TestLast
<1>17. ASSUME NEW p \in Responses, CopyOrigin(p) PROVE TypeOK'
  <2>1. Cell(p) \in Requests BY <1>17, CellTypes DEF CopyOrigin, Live
  <2> QED BY <1>17, <2>1 DEF CopyOrigin
<1>18. ASSUME NEW p \in Responses, CopyFrom(p) PROVE TypeOK'
  <2>1. Cell(p) \in Requests BY <1>18, CellTypes DEF CopyFrom, Live
  <2> QED BY <1>18, <2>1 DEF CopyFrom
<1>19. ASSUME NEW p \in Responses, SaveTaken(p) PROVE TypeOK'
  <2>1. Cell(p) \in Requests \cup {NULL} BY CellTypes
  <2> QED BY <1>19, <2>1 DEF SaveTaken
<1>20. ASSUME NEW p \in Responses, Clear(p) PROVE TypeOK'
  BY <1>20 DEF Clear
<1>21. ASSUME NEW p \in Responses, FreeTaken(p) PROVE TypeOK'
  BY <1>21 DEF FreeTaken, Free
<1>22. ASSUME NEW w \in Worker, Fault(w) PROVE TypeOK'
  BY <1>22 DEF Fault
<1>23. CASE Tick BY <1>23 DEF Tick
<1>24. CASE UNCHANGED vars BY <1>24 DEF vars
<1> QED
  BY <1>4, <1>5, <1>6, <1>7, <1>8, <1>9, <1>10, <1>11, <1>12, <1>13, <1>14,
     <1>15, <1>16, <1>17, <1>18, <1>19, <1>20, <1>21, <1>22, <1>23, <1>24
  DEF Next, addToMap, queryMap
----------------------------------------------------------------------------
(* Serial numbers *)

\* Drawing a serial keeps all earlier ones of its round at or below it.
LEMMA TicketsStep == TypeOK /\ Tickets /\ [Next]_vars => Tickets'
<1> SUFFICES ASSUME TypeOK, Tickets, [Next]_vars PROVE Tickets' OBVIOUS
<1> USE IdMapAssumption DEF IdMapAssumption
<1>1. ASSUME NEW r \in Requests, Allocate(r) PROVE Tickets'
  <2>1. /\ pc[r] = "start" /\ pc' = [pc EXCEPT ![r] = "check"]
        /\ serial' = [serial EXCEPT ![r] = alloc']
        /\ roundOf' = [roundOf EXCEPT ![r] = round']
        /\ \/ alloc' = 0 /\ round' = round + 1
           \/ alloc' = alloc + 1 /\ round' = round
    BY <1>1, NextSerialIs DEF Allocate, Step, TypeOK
  <2>2. ASSUME NEW q \in Requests, pc'[q] # "start"
        PROVE  roundOf'[q] < round' \/ (roundOf'[q] = round' /\ serial'[q] <= alloc')
    <3>1. CASE q = r BY <2>1, <3>1 DEF TypeOK
    <3>2. CASE q # r
      <4>1. /\ pc[q] # "start" /\ roundOf'[q] = roundOf[q] /\ serial'[q] = serial[q]
        BY <2>1, <2>2, <3>2 DEF TypeOK
      <4>2. roundOf[q] < round \/ (roundOf[q] = round /\ serial[q] <= alloc)
        BY <4>1 DEF Tickets
      <4> QED BY <2>1, <4>1, <4>2 DEF TypeOK
    <3> QED BY <3>1, <3>2
  <2>3. \A q \in Requests : pc'[q] \in {"start"} \cup AddPc \cup {"sent", "busy"}
    BY <2>1 DEF Tickets, TypeOK, AddPc
  <2>4. \A p \in Responses :
          /\ pc'[p] \in {"start"} \cup QueryPc \cup {"unmatched", "delivered"}
          /\ pc'[p] # "start" => pc'[Answers[p]] = "sent"
    BY <2>1 DEF Tickets, TypeOK, Worker
  <2> QED BY <2>2, <2>3, <2>4 DEF Tickets
<1>2. ASSUME NEW r \in Requests, addToMap(r), ~Allocate(r) PROVE Tickets'
  <2>1. /\ pc[r] \notin {"start", "sent"}
        /\ \E t \in AddPc \cup {"sent", "busy"} : pc' = [pc EXCEPT ![r] = t]
        /\ UNCHANGED <<alloc, serial, round, roundOf>>
    BY <1>2 DEF addToMap, CheckEmpty, CheckTimeout, SaveOld, Publish, SetTimeout,
                SetOrigin, SetLast, SetFrom, FreeOld, Step, AddPc, shared, history
  <2> QED BY <2>1 DEF Tickets, TypeOK, Worker
<1>3. ASSUME NEW p \in Responses, queryMap(p) PROVE Tickets'
  <2>1. /\ \E t \in QueryPc \cup {"unmatched", "delivered"} : pc' = [pc EXCEPT ![p] = t]
        /\ pc[p] = "start" => pc[Answers[p]] = "sent"
        /\ UNCHANGED <<alloc, serial, round, roundOf>>
    BY <1>3 DEF queryMap, Arrive, TestEmpty, TestLast, CopyOrigin, CopyFrom,
                SaveTaken, Clear, FreeTaken, Step, QueryPc, shared, history
  <2> QED BY <2>1 DEF Tickets, TypeOK, Worker
<1>4. ASSUME NEW w \in Worker, Fault(w) PROVE Tickets'
  BY <1>4 DEF Fault, Tickets, history
<1>5. CASE Tick BY <1>5 DEF Tick, Tickets, history
<1>6. CASE UNCHANGED vars BY <1>6 DEF vars, Tickets, shared, history
<1> QED BY <1>1, <1>2, <1>3, <1>4, <1>5, <1>6 DEF Next
----------------------------------------------------------------------------
(* A race stays in its cell *)

\* Without a new serial, the requests of a cell remain the requests of it.
LEMMA OursKept ==
  ASSUME TypeOK, serial' = serial, \A w \in Worker : pc[w] # "start" => pc'[w] # "start"
  PROVE  \A w \in Worker : converted(w)' = converted(w) /\ Ours(w) \subseteq Ours(w)'
  BY DEF Ours, converted, SerialOf, Worker

\* The steps that neither draw a serial nor copy anything keep Confined.
LEMMA ConfinedFrame ==
  ASSUME TypeOK, Tickets, Confined,
         UNCHANGED <<serial, cell, origin, from, toId, toAddr>>,
         NEW w \in Worker, pc[w] # "start" \/ w \in Responses,
         NEW t \in AddPc \cup {"sent", "busy"} \cup
                   {"test", "testLast", "copyOrigin", "clear", "freeTaken",
                    "unmatched", "delivered"},
         pc' = [pc EXCEPT ![w] = t],
         w \in Responses =>
           /\ t \in {"clear"} => pc[w] = "saveOld"
           /\ t \in {"freeTaken"} => pc[w] = "clear"
           /\ t \in {"delivered"} => pc[w] = "freeTaken"
  PROVE  Confined'
<1> USE IdMapAssumption DEF IdMapAssumption
<1>1. \A v \in Worker : pc[v] # "start" => pc'[v] # "start"
  BY DEF TypeOK, AddPc
<1>2. \A v \in Worker : converted(v)' = converted(v) /\ Ours(v) \subseteq Ours(v)'
  BY <1>1, OursKept
<1>3. \A n \in Requests : pc'[n] = "start" => origin[n] = Junk /\ from[n] = Junk
  BY <1>1 DEF Confined, Worker
<1>4. \A n \in Requests, c \in 0 .. MapSize - 1 :
        cell[c] = n => pc'[n] # "start" /\ converted(n)' = c
  BY <1>1, <1>2 DEF Confined, Worker
<1>5. \A n \in Requests : origin[n] \in Ours(n)' /\ from[n] \in Ours(n)'
  BY <1>2 DEF Confined, Worker
<1>6. ASSUME NEW p \in Responses
      PROVE  /\ pc'[p] \in {"copyFrom", "saveOld", "clear", "freeTaken", "delivered"}
                  => toId[p] \in Ours(p)'
             /\ pc'[p] \in {"saveOld", "clear", "freeTaken", "delivered"}
                  => toAddr[p] \in Ours(p)'
  <2>1. CASE p = w BY <1>2, <2>1 DEF Confined, TypeOK, Worker, AddPc
  <2>2. CASE p # w BY <1>2, <2>2 DEF Confined, TypeOK, Worker
  <2> QED BY <2>1, <2>2
<1> QED BY <1>3, <1>4, <1>5, <1>6 DEF Confined

\* Drawing a serial touches no request that anything refers to.
LEMMA ConfinedAllocate ==
  ASSUME TypeOK, Tickets, Confined, NEW r \in Requests, Allocate(r)
  PROVE  Confined'
<1> USE IdMapAssumption DEF IdMapAssumption
<1>1. /\ pc[r] = "start" /\ pc' = [pc EXCEPT ![r] = "check"]
      /\ serial' = [serial EXCEPT ![r] = alloc']
      /\ UNCHANGED <<cell, origin, from, toId, toAddr>>
  BY DEF Allocate, Step, heap, reply
<1>2. \A w \in Worker : pc[w] # "start" =>
        /\ pc'[w] # "start" /\ converted(w)' = converted(w)
        /\ Ours(w) \subseteq Ours(w)'
  BY <1>1 DEF Ours, converted, SerialOf, Worker, TypeOK, Tickets
<1>3. \A n \in Requests : origin[n] \in Ours(n)' /\ from[n] \in Ours(n)'
  BY <1>2 DEF Confined, Ours, Worker
<1>4. \A n \in Requests, c \in 0 .. MapSize - 1 :
        cell[c] = n => pc'[n] # "start" /\ converted(n)' = c
  BY <1>2 DEF Confined, Worker
<1>5. \A n \in Requests : pc'[n] = "start" => origin[n] = Junk /\ from[n] = Junk
  BY <1>1 DEF Confined, TypeOK
<1>6. \A p \in Responses :
        /\ pc'[p] \in {"copyFrom", "saveOld", "clear", "freeTaken", "delivered"}
             => toId[p] \in Ours(p)'
        /\ pc'[p] \in {"saveOld", "clear", "freeTaken", "delivered"}
             => toAddr[p] \in Ours(p)'
  BY <1>1, <1>2 DEF Confined, TypeOK, Worker
<1> QED BY <1>1, <1>3, <1>4, <1>5, <1>6 DEF Confined

\* Every reference that a step stores is to a request of the worker's own cell.
LEMMA ConfinedStep == TypeOK /\ Tickets /\ Confined /\ [Next]_vars => Confined'
<1> SUFFICES ASSUME TypeOK, Tickets, Confined, [Next]_vars PROVE Confined' OBVIOUS
<1> USE IdMapAssumption DEF IdMapAssumption
<1>1. \A w \in Worker : converted(w) \in 0 .. MapSize - 1 /\ Cell(w) \in Requests \cup {NULL}
  BY CellTypes
<1>2. ASSUME NEW r \in Requests, Allocate(r) PROVE Confined'
  BY <1>2, ConfinedAllocate
<1>3. ASSUME NEW r \in Requests, Publish(r) PROVE Confined'
  <2>1. /\ pc[r] = "publish" /\ pc' = [pc EXCEPT ![r] = "setTimeout"]
        /\ cell' = [cell EXCEPT ![converted(r)] = r]
        /\ UNCHANGED <<serial, origin, from, toId, toAddr>>
    BY <1>3 DEF Publish, Step, reply
  <2>2. \A v \in Worker : /\ pc[v] # "start" => pc'[v] # "start"
                          /\ v # r => pc'[v] = pc[v]
    BY <2>1 DEF TypeOK
  <2>3. \A v \in Worker : converted(v)' = converted(v) /\ Ours(v) \subseteq Ours(v)'
    BY <2>1, <2>2, OursKept
  <2> QED BY <1>1, <2>1, <2>2, <2>3 DEF Confined, TypeOK, Worker
<1>4. ASSUME NEW r \in Requests, SetOrigin(r) PROVE Confined'
  <2>1. /\ pc[r] = "setOrigin" /\ pc' = [pc EXCEPT ![r] = "setLast"]
        /\ Cell(r) \in Requests /\ origin' = [origin EXCEPT ![Cell(r)] = r]
        /\ UNCHANGED <<serial, cell, from, toId, toAddr>>
    BY <1>1, <1>4 DEF SetOrigin, Step, reply, Live, Worker
  <2>2. \A v \in Worker : /\ pc[v] # "start" => pc'[v] # "start"
                          /\ v # r => pc'[v] = pc[v]
    BY <2>1 DEF TypeOK
  <2>3. \A v \in Worker : converted(v)' = converted(v) /\ Ours(v) \subseteq Ours(v)'
    BY <2>1, <2>2, OursKept
  <2>4. pc[Cell(r)] # "start" /\ r \in Ours(Cell(r))
    BY <1>1, <2>1 DEF Confined, Ours, Cell, Worker
  <2> QED BY <1>1, <2>1, <2>2, <2>3, <2>4 DEF Confined, TypeOK, Worker
<1>5. ASSUME NEW r \in Requests, SetFrom(r) PROVE Confined'
  <2>1. /\ pc[r] = "setFrom" /\ pc' = [pc EXCEPT ![r] = "freeOld"]
        /\ Cell(r) \in Requests /\ from' = [from EXCEPT ![Cell(r)] = r]
        /\ UNCHANGED <<serial, cell, origin, toId, toAddr>>
    BY <1>1, <1>5 DEF SetFrom, Step, reply, Live, Worker
  <2>2. \A v \in Worker : /\ pc[v] # "start" => pc'[v] # "start"
                          /\ v # r => pc'[v] = pc[v]
    BY <2>1 DEF TypeOK
  <2>3. \A v \in Worker : converted(v)' = converted(v) /\ Ours(v) \subseteq Ours(v)'
    BY <2>1, <2>2, OursKept
  <2>4. pc[Cell(r)] # "start" /\ r \in Ours(Cell(r))
    BY <1>1, <2>1 DEF Confined, Ours, Cell, Worker
  <2> QED BY <1>1, <2>1, <2>2, <2>3, <2>4 DEF Confined, TypeOK, Worker
<1>6. ASSUME NEW p \in Responses, CopyOrigin(p) PROVE Confined'
  <2>1. /\ pc[p] = "copyOrigin" /\ pc' = [pc EXCEPT ![p] = "copyFrom"]
        /\ Cell(p) \in Requests /\ toId' = [toId EXCEPT ![p] = origin[Cell(p)]]
        /\ UNCHANGED <<serial, cell, origin, from, toAddr>>
    BY <1>1, <1>6 DEF CopyOrigin, Step, shared, heap, Live, Worker
  <2>2. \A v \in Worker : /\ pc[v] # "start" => pc'[v] # "start"
                          /\ v # p => pc'[v] = pc[v]
    BY <2>1 DEF TypeOK
  <2>3. \A v \in Worker : converted(v)' = converted(v) /\ Ours(v) \subseteq Ours(v)'
    BY <2>1, <2>2, OursKept
  <2>4. origin[Cell(p)] \in Ours(p)
    BY <1>1, <2>1 DEF Confined, Ours, Cell, Worker
  <2> QED BY <2>1, <2>2, <2>3, <2>4 DEF Confined, TypeOK, Worker
<1>7. ASSUME NEW p \in Responses, CopyFrom(p) PROVE Confined'
  <2>1. /\ pc[p] = "copyFrom" /\ pc' = [pc EXCEPT ![p] = "saveOld"]
        /\ Cell(p) \in Requests /\ toAddr' = [toAddr EXCEPT ![p] = from[Cell(p)]]
        /\ UNCHANGED <<serial, cell, origin, from, toId>>
    BY <1>1, <1>7 DEF CopyFrom, Step, shared, heap, Live, Worker
  <2>2. \A v \in Worker : /\ pc[v] # "start" => pc'[v] # "start"
                          /\ v # p => pc'[v] = pc[v]
    BY <2>1 DEF TypeOK
  <2>3. \A v \in Worker : converted(v)' = converted(v) /\ Ours(v) \subseteq Ours(v)'
    BY <2>1, <2>2, OursKept
  <2>4. from[Cell(p)] \in Ours(p)
    BY <1>1, <2>1 DEF Confined, Ours, Cell, Worker
  <2> QED BY <2>1, <2>2, <2>3, <2>4 DEF Confined, TypeOK, Worker
<1>8. ASSUME NEW p \in Responses, Clear(p) PROVE Confined'
  <2>1. /\ pc[p] = "clear" /\ pc' = [pc EXCEPT ![p] = "freeTaken"]
        /\ cell' = [cell EXCEPT ![converted(p)] = NULL]
        /\ UNCHANGED <<serial, origin, from, toId, toAddr>>
    BY <1>8 DEF Clear, Step, reply, heap
  <2>2. \A v \in Worker : /\ pc[v] # "start" => pc'[v] # "start"
                          /\ v # p => pc'[v] = pc[v]
    BY <2>1 DEF TypeOK
  <2>3. \A v \in Worker : converted(v)' = converted(v) /\ Ours(v) \subseteq Ours(v)'
    BY <2>1, <2>2, OursKept
  <2> QED BY <1>1, <2>1, <2>2, <2>3 DEF Confined, TypeOK, Worker
<1>9. ASSUME NEW r \in Requests,
             \/ CheckEmpty(r) \/ CheckTimeout(r) \/ SaveOld(r)
             \/ SetTimeout(r) \/ SetLast(r) \/ FreeOld(r)
      PROVE  Confined'
  <2>1. /\ UNCHANGED <<serial, cell, origin, from, toId, toAddr>>
        /\ pc[r] # "start" /\ r \in Worker /\ r \notin Responses
        /\ \E t \in AddPc \cup {"sent", "busy"} : pc' = [pc EXCEPT ![r] = t]
    BY <1>9 DEF CheckEmpty, CheckTimeout, SaveOld, SetTimeout, SetLast, FreeOld, Free,
                Step, shared, heap, reply, AddPc, Worker
  <2> QED BY <2>1, ConfinedFrame
<1>10. ASSUME NEW p \in Responses,
              \/ Arrive(p) \/ TestEmpty(p) \/ TestLast(p)
              \/ SaveTaken(p) \/ FreeTaken(p)
       PROVE  Confined'
  <2>1. /\ UNCHANGED <<serial, cell, origin, from, toId, toAddr>> /\ p \in Worker
        /\ \E t \in {"test", "testLast", "copyOrigin", "clear", "unmatched", "delivered"} :
             /\ pc' = [pc EXCEPT ![p] = t]
             /\ t = "clear" => pc[p] = "saveOld"
             /\ t = "delivered" => pc[p] = "freeTaken"
    BY <1>10 DEF Arrive, TestEmpty, TestLast, SaveTaken, FreeTaken, Free,
                 Step, shared, heap, reply, Worker
  <2> QED BY <2>1, ConfinedFrame
<1>11. CASE Tick \/ UNCHANGED vars \/ \E w \in Worker : Fault(w)
  <2>1. UNCHANGED <<pc, serial, cell, origin, from, toId, toAddr>>
    BY <1>11 DEF Tick, Fault, vars, shared, heap, reply
  <2> QED BY <2>1 DEF Confined, Ours, converted, SerialOf
<1> QED
  BY <1>2, <1>3, <1>4, <1>5, <1>6, <1>7, <1>8, <1>9, <1>10, <1>11
  DEF Next, addToMap, queryMap
----------------------------------------------------------------------------
(* One worker per cell *)

\* The node in a worker's cell is live, and its request is of that cell.
HasNode(w) ==
  /\ status[Cell(w)] = "live"
  /\ converted(Cell(w)) = converted(w)
  /\ Cell(Cell(w)) = Cell(w)
  /\ pc[Cell(w)] \in FillPc \cup {"sent"}

\* Whatever a cell holds, Table describes it.
LEMMA CellNode ==
  ASSUME TypeOK, Alone, NEW w \in Worker, Cell(w) \in Requests
  PROVE  HasNode(w)
  BY CellTypes DEF Alone, Table, Cell, HasNode, Worker

\* A response is about the cell and the generation of the request it answers.
LEMMA AnswerCell ==
  ASSUME NEW p \in Responses
  PROVE  /\ Answers[p] \in Requests /\ Answers[p] \in Worker /\ p \in Worker
         /\ p \notin Requests
         /\ converted(p) = converted(Answers[p])
         /\ current(p) = current(Answers[p])
  BY IdMapAssumption DEF IdMapAssumption, converted, current, SerialOf, Worker

\* A node that a worker finds in its cell is complete: whoever put it there
\* has left the map.
LEMMA Complete ==
  ASSUME TypeOK, Alone, NEW w \in Worker, InMap(w), Cell(w) \in Requests, Cell(w) # w
  PROVE  /\ pc[Cell(w)] = "sent"
         /\ timeout[Cell(w)] \in Nat /\ timeout[Cell(w)] # Junk
         /\ last[Cell(w)] = current(Cell(w)) /\ last[Cell(w)] # Junk
         /\ origin[Cell(w)] = Cell(w)
         /\ from[Cell(w)] = Cell(w)
<1>1. HasNode(w) /\ Cell(w) \in Worker BY CellNode DEF Worker
<1>2. pc[Cell(w)] = "sent"
  BY <1>1 DEF HasNode, Alone, Exclusive, InMap, FillPc, AddPc
<1>3. current(Cell(w)) \in Nat BY <1>1, CellTypes
<1> QED
  BY <1>2, <1>3, IdMapAssumption DEF IdMapAssumption, Alone, Fields, Written

\* A worker that meets another request's node where its own was expected
\* comes too late: the request was answered, or its mapping had expired.
LEMMA TooLate ==
  ASSUME TypeOK, Tickets, Alone, NEW p \in Responses,
         pc[p] \in {"test", "testLast"}, Cell(p) # Answers[p]
  PROVE  \/ \E q \in Responses : pc[q] = "delivered" /\ toAddr[q] = Answers[p]
         \/ timeout[Answers[p]] <= clock
<1> DEFINE m == Answers[p]
<1>1. /\ m \in Requests /\ m \in Worker /\ p \in Worker
      /\ converted(p) = converted(m) /\ pc[m] = "sent"
  BY AnswerCell DEF Tickets
<1>2. Cell(m) # m BY <1>1 DEF Cell
<1>3. CASE timeout[m] <= clock BY <1>3
<1>4. CASE \E q \in Responses : pc[q] \in {"freeTaken", "delivered"} /\ toAddr[q] = m
  <2>1. PICK q \in Responses : pc[q] \in {"freeTaken", "delivered"} /\ toAddr[q] = m
    BY <1>4
  <2>2. CASE pc[q] = "freeTaken"
    <3>1. converted(q) = converted(m) /\ q \in Worker
      BY <2>1, <2>2 DEF Alone, Queriers, Querier, Taken, Matches, Worker
    <3>2. InMap(q) /\ InMap(p) /\ q # p
      BY <2>2 DEF InMap, QueryPc
    <3> QED BY <1>1, <3>1, <3>2 DEF Alone, Exclusive
  <2> QED BY <2>1, <2>2
<1> QED BY <1>1, <1>2, <1>3, <1>4 DEF Alone, Kept

\* The node that queryMap is about to hand out is the relayed request's, or
\* belongs to a request that drew the same serial in a later round.
LEMMA MatchesHeld ==
  ASSUME TypeOK, Tickets, Alone, NEW p \in Responses, pc[p] = "clear"
  PROVE  Matches(Cell(p), p)
<1> DEFINE n == Cell(p)
           m == Answers[p]
<1>1. /\ m \in Requests /\ m \in Worker /\ p \in Worker /\ p \notin Requests
      /\ converted(p) = converted(m) /\ current(p) = current(m)
      /\ pc[m] = "sent" /\ InMap(p)
  BY AnswerCell DEF Tickets, InMap, QueryPc
<1>2. /\ n # NULL /\ last[n] = current(p)
      /\ toId[p] = n /\ toAddr[p] = n
  BY DEF Alone, Queriers, Querier, HoldPc
<1>3. n \in Requests /\ n # p /\ n \in Worker
  BY <1>1, <1>2, CellTypes DEF Worker
<1>4. /\ pc[n] = "sent" /\ last[n] = current(n)
      /\ converted(n) = converted(p) /\ Cell(n) = n
  BY <1>1, <1>3, Complete, CellNode DEF HasNode
<1>5. serial[n] = serial[m]
  <2>1. serial[n] % MapSize = serial[m] % MapSize
    BY <1>1, <1>3, <1>4 DEF converted, SerialOf
  <2>2. serial[n] \div MapSize = serial[m] \div MapSize
    BY <1>1, <1>2, <1>3, <1>4 DEF current, SerialOf
  <2>3. serial[n] \in Nat /\ serial[m] \in Nat /\ MapSize \in Nat \ {0}
    BY <1>1, <1>3, IdMapAssumption DEF IdMapAssumption, TypeOK
  <2> QED BY <2>1, <2>2, <2>3, DivModUnique
<1>6. n = m \/ roundOf[n] > roundOf[m]
  BY <1>1, <1>3, <1>4, <1>5 DEF Alone, Later
<1> QED BY <1>2, <1>3, <1>4, <1>5, <1>6 DEF Matches

\* The step of a worker in the map that touches nothing of the others: their
\* locals, their cells, the fields of their nodes.
Aside(v) ==
  /\ InMap(v)
  /\ UNCHANGED <<crashed, clock, serial, roundOf>>
  /\ \A w \in Worker : w # v => pc'[w] = pc[w] /\ temp'[w] = temp[w]
  /\ \A p \in Responses : p # v => toId'[p] = toId[p] /\ toAddr'[p] = toAddr[p]
  /\ \A c \in 0 .. MapSize - 1 : c # converted(v) => cell'[c] = cell[c]
  /\ \A n \in Requests : n # v =>
       /\ timeout'[n] = timeout[n] /\ origin'[n] = origin[n]
       /\ last'[n] = last[n] /\ from'[n] = from[n]
       /\ status[n] # "live" \/ converted(n) # converted(v) => status'[n] = status[n]

\* Such a step keeps what the others know.
LEMMA OthersKeep ==
  ASSUME TypeOK, Tickets, Alone, NEW v \in Worker, Aside(v)
  PROVE  /\ \A w \in Worker :
              /\ converted(w)' = converted(w) /\ current(w)' = current(w)
              /\ w # v => (InMap(w)' <=> InMap(w))
              /\ converted(w) # converted(v) => Cell(w)' = Cell(w)
              /\ InMap(w) /\ w # v => converted(w) # converted(v)
         /\ Exclusive'
         /\ \A n \in Requests : n # v => Written(n)' /\ Adder(n)'
         /\ \A p \in Responses : p # v =>
              /\ Querier(p)'
              /\ pc[p] = "unmatched" =>
                   \/ \E q \in Responses : pc'[q] = "delivered" /\ toAddr'[q] = Answers[p]
                   \/ timeout'[Answers[p]] <= clock
<1> USE IdMapAssumption DEF IdMapAssumption
<1>1. \A w \in Worker :
        /\ converted(w)' = converted(w) /\ current(w)' = current(w)
        /\ w # v => (InMap(w)' <=> InMap(w))
  BY DEF Aside, converted, current, SerialOf, InMap
<1>2. \A w \in Worker :
        /\ converted(w) # converted(v) => Cell(w)' = Cell(w)
        /\ InMap(w) /\ w # v => converted(w) # converted(v)
  BY <1>1, CellTypes DEF Aside, Cell, Alone, Exclusive
<1>3. Exclusive' BY <1>1, <1>2 DEF Aside, Alone, Exclusive
<1>4. \A n \in Requests : Live(n) /\ pc[n] = "sent" /\ converted(n) # converted(v) =>
        Live(n)' /\ pc'[n] = "sent" /\ converted(n)' = converted(n)
  BY <1>1 DEF Aside, Live, Worker, InMap, AddPc, QueryPc
<1>5. \A w \in Worker : InMap(w) /\ w # v /\ Taken(w) => Taken(w)'
  BY <1>1, <1>2, <1>4 DEF Aside, Taken
<1>6. ASSUME NEW n \in Requests, n # v PROVE Written(n)'
  <2>1. Written(n) BY DEF Alone, Fields
  <2>2. current(n)' = current(n) /\ pc'[n] = pc[n] BY <1>1, <1>6 DEF Aside, Worker
  <2> QED BY <1>6, <2>1, <2>2 DEF Aside, Written
<1>7. ASSUME NEW r \in Requests, r # v PROVE Adder(r)'
  <2>1. Adder(r) /\ pc'[r] = pc[r] /\ temp'[r] = temp[r]
    BY <1>7 DEF Alone, Adders, Aside, Worker
  <2>2. CASE InMap(r)
    <3>1. Cell(r)' = Cell(r) /\ (Taken(r) => Taken(r)')
      BY <1>2, <1>5, <1>7, <2>2 DEF Worker
    <3>2. Cell(r) # NULL => timeout'[Cell(r)] = timeout[Cell(r)]
      BY <1>2, <1>7, <2>2, CellTypes, CellNode DEF Aside, HasNode, Worker
    <3> QED BY <2>1, <3>1, <3>2 DEF Aside, Adder
  <2>3. CASE ~InMap(r)
    BY <2>1, <2>3 DEF Adder, InMap, AddPc, FillPc
  <2> QED BY <2>2, <2>3
<1>8. ASSUME NEW p \in Responses, p # v PROVE Querier(p)'
  <2>1. /\ Querier(p) /\ pc'[p] = pc[p] /\ temp'[p] = temp[p]
        /\ toId'[p] = toId[p] /\ toAddr'[p] = toAddr[p]
    BY <1>8 DEF Alone, Queriers, Aside, Worker
  <2>2. \A n : Matches(n, p) => Matches(n, p)'
    BY <2>1 DEF Matches, Aside, InMap, AddPc, QueryPc, Worker
  <2>3. CASE InMap(p)
    <3>1. Cell(p)' = Cell(p) /\ (Taken(p) => Taken(p)') /\ current(p)' = current(p)
      BY <1>1, <1>2, <1>5, <1>8, <2>3 DEF Worker
    <3>2. Cell(p) # NULL => last'[Cell(p)] = last[Cell(p)]
      BY <1>2, <1>8, <2>3, CellTypes, CellNode DEF Aside, HasNode, Worker
    <3>3. pc[p] = "freeTaken" => Taken(p)' /\ Matches(temp[p], p)'
      BY <2>1, <2>2, <3>1 DEF Querier
    <3>4. pc[p] \notin {"unmatched", "delivered", "start"}
      BY <2>3, IdMapAssumption DEF IdMapAssumption, InMap, AddPc, QueryPc
    <3> QED BY <2>1, <3>1, <3>2, <3>3, <3>4 DEF Querier
  <2>4. CASE ~InMap(p)
    <3>1. pc[p] = "delivered" => status'[toAddr[p]] = "freed"
      BY <2>1 DEF Querier, Matches, Aside, InMap, AddPc, QueryPc, Worker
    <3> QED BY <2>1, <2>2, <2>4, <3>1 DEF Querier, HoldPc, InMap, QueryPc
  <2> QED BY <2>3, <2>4
<1>9. ASSUME NEW p \in Responses, p # v, pc[p] = "unmatched"
      PROVE  \/ \E q \in Responses : pc'[q] = "delivered" /\ toAddr'[q] = Answers[p]
             \/ timeout'[Answers[p]] <= clock
  <2>1. /\ Answers[p] # v /\ Answers[p] \in Requests
        /\ \A q \in Responses : pc[q] = "delivered" => q # v
    BY <1>9, AnswerCell DEF Tickets, Aside, InMap, AddPc, QueryPc
  <2> QED BY <1>9, <2>1 DEF Alone, Missed, Aside, Worker
<1> QED BY <1>1, <1>2, <1>3, <1>6, <1>7, <1>8, <1>9

\* A step that leaves the table and the heap's structure alone: it publishes
\* nothing and frees nothing.
Quiet(v) ==
  /\ UNCHANGED <<cell, status>>
  /\ pc'[v] \notin {"start", "sent", "freeTaken", "delivered"}
  /\ pc[v] \notin {"start", "sent", "freeTaken", "delivered"}
  /\ v \in Requests => pc'[v] \in AddPc \cup {"busy"}
  /\ pc[v] \in FillPc => pc'[v] \in FillPc
  /\ temp[v] = NULL \/ (temp'[v] = temp[v] /\ InMap(v)')

\* A quiet step keeps the table.
LEMMA QuietKeeps ==
  ASSUME TypeOK, Tickets, Alone, NEW v \in Worker, Aside(v), Quiet(v)
  PROVE  Table' /\ Later' /\ Kept' /\ Owned'
<1> USE IdMapAssumption DEF IdMapAssumption
<1>1. \A w \in Worker :
        /\ converted(w)' = converted(w)
        /\ Cell(w)' = Cell(w)
        /\ w # v => pc'[w] = pc[w] /\ temp'[w] = temp[w] /\ (InMap(w)' <=> InMap(w))
  BY OthersKeep DEF Aside, Quiet, Cell
<1>2. Table' BY <1>1 DEF Alone, Table, Quiet, Worker, FillPc
<1>3. Later'
  <2>1. \A n \in Requests : /\ pc'[n] = "sent" => pc[n] = "sent"
                            /\ pc'[n] \in AddPc => pc[n] \in AddPc
    BY <1>1 DEF Quiet, Aside, Worker, InMap, Tickets, AddPc, QueryPc
  <2> QED BY <1>1, <2>1 DEF Alone, Later, Aside, Worker
<1>4. Kept'
  <2> SUFFICES ASSUME NEW m \in Requests, pc'[m] = "sent"
               PROVE  \/ Cell(m)' = m
                      \/ \E q \in Responses : /\ pc'[q] \in {"freeTaken", "delivered"}
                                              /\ toAddr'[q] = m
                      \/ timeout'[m] <= clock
    BY DEF Kept, Aside
  <2>1. m # v /\ pc[m] = "sent" /\ Cell(m)' = Cell(m) /\ timeout'[m] = timeout[m]
    BY <1>1 DEF Quiet, Aside, Worker
  <2>2. \A q \in Responses : pc[q] \in {"freeTaken", "delivered"} =>
          pc'[q] = pc[q] /\ toAddr'[q] = toAddr[q]
    BY <1>1 DEF Quiet, Aside, Worker
  <2> QED BY <2>1, <2>2 DEF Alone, Kept
<1>5. Owned'
  <2> SUFFICES ASSUME NEW n \in Requests, status[n] = "live", Cell(n) # n
               PROVE  \E w \in Worker : InMap(w)' /\ temp'[w] = n
    BY <1>1 DEF Owned, Quiet, Worker
  <2>1. PICK w \in Worker : InMap(w) /\ temp[w] = n BY DEF Alone, Owned
  <2>2. InMap(w)' /\ temp'[w] = n BY <1>1, <2>1 DEF Quiet
  <2> QED BY <2>2
<1> QED BY <1>2, <1>3, <1>4, <1>5

\* What is left to show of a quiet step by a request worker ...
LEMMA QuietAdd ==
  ASSUME TypeOK, Tickets, Alone, NEW r \in Requests, Aside(r), Quiet(r),
         Written(r)', Adder(r)'
  PROVE  Alone'
<1>1. r \in Worker /\ r \notin Responses
  BY IdMapAssumption DEF IdMapAssumption, Worker
<1>2. Missed'
  BY <1>1, OthersKeep DEF Missed, Aside, Worker
<1>3. Table' /\ Later' /\ Kept' /\ Owned' /\ Exclusive' BY <1>1, QuietKeeps, OthersKeep
<1>4. Fields' /\ Adders' /\ Queriers'
  BY <1>1, OthersKeep DEF Fields, Adders, Queriers
<1> QED BY <1>2, <1>3, <1>4 DEF Alone, Aside

\* ... and by a response worker.
LEMMA QuietQuery ==
  ASSUME TypeOK, Tickets, Alone, NEW p \in Responses, Aside(p), Quiet(p),
         Querier(p)',
         pc'[p] = "unmatched" =>
           \/ \E q \in Responses : pc[q] = "delivered" /\ toAddr[q] = Answers[p]
           \/ timeout[Answers[p]] <= clock
  PROVE  Alone'
<1>1. p \in Worker /\ p \notin Requests /\ Answers[p] # p /\ Answers[p] \in Requests
  BY AnswerCell
<1>2. Missed'
  <2> SUFFICES ASSUME NEW q \in Responses, pc'[q] = "unmatched"
               PROVE  \/ \E d \in Responses : pc'[d] = "delivered" /\ toAddr'[d] = Answers[q]
                      \/ timeout'[Answers[q]] <= clock
    BY DEF Missed, Aside
  <2>1. CASE q = p
    BY <1>1, <2>1 DEF Aside, Quiet, Worker
  <2>2. CASE q # p BY <1>1, <2>2, OthersKeep DEF Aside, Worker
  <2> QED BY <2>1, <2>2
<1>3. Table' /\ Later' /\ Kept' /\ Owned' /\ Exclusive' BY <1>1, QuietKeeps, OthersKeep
<1>4. Fields' /\ Adders' /\ Queriers'
  BY <1>1, OthersKeep DEF Fields, Adders, Queriers
<1> QED BY <1>2, <1>3, <1>4 DEF Alone, Aside

----------------------------------------------------------------------------
(* One lemma per step of addToMap *)

\* The first test only reads the cell.
LEMMA CheckEmptyAlone ==
  ASSUME TypeOK, Tickets, Alone, NEW r \in Requests, CheckEmpty(r)
  PROVE  Alone'
<1>1. /\ pc[r] = "check" /\ r \in Worker
      /\ pc' = [pc EXCEPT ![r] = IF Cell(r) = NULL THEN "save" ELSE "checkTime"]
      /\ UNCHANGED <<shared, serial, temp, reply, history>>
  BY DEF CheckEmpty, Step, Worker
<1>2. Written(r) /\ Adder(r) BY DEF Alone, Fields, Adders
<1>3. Aside(r) /\ Quiet(r)
  BY <1>1, <1>2 DEF Aside, Quiet, InMap, AddPc, FillPc, Adder, TypeOK, shared,
                    heap, reply, history, Worker
<1>4. Written(r)' /\ Adder(r)'
  BY <1>1, <1>2 DEF Written, Adder, EarlyPc, FillPc, TypeOK, Cell, converted,
                    SerialOf, shared, heap
<1> QED BY <1>3, <1>4, QuietAdd

\* The node found is complete, so that its expiry can be trusted.
LEMMA CheckTimeoutAlone ==
  ASSUME TypeOK, Tickets, Alone, NEW r \in Requests, CheckTimeout(r)
  PROVE  Alone'
<1>1. /\ pc[r] = "checkTime" /\ r \in Worker /\ Live(Cell(r))
      /\ \E t \in {"busy", "save"} :
           /\ pc' = [pc EXCEPT ![r] = t]
           /\ t = "save" /\ timeout[Cell(r)] # Junk => timeout[Cell(r)] <= clock
      /\ UNCHANGED <<shared, serial, temp, reply, history>>
  BY DEF CheckTimeout, Step, Worker
<1>2. Written(r) /\ Adder(r) BY DEF Alone, Fields, Adders
<1>3. Aside(r) /\ Quiet(r)
  BY <1>1, <1>2 DEF Aside, Quiet, InMap, AddPc, FillPc, Adder, TypeOK, shared,
                    heap, reply, history, Worker
<1>4. timeout[Cell(r)] # Junk
  <2>1. Cell(r) \in Requests /\ InMap(r)
    BY <1>1, CellTypes DEF Live, InMap, AddPc
  <2>2. Cell(r) # r
    BY <1>1, <2>1, CellNode DEF HasNode, FillPc
  <2> QED BY <1>1, <2>1, <2>2, Complete
<1>5. Written(r)' /\ Adder(r)'
  BY <1>1, <1>2, <1>4 DEF Written, Adder, EarlyPc, FillPc, TypeOK, Cell, converted,
                          SerialOf, shared, heap
<1> QED BY <1>3, <1>5, QuietAdd

\* The node to be replaced is the one that was tested.
LEMMA SaveOldAlone ==
  ASSUME TypeOK, Tickets, Alone, NEW r \in Requests, SaveOld(r)
  PROVE  Alone'
<1>1. /\ pc[r] = "save" /\ r \in Worker
      /\ pc' = [pc EXCEPT ![r] = "publish"]
      /\ temp' = [temp EXCEPT ![r] = Cell(r)]
      /\ UNCHANGED <<shared, serial, reply, history>>
  BY DEF SaveOld, Step, Worker
<1>2. Written(r) /\ Adder(r) BY DEF Alone, Fields, Adders
<1>3. Aside(r) /\ Quiet(r)
  BY <1>1, <1>2 DEF Aside, Quiet, InMap, AddPc, FillPc, Adder, TypeOK, shared,
                    heap, reply, history, Worker
<1>4. Written(r)' /\ Adder(r)'
  BY <1>1, <1>2 DEF Written, Adder, EarlyPc, FillPc, TypeOK, Cell, converted,
                    SerialOf, shared, heap
<1> QED BY <1>3, <1>4, QuietAdd

\* The cell still holds the new node: each of the four stores hits it.
LEMMA FillAlone ==
  ASSUME TypeOK, Tickets, Alone, NEW r \in Requests,
         SetTimeout(r) \/ SetOrigin(r) \/ SetLast(r) \/ SetFrom(r)
  PROVE  Alone'
<1>1. /\ pc[r] \in FillPc \ {"freeOld"} /\ r \in Worker
      /\ \E t \in FillPc \ {"setTimeout"} : pc' = [pc EXCEPT ![r] = t]
      /\ UNCHANGED <<alloc, cell, status, clock, crashed, serial, temp, reply, history>>
  BY DEF SetTimeout, SetOrigin, SetLast, SetFrom, Step, Worker, FillPc
<1>2. Written(r) /\ Adder(r) /\ Cell(r) = r
  BY <1>1 DEF Alone, Fields, Adders, Adder, FillPc
<1>3. \A n \in Requests : n # r =>
        /\ timeout'[n] = timeout[n] /\ origin'[n] = origin[n]
        /\ last'[n] = last[n] /\ from'[n] = from[n]
  BY <1>2 DEF SetTimeout, SetOrigin, SetLast, SetFrom, TypeOK
<1>4. Aside(r) /\ Quiet(r)
  BY <1>1, <1>2, <1>3 DEF Aside, Quiet, InMap, AddPc, FillPc, Adder, TypeOK, reply,
                          history, Worker
<1>5. current(r)' = current(r) BY <1>1 DEF current, SerialOf
<1>6. Written(r)'
  <2>1. CASE SetTimeout(r)
    <3>1. clock + ConvertTTL \in Nat
      BY IdMapAssumption DEF IdMapAssumption, TypeOK
    <3> QED BY <1>2, <2>1, <3>1 DEF SetTimeout, Step, TypeOK, Written, EarlyPc
  <2>2. CASE SetOrigin(r)
    BY <1>2, <2>2 DEF SetOrigin, Step, TypeOK, Written, EarlyPc, FillPc
  <2>3. CASE SetLast(r)
    BY <1>2, <1>5, <2>3 DEF SetLast, Step, TypeOK, Written, EarlyPc, FillPc
  <2>4. CASE SetFrom(r)
    BY <1>2, <1>5, <2>4 DEF SetFrom, Step, TypeOK, Written, EarlyPc, FillPc
  <2> QED BY <2>1, <2>2, <2>3, <2>4
<1>7. Adder(r)'
  <2>1. Cell(r)' = Cell(r) /\ pc'[r] \in FillPc
    BY <1>1 DEF Cell, converted, SerialOf, TypeOK
  <2>2. Taken(r) => Taken(r)'
    BY <1>1, <2>1 DEF Taken, Live, converted, SerialOf, TypeOK, FillPc
  <2> QED BY <1>1, <1>2, <2>1, <2>2 DEF Adder, FillPc
<1> QED BY <1>4, <1>6, <1>7, QuietAdd

----------------------------------------------------------------------------
(* One lemma per step of queryMap *)

\* An empty cell means that the reply comes too late.
LEMMA TestEmptyAlone ==
  ASSUME TypeOK, Tickets, Alone, NEW p \in Responses, TestEmpty(p)
  PROVE  Alone'
<1>1. /\ pc[p] = "test" /\ p \in Worker /\ p \notin Requests
      /\ pc' = [pc EXCEPT ![p] = IF Cell(p) = NULL THEN "unmatched" ELSE "testLast"]
      /\ UNCHANGED <<shared, serial, temp, reply, history>>
  BY AnswerCell DEF TestEmpty, Step
<1>2. Querier(p) BY DEF Alone, Queriers
<1>3. Aside(p) /\ Quiet(p)
  BY <1>1, <1>2 DEF Aside, Quiet, InMap, QueryPc, FillPc, Querier, HoldPc, TypeOK,
                    shared, heap, reply, history
<1>4. Querier(p)'
  BY <1>1, <1>2 DEF Querier, HoldPc, TypeOK, Cell, converted, SerialOf, shared
<1>5. Cell(p) = NULL => Cell(p) # Answers[p]
  BY AnswerCell, IdMapAssumption DEF IdMapAssumption
<1>6. pc'[p] = "unmatched" => Cell(p) = NULL BY <1>1 DEF TypeOK
<1> QED BY <1>1, <1>3, <1>4, <1>5, <1>6, TooLate, QuietQuery

\* A node of another generation means the same.
LEMMA TestLastAlone ==
  ASSUME TypeOK, Tickets, Alone, NEW p \in Responses, TestLast(p)
  PROVE  Alone'
<1>1. /\ pc[p] = "testLast" /\ p \in Worker /\ p \notin Requests /\ Live(Cell(p))
      /\ \E t \in {"unmatched", "copyOrigin"} :
           /\ pc' = [pc EXCEPT ![p] = t]
           /\ last[Cell(p)] # Junk => (t = "copyOrigin" <=> last[Cell(p)] = current(p))
      /\ UNCHANGED <<shared, serial, temp, reply, history>>
  BY AnswerCell DEF TestLast, Step
<1>2. Querier(p) BY DEF Alone, Queriers
<1>3. Aside(p) /\ Quiet(p)
  BY <1>1, <1>2 DEF Aside, Quiet, InMap, QueryPc, FillPc, Querier, HoldPc, TypeOK,
                    shared, heap, reply, history
<1>4. last[Cell(p)] = current(Cell(p)) /\ last[Cell(p)] # Junk
  BY <1>1, CellTypes, Complete DEF Live, InMap, QueryPc
<1>5. Querier(p)'
  BY <1>1, <1>2, <1>4 DEF Querier, HoldPc, TypeOK, Cell, converted, current, SerialOf,
                          shared, heap
<1>6. pc'[p] = "unmatched" => Cell(p) # Answers[p]
  BY <1>1, <1>4, AnswerCell DEF TypeOK
<1> QED BY <1>1, <1>3, <1>5, <1>6, TooLate, QuietQuery

\* What is copied is the identifier of the node in the cell ...
LEMMA CopyOriginAlone ==
  ASSUME TypeOK, Tickets, Alone, NEW p \in Responses, CopyOrigin(p)
  PROVE  Alone'
<1>1. /\ pc[p] = "copyOrigin" /\ p \in Worker /\ p \notin Requests /\ Live(Cell(p))
      /\ pc' = [pc EXCEPT ![p] = "copyFrom"]
      /\ toId' = [toId EXCEPT ![p] = origin[Cell(p)]]
      /\ UNCHANGED <<shared, serial, temp, toAddr, history>>
  BY AnswerCell DEF CopyOrigin, Step
<1>2. Querier(p) BY DEF Alone, Queriers
<1>3. Aside(p) /\ Quiet(p)
  BY <1>1, <1>2 DEF Aside, Quiet, InMap, QueryPc, FillPc, Querier, HoldPc, TypeOK,
                    shared, heap, history
<1>4. origin[Cell(p)] = Cell(p)
  BY <1>1, CellTypes, Complete DEF Live, InMap, QueryPc
<1>5. Querier(p)'
  BY <1>1, <1>2, <1>4 DEF Querier, HoldPc, TypeOK, Cell, converted, current, SerialOf,
                          shared, heap
<1> QED BY <1>1, <1>3, <1>5, QuietQuery

\* ... and its address.
LEMMA CopyFromAlone ==
  ASSUME TypeOK, Tickets, Alone, NEW p \in Responses, CopyFrom(p)
  PROVE  Alone'
<1>1. /\ pc[p] = "copyFrom" /\ p \in Worker /\ p \notin Requests /\ Live(Cell(p))
      /\ pc' = [pc EXCEPT ![p] = "saveOld"]
      /\ toAddr' = [toAddr EXCEPT ![p] = from[Cell(p)]]
      /\ UNCHANGED <<shared, serial, temp, toId, history>>
  BY AnswerCell DEF CopyFrom, Step
<1>2. Querier(p) BY DEF Alone, Queriers
<1>3. Aside(p) /\ Quiet(p)
  BY <1>1, <1>2 DEF Aside, Quiet, InMap, QueryPc, FillPc, Querier, HoldPc, TypeOK,
                    shared, heap, history
<1>4. from[Cell(p)] = Cell(p)
  BY <1>1, CellTypes, Complete DEF Live, InMap, QueryPc
<1>5. Querier(p)'
  BY <1>1, <1>2, <1>4 DEF Querier, HoldPc, TypeOK, Cell, converted, current, SerialOf,
                          shared, heap
<1> QED BY <1>1, <1>3, <1>5, QuietQuery

\* The node taken is the node that was copied.
LEMMA SaveTakenAlone ==
  ASSUME TypeOK, Tickets, Alone, NEW p \in Responses, SaveTaken(p)
  PROVE  Alone'
<1>1. /\ pc[p] = "saveOld" /\ p \in Worker /\ p \notin Requests
      /\ pc' = [pc EXCEPT ![p] = "clear"]
      /\ temp' = [temp EXCEPT ![p] = Cell(p)]
      /\ UNCHANGED <<shared, serial, reply, history>>
  BY AnswerCell DEF SaveTaken, Step
<1>2. Querier(p) BY DEF Alone, Queriers
<1>3. Aside(p) /\ Quiet(p)
  BY <1>1, <1>2 DEF Aside, Quiet, InMap, QueryPc, FillPc, Querier, HoldPc, TypeOK,
                    shared, heap, reply, history
<1>4. Querier(p)'
  BY <1>1, <1>2 DEF Querier, HoldPc, TypeOK, Cell, converted, current, SerialOf,
                    shared, heap, reply
<1> QED BY <1>1, <1>3, <1>4, QuietQuery

----------------------------------------------------------------------------
(* The steps that change the table or free a node *)

\* Entering the map on a cell that nobody is at.
LEMMA ArriveAlone ==
  ASSUME TypeOK, Tickets, Alone, NEW p \in Responses, Arrive(p), ~overlap'
  PROVE  Alone'
<1>1. /\ pc[p] = "start" /\ p \in Worker /\ p \notin Requests
      /\ pc' = [pc EXCEPT ![p] = "test"]
      /\ \A w \in Worker : InMap(w) => converted(w) # converted(p)
      /\ UNCHANGED <<shared, serial, temp, reply, round, roundOf>>
  BY AnswerCell DEF Arrive, Step, Enter
<1>2. \A w \in Worker :
        /\ converted(w)' = converted(w) /\ current(w)' = current(w)
        /\ Cell(w)' = Cell(w)
        /\ w # p => pc'[w] = pc[w] /\ (InMap(w)' <=> InMap(w))
  BY <1>1 DEF converted, current, SerialOf, Cell, InMap, TypeOK, shared
<1>3. Exclusive' BY <1>1, <1>2 DEF Alone, Exclusive
<1>4. \A r \in Requests : pc'[r] = pc[r] BY <1>1 DEF TypeOK
<1>5. Table' /\ Later'
  BY <1>1, <1>2, <1>4 DEF Alone, Table, Later, shared, heap, Worker
<1>6. Fields' BY <1>1, <1>2, <1>4 DEF Alone, Fields, Written, shared, heap, Worker
<1>7. \A w \in Worker : Taken(w) => Taken(w)'
  BY <1>1, <1>2, <1>4 DEF Taken, Live, shared, heap, Worker
<1>8. Adders'
  BY <1>1, <1>2, <1>4, <1>7 DEF Alone, Adders, Adder, shared, heap, Worker
<1>9. \A q \in Responses, n \in Requests : Matches(n, q) => Matches(n, q)'
  BY <1>1, <1>4 DEF Matches, reply
<1>10. Queriers'
  <2> SUFFICES ASSUME NEW q \in Responses PROVE Querier(q)' BY DEF Queriers
  <2>1. Querier(q) BY DEF Alone, Queriers
  <2>2. CASE q = p BY <1>1, <2>1, <2>2 DEF Querier, HoldPc, TypeOK
  <2>3. CASE q # p
    BY <1>1, <1>2, <1>4, <2>1, <2>3
    DEF Querier, Taken, Live, Matches, shared, heap, reply, Worker
  <2> QED BY <2>2, <2>3
<1>11. Kept' /\ Missed'
  BY <1>1, <1>2, <1>4 DEF Alone, Kept, Missed, shared, heap, reply, Worker, TypeOK
<1>12. Owned'
  <2> SUFFICES ASSUME NEW n \in Requests, status[n] = "live", Cell(n) # n
               PROVE  \E w \in Worker : InMap(w)' /\ temp'[w] = n
    BY <1>1, <1>2 DEF Owned, shared, heap, Worker
  <2>1. PICK w \in Worker : InMap(w) /\ temp[w] = n BY DEF Alone, Owned
  <2> QED BY <1>1, <1>2, <2>1 DEF InMap, AddPc, QueryPc
<1> QED
  BY <1>1, <1>3, <1>5, <1>6, <1>8, <1>10, <1>11, <1>12 DEF Alone, shared

\* The replaced node has expired, so that its request loses no claim.
LEMMA PublishAlone ==
  ASSUME TypeOK, Tickets, Alone, NEW r \in Requests, Publish(r)
  PROVE  Alone'
<1>1. /\ pc[r] = "publish" /\ r \in Worker /\ r \notin Responses /\ InMap(r)
      /\ pc' = [pc EXCEPT ![r] = "setTimeout"]
      /\ status' = [status EXCEPT ![r] = "live"]
      /\ cell' = [cell EXCEPT ![converted(r)] = r]
      /\ UNCHANGED <<alloc, timeout, origin, last, from, clock, crashed>>
      /\ UNCHANGED <<serial, temp, reply, history>>
  BY IdMapAssumption DEF IdMapAssumption, Publish, Step, Worker, InMap, AddPc
<1>2. Written(r) /\ Adder(r) BY DEF Alone, Fields, Adders
<1>3. Aside(r)
  BY <1>1 DEF Aside, TypeOK, reply, history
<1>4. \A w \in Worker : Cell(w)' = IF converted(w) = converted(r) THEN r ELSE Cell(w)
  BY <1>1, <1>3, OthersKeep, CellTypes DEF Cell, TypeOK
<1>5. \A w \in Worker : converted(w)' = converted(w) /\ (w # r => pc'[w] = pc[w])
  BY <1>1, <1>3, OthersKeep DEF Aside
<1>6. Cell(r) # NULL =>
        /\ Cell(r) \in Requests /\ HasNode(r) /\ Cell(r) # r
        /\ pc[Cell(r)] = "sent" /\ timeout[Cell(r)] <= clock
  BY <1>1, <1>2, CellTypes, CellNode, Complete DEF HasNode, FillPc, Adder
<1>7. Table'
  BY <1>1, <1>5, CellTypes DEF Alone, Table, TypeOK, Worker, FillPc
<1>8. Later'
  <2>1. \A n \in Requests : pc'[n] = "sent" => pc[n] = "sent"
    BY <1>1, <1>5 DEF TypeOK, Worker
  <2>2. \A n \in Requests : pc'[n] \in AddPc \/ Cell(n)' = n => pc[n] \in AddPc \/ Cell(n) = n
    BY <1>1, <1>4, <1>5 DEF Worker, AddPc
  <2> QED BY <1>1, <2>1, <2>2 DEF Alone, Later, history
<1>9. Kept'
  <2> SUFFICES ASSUME NEW m \in Requests, pc[m] = "sent"
               PROVE  \/ Cell(m)' = m
                      \/ \E q \in Responses : /\ pc'[q] \in {"freeTaken", "delivered"}
                                              /\ toAddr[q] = m
                      \/ timeout[m] <= clock
    BY <1>1 DEF Kept, TypeOK, reply
  <2>1. CASE Cell(m) = m /\ converted(m) = converted(r)
    BY <1>6, <2>1, IdMapAssumption DEF IdMapAssumption, Cell
  <2>2. CASE Cell(m) = m /\ converted(m) # converted(r)
    BY <1>4, <2>2 DEF Worker
  <2>3. CASE Cell(m) # m
    <3>1. \A q \in Responses : pc'[q] = pc[q] BY <1>1, <1>5 DEF Worker
    <3> QED BY <2>3, <3>1 DEF Alone, Kept
  <2> QED BY <2>1, <2>2, <2>3
<1>10. Owned'
  <2> SUFFICES ASSUME NEW n \in Requests, status'[n] = "live"
               PROVE  Cell(n)' = n \/ \E w \in Worker : InMap(w)' /\ temp[w] = n
    BY <1>1 DEF Owned
  <2>1. CASE n = r BY <1>4, <2>1 DEF Worker
  <2>2. CASE n # r /\ Cell(n) = n /\ converted(n) = converted(r)
    <3>1. temp[r] = n BY <1>1, <1>2, <2>2 DEF Adder, Cell
    <3> QED BY <1>1, <3>1 DEF InMap, AddPc, TypeOK
  <2>3. CASE n # r /\ Cell(n) = n /\ converted(n) # converted(r)
    BY <1>4, <2>3 DEF Worker
  <2>4. CASE n # r /\ Cell(n) # n
    <3>1. PICK w \in Worker : InMap(w) /\ temp[w] = n
      BY <1>1, <2>4 DEF Alone, Owned, TypeOK
    <3>2. InMap(w)' BY <1>1, <1>3, <3>1, OthersKeep DEF TypeOK, InMap, AddPc
    <3> QED BY <3>1, <3>2
  <2> QED BY <2>1, <2>2, <2>3, <2>4
<1>11. Written(r)' BY <1>1, <1>2 DEF Written, EarlyPc, FillPc, TypeOK
<1>12. Adder(r)'
  BY <1>1, <1>2, <1>4, <1>5, <1>6 DEF Adder, FillPc, Taken, Live, HasNode, TypeOK, Worker
<1>13. Missed' BY <1>1, <1>3, OthersKeep DEF Missed, Aside, Worker
<1>14. Fields' /\ Adders' /\ Queriers' /\ Exclusive'
  BY <1>1, <1>3, <1>11, <1>12, OthersKeep DEF Fields, Adders, Queriers
<1> QED BY <1>1, <1>7, <1>8, <1>9, <1>10, <1>13, <1>14 DEF Alone

\* The node leaves the table; its mapping is in the reply.
LEMMA ClearAlone ==
  ASSUME TypeOK, Tickets, Alone, NEW p \in Responses, Clear(p)
  PROVE  Alone'
<1>1. /\ pc[p] = "clear" /\ p \in Worker /\ p \notin Requests /\ InMap(p)
      /\ pc' = [pc EXCEPT ![p] = "freeTaken"]
      /\ cell' = [cell EXCEPT ![converted(p)] = NULL]
      /\ UNCHANGED <<alloc, heap, clock, crashed, serial, temp, reply, history>>
  BY AnswerCell DEF Clear, Step, InMap, QueryPc
<1>2. Querier(p) BY DEF Alone, Queriers
<1>3. Aside(p)
  BY <1>1 DEF Aside, TypeOK, heap, reply, history
<1>4. \A w \in Worker : Cell(w)' = IF converted(w) = converted(p) THEN NULL ELSE Cell(w)
  BY <1>1, <1>3, OthersKeep, CellTypes DEF Cell, TypeOK
<1>5. \A w \in Worker : converted(w)' = converted(w) /\ (w # p => pc'[w] = pc[w])
  BY <1>1, <1>3, OthersKeep DEF Aside
<1>6. Matches(Cell(p), p) /\ temp[p] = Cell(p) /\ HasNode(p) /\ Cell(p) \in Requests
  BY <1>1, <1>2, MatchesHeld, CellNode DEF Matches, Querier
<1>7. Querier(p)'
  BY <1>1, <1>4, <1>5, <1>6, IdMapAssumption
  DEF IdMapAssumption, Querier, HoldPc, Taken, Matches, Live, HasNode, TypeOK, Worker, heap,
      reply, history
<1>8. Table'
  BY <1>1, <1>5, CellTypes, IdMapAssumption
  DEF IdMapAssumption, Alone, Table, TypeOK, Worker, heap
<1>9. Later'
  <2>1. \A n \in Requests : pc'[n] = pc[n] /\ (Cell(n)' = n => Cell(n) = n)
    BY <1>1, <1>4, <1>5, IdMapAssumption DEF IdMapAssumption, Worker
  <2> QED BY <1>1, <2>1 DEF Alone, Later, history
<1>10. Kept'
  <2> SUFFICES ASSUME NEW m \in Requests, pc[m] = "sent"
               PROVE  \/ Cell(m)' = m
                      \/ \E q \in Responses : /\ pc'[q] \in {"freeTaken", "delivered"}
                                              /\ toAddr[q] = m
                      \/ timeout[m] <= clock
    BY <1>1, <1>5 DEF Kept, heap, reply, Worker
  <2>1. CASE Cell(m) = m /\ converted(m) = converted(p)
    <3>1. pc'[p] = "freeTaken" /\ toAddr[p] = m
      BY <1>1, <1>6, <2>1 DEF Cell, Matches, TypeOK
    <3> QED BY <3>1
  <2>2. CASE Cell(m) = m /\ converted(m) # converted(p)
    BY <1>4, <2>2 DEF Worker
  <2>3. CASE Cell(m) # m
    <3>1. \A q \in Responses : pc[q] \in {"freeTaken", "delivered"} => pc'[q] = pc[q]
      BY <1>1, <1>5 DEF Worker
    <3> QED BY <2>3, <3>1 DEF Alone, Kept
  <2> QED BY <2>1, <2>2, <2>3
<1>11. Owned'
  <2> SUFFICES ASSUME NEW n \in Requests, status[n] = "live"
               PROVE  Cell(n)' = n \/ \E w \in Worker : InMap(w)' /\ temp[w] = n
    BY <1>1 DEF Owned, heap
  <2>1. InMap(p)' BY <1>1 DEF InMap, QueryPc, TypeOK
  <2>2. CASE Cell(n) = n /\ converted(n) = converted(p)
    <3>1. temp[p] = n BY <1>6, <2>2 DEF Cell
    <3> QED BY <1>1, <2>1, <3>1
  <2>3. CASE Cell(n) = n /\ converted(n) # converted(p)
    BY <1>4, <2>3 DEF Worker
  <2>4. CASE Cell(n) # n
    <3>1. PICK w \in Worker : InMap(w) /\ temp[w] = n BY <2>4 DEF Alone, Owned
    <3>2. InMap(w)' BY <1>1, <1>3, <2>1, <3>1, OthersKeep
    <3> QED BY <3>1, <3>2
  <2> QED BY <2>2, <2>3, <2>4
<1>12. Missed'
  <2>1. \A q \in Responses : pc'[q] = "unmatched" => q # p /\ pc[q] = "unmatched"
    BY <1>1 DEF TypeOK, Worker
  <2> QED BY <1>1, <1>3, <2>1, OthersKeep DEF Missed, Aside
<1>13. Fields' /\ Adders' /\ Queriers' /\ Exclusive'
  BY <1>1, <1>3, <1>7, OthersKeep DEF Fields, Adders, Queriers
<1> QED BY <1>1, <1>8, <1>9, <1>10, <1>11, <1>12, <1>13 DEF Alone

\* Freeing disturbs nobody: the node is in no cell and in no other local.
LEMMA FreeKeeps ==
  ASSUME TypeOK, Tickets, Alone, NEW v \in Worker, InMap(v), Free(v),
         temp[v] = NULL \/ Taken(v), NULL \notin Requests,
         NEW t \in {"sent", "delivered"}, pc' = [pc EXCEPT ![v] = t],
         pc[v] \in FillPc => t = "sent",
         UNCHANGED <<alloc, cell, clock, crashed, serial, temp, reply, history>>
  PROVE  /\ Aside(v) /\ Table' /\ Owned'
         /\ \A w \in Worker : Cell(w)' = Cell(w)
<1>1. \A n \in Requests : status'[n] = IF n = temp[v] THEN "freed" ELSE status[n]
  BY DEF Free, TypeOK
<1>2. Aside(v)
  BY <1>1 DEF Aside, Free, TypeOK, Taken, Live, reply, history
<1>3. \A w \in Worker : /\ converted(w)' = converted(w) /\ Cell(w)' = Cell(w)
                        /\ w # v => pc'[w] = pc[w] /\ (InMap(w)' <=> InMap(w))
  BY <1>2, OthersKeep DEF Aside, Cell
<1>4. \A c \in 0 .. MapSize - 1 : cell[c] \in Requests => cell[c] # temp[v]
  BY DEF Alone, Table, Taken, Cell
<1>5. Table'
  <2> SUFFICES ASSUME NEW n \in Requests, NEW c \in 0 .. MapSize - 1, cell[c] = n
               PROVE  /\ status'[n] = "live" /\ converted(n)' = c
                      /\ pc'[n] \in FillPc \cup {"sent"}
    BY DEF Table
  <2>1. /\ status[n] = "live" /\ converted(n) = c /\ n # temp[v]
        /\ pc[n] \in FillPc \cup {"sent"}
    BY <1>4 DEF Alone, Table
  <2>2. pc'[n] \in FillPc \cup {"sent"}
    BY <2>1 DEF TypeOK, InMap, AddPc, QueryPc
  <2> QED BY <1>1, <1>3, <2>1, <2>2 DEF Worker
<1>6. Owned'
  <2> SUFFICES ASSUME NEW n \in Requests, status'[n] = "live", Cell(n) # n
               PROVE  \E w \in Worker : InMap(w)' /\ temp[w] = n
    BY <1>3 DEF Owned, Worker
  <2>1. status[n] = "live" /\ n # temp[v] BY <1>1
  <2>2. PICK w \in Worker : InMap(w) /\ temp[w] = n BY <2>1 DEF Alone, Owned
  <2> QED BY <1>3, <2>1, <2>2
<1> QED BY <1>2, <1>3, <1>5, <1>6

\* The request is relayed: its mapping is complete and the newest of its serial.
LEMMA FreeOldAlone ==
  ASSUME TypeOK, Tickets, Alone, NEW r \in Requests, FreeOld(r)
  PROVE  Alone'
<1> USE IdMapAssumption DEF IdMapAssumption
<1>1. /\ pc[r] = "freeOld" /\ r \in Worker /\ r \notin Responses /\ InMap(r)
      /\ Free(r) /\ pc' = [pc EXCEPT ![r] = "sent"]
      /\ UNCHANGED <<alloc, cell, clock, crashed, serial, temp, reply, history>>
  BY DEF FreeOld, Step, Worker, InMap, AddPc
<1>2. Written(r) /\ Adder(r) /\ Cell(r) = r /\ (temp[r] = NULL \/ Taken(r))
  BY <1>1 DEF Alone, Fields, Adders, Adder, FillPc
<1>3. /\ Aside(r) /\ Table' /\ Owned'
      /\ \A w \in Worker : Cell(w)' = Cell(w)
  BY <1>1, <1>2, FreeKeeps
<1>4. Later'
  <2> SUFFICES ASSUME NEW m \in Requests, NEW n \in Requests, m # n,
                      pc'[m] = "sent", serial[m] = serial[n],
                      pc'[n] \in AddPc \/ Cell(n) = n
               PROVE  roundOf[n] > roundOf[m]
    BY <1>1, <1>3 DEF Later, Worker, history
  <2>1. pc[n] \in AddPc \/ Cell(n) = n BY <1>1 DEF TypeOK, AddPc
  <2>2. CASE m # r BY <1>1, <2>1, <2>2 DEF Alone, Later, TypeOK
  <2>3. CASE m = r
    <3>1. converted(n) = converted(r) BY <2>3 DEF converted, SerialOf
    <3>2. Cell(n) # n BY <1>2, <2>3, <3>1 DEF Cell
    <3>3. InMap(n) /\ n \in Worker BY <2>1, <3>2 DEF InMap, Worker
    <3> QED BY <1>1, <2>3, <3>1, <3>3 DEF Alone, Exclusive
  <2> QED BY <2>2, <2>3
<1>5. Kept'
  <2>1. \A q \in Responses : pc'[q] = pc[q] /\ toAddr'[q] = toAddr[q]
    BY <1>1, <1>3 DEF Aside, Worker
  <2>2. \A m \in Requests : pc'[m] = "sent" =>
          Cell(m)' = Cell(m) /\ timeout'[m] = timeout[m] /\ (pc[m] = "sent" \/ m = r)
    BY <1>1, <1>3 DEF Free, Worker, TypeOK
  <2> QED BY <1>1, <1>2, <2>1, <2>2 DEF Alone, Kept
<1>6. Written(r)' /\ Adder(r)'
  BY <1>1, <1>2 DEF Written, Adder, EarlyPc, FillPc, Free, current, SerialOf, TypeOK
<1>7. Missed' BY <1>1, <1>3, OthersKeep DEF Missed, Aside, Worker
<1>8. Fields' /\ Adders' /\ Queriers' /\ Exclusive'
  BY <1>1, <1>3, <1>6, OthersKeep DEF Fields, Adders, Queriers
<1> QED BY <1>1, <1>3, <1>4, <1>5, <1>7, <1>8 DEF Alone

\* The reply is delivered: its node is gone, so that no copy finds it again.
LEMMA FreeTakenAlone ==
  ASSUME TypeOK, Tickets, Alone, NEW p \in Responses, FreeTaken(p)
  PROVE  Alone'
<1> USE IdMapAssumption DEF IdMapAssumption
<1>1. /\ pc[p] = "freeTaken" /\ p \in Worker /\ p \notin Requests /\ InMap(p)
      /\ Free(p) /\ pc' = [pc EXCEPT ![p] = "delivered"]
      /\ UNCHANGED <<alloc, cell, clock, crashed, serial, temp, reply, history>>
  BY AnswerCell DEF FreeTaken, Step, InMap, QueryPc
<1>2. Taken(p) /\ Matches(temp[p], p)
  BY <1>1 DEF Alone, Queriers, Querier
<1>3. /\ Aside(p) /\ Table' /\ Owned'
      /\ \A w \in Worker : Cell(w)' = Cell(w)
  BY <1>1, <1>2, FreeKeeps DEF FillPc
<1>4. \A r \in Requests : pc'[r] = pc[r] BY <1>1 DEF TypeOK
<1>5. Later' BY <1>1, <1>3, <1>4 DEF Alone, Later, Worker, history
<1>6. Kept'
  <2>1. \A q \in Responses : /\ toAddr'[q] = toAddr[q]
                             /\ pc[q] \in {"freeTaken", "delivered"} =>
                                  pc'[q] \in {"freeTaken", "delivered"}
    BY <1>1, <1>3 DEF TypeOK, Worker, reply
  <2> QED BY <1>1, <1>3, <1>4, <2>1 DEF Alone, Kept, Free, Worker
<1>7. Querier(p)'
  BY <1>1, <1>2, <1>4 DEF Querier, HoldPc, Matches, Taken, Free, TypeOK, reply, history
<1>8. Missed'
  <2>1. \A q \in Responses : pc'[q] = "unmatched" => q # p /\ pc[q] = "unmatched"
    BY <1>1 DEF TypeOK, Worker
  <2> QED BY <1>1, <1>3, <2>1, OthersKeep DEF Missed, Aside
<1>9. Fields' /\ Adders' /\ Queriers' /\ Exclusive'
  BY <1>1, <1>3, <1>7, OthersKeep DEF Fields, Adders, Queriers
<1> QED BY <1>1, <1>3, <1>5, <1>6, <1>8, <1>9 DEF Alone

\* Drawing a serial: nobody else is on its cell, and every relayed request
\* with the same serial drew it in an earlier round.
LEMMA AllocateAlone ==
  ASSUME TypeOK, Tickets, Alone, NEW r \in Requests, Allocate(r), ~overlap'
  PROVE  Alone'
<1> USE IdMapAssumption DEF IdMapAssumption
<1>1. /\ pc[r] = "start" /\ r \in Worker /\ r \notin Responses
      /\ pc' = [pc EXCEPT ![r] = "check"]
      /\ serial' = [serial EXCEPT ![r] = alloc']
      /\ roundOf' = [roundOf EXCEPT ![r] = round']
      /\ \/ alloc' = 0 /\ round' = round + 1
         \/ alloc' = alloc + 1 /\ round' = round
      /\ \A w \in Worker : InMap(w) => converted(w) # alloc' % MapSize
      /\ UNCHANGED <<cell, status, timeout, origin, last, from, clock, crashed,
                     temp, toId, toAddr>>
  BY NextSerialIs DEF Allocate, Step, Enter, TypeOK, heap, reply, Worker
<1>2. \A w \in Worker : w # r /\ (w \in Responses => pc[w] # "start") =>
        /\ converted(w)' = converted(w) /\ current(w)' = current(w)
        /\ Cell(w)' = Cell(w)
        /\ pc'[w] = pc[w] /\ (InMap(w)' <=> InMap(w))
  BY <1>1, AnswerCell DEF converted, current, SerialOf, Cell, InMap, TypeOK, Tickets, Worker
<1>3. converted(r)' = alloc' % MapSize
  BY <1>1 DEF converted, SerialOf, TypeOK
<1>4. \A w \in Worker : Cell(w) \in Requests => HasNode(w)
  BY CellNode
<1>5. \A p \in Responses : pc[p] = "start" => ~InMap(p) /\ ~InMap(p)' /\ pc'[p] = "start"
  BY <1>1 DEF InMap, AddPc, QueryPc, TypeOK, Worker
<1>6. Exclusive'
  BY <1>1, <1>2, <1>3, <1>5 DEF Alone, Exclusive, Worker
<1>7. Table'
  BY <1>1, <1>2 DEF Alone, Table, FillPc, Worker
<1>8. Fields'
  <2> SUFFICES ASSUME NEW n \in Requests PROVE Written(n)' BY DEF Fields
  <2>1. Written(n) BY DEF Alone, Fields
  <2>2. CASE n = r BY <1>1, <2>1, <2>2 DEF Written, EarlyPc, FillPc, TypeOK
  <2>3. CASE n # r BY <1>1, <1>2, <2>1, <2>3 DEF Written, Worker
  <2> QED BY <2>2, <2>3
<1>9. Later'
  <2> SUFFICES ASSUME NEW m \in Requests, NEW n \in Requests, m # n,
                      pc'[m] = "sent", serial'[m] = serial'[n],
                      pc'[n] \in AddPc \/ Cell(n)' = n
               PROVE  roundOf'[n] > roundOf'[m]
    BY DEF Later
  <2>1. m # r /\ pc[m] = "sent" /\ serial'[m] = serial[m] /\ roundOf'[m] = roundOf[m]
    BY <1>1 DEF TypeOK
  <2>2. CASE n = r
    <3>1. serial[m] = alloc' /\ roundOf'[n] = round'
      BY <1>1, <2>1, <2>2 DEF TypeOK
    <3>2. roundOf[m] < round \/ (roundOf[m] = round /\ serial[m] <= alloc)
      BY <2>1 DEF Tickets
    <3> QED BY <1>1, <2>1, <3>1, <3>2 DEF TypeOK
  <2>3. CASE n # r
    <3>1. /\ pc[n] \in AddPc \/ Cell(n) = n
          /\ serial[m] = serial[n] /\ roundOf'[n] = roundOf[n]
      BY <1>1, <1>2, <2>1, <2>3 DEF TypeOK, Worker
    <3> QED BY <2>1, <3>1 DEF Alone, Later
  <2> QED BY <2>2, <2>3
<1>10. Adders'
  <2> SUFFICES ASSUME NEW q \in Requests PROVE Adder(q)' BY DEF Adders
  <2>1. Adder(q) BY DEF Alone, Adders
  <2>2. CASE q = r
    BY <1>1, <2>1, <2>2 DEF Adder, FillPc, TypeOK
  <2>3. CASE q # r
    <3>1. Taken(q) => Taken(q)'
      BY <1>1, <1>2, <2>3 DEF Taken, Live, Worker
    <3> QED BY <1>1, <1>2, <2>1, <2>3, <3>1 DEF Adder, Worker
  <2> QED BY <2>2, <2>3
<1>11. Queriers'
  <2> SUFFICES ASSUME NEW q \in Responses PROVE Querier(q)' BY DEF Queriers
  <2>1. Querier(q) /\ q # r BY <1>1 DEF Alone, Queriers
  <2>2. CASE pc[q] = "start"
    BY <1>1, <1>5, <2>1, <2>2 DEF Querier, HoldPc
  <2>3. CASE pc[q] # "start"
    <3>1. Taken(q) => Taken(q)'
      BY <1>1, <1>2, <2>1, <2>3 DEF Taken, Live, Worker
    <3>2. pc[Answers[q]] = "sent" /\ Answers[q] \in Requests
      BY <2>3, AnswerCell DEF Tickets
    <3>3. \A n : Matches(n, q) => Matches(n, q)'
      BY <1>1, <1>2, <3>2 DEF Matches, TypeOK, Worker
    <3> QED BY <1>1, <1>2, <2>1, <2>3, <3>1, <3>3 DEF Querier, Worker
  <2> QED BY <2>2, <2>3
<1>12. Kept'
  BY <1>1, <1>2 DEF Alone, Kept, Worker, TypeOK
<1>13. Missed'
  BY <1>1 DEF Alone, Missed, Worker, TypeOK
<1>14. ASSUME NEW n \in Requests, status'[n] = "live"
       PROVE  Cell(n)' = n \/ \E w \in Worker : InMap(w)' /\ temp'[w] = n
  <2>1. n # r BY <1>1, <1>14 DEF Alone, Fields, Written, EarlyPc
  <2>2. CASE Cell(n) = n BY <1>2, <2>1, <2>2 DEF Worker
  <2>3. CASE Cell(n) # n
    <3>1. PICK w \in Worker : InMap(w) /\ temp[w] = n
      BY <1>1, <1>14, <2>3 DEF Alone, Owned
    <3>2. w # r /\ (w \in Responses => pc[w] # "start")
      BY <1>1, <3>1 DEF InMap, AddPc, QueryPc
    <3> QED BY <1>1, <1>2, <3>1, <3>2
  <2> QED BY <2>2, <2>3
<1> QED
  BY <1>1, <1>6, <1>7, <1>8, <1>9, <1>10, <1>11, <1>12, <1>13, <1>14 DEF Alone, Owned

\* Without overlap nobody can fault.
LEMMA NobodyFaults ==
  ASSUME TypeOK, Tickets, Alone, NEW w \in Worker
  PROVE  ~Fault(w)
<1> SUFFICES ASSUME Fault(w) PROVE FALSE OBVIOUS
<1>1. CASE pc[w] \in DerefPc /\ ~Live(Cell(w))
  <2>1. Cell(w) = NULL
    BY <1>1, CellTypes, CellNode DEF HasNode, Live
  <2>2. w \in Requests => pc[w] \in {"checkTime"} \cup FillPc
    BY <1>1 DEF Tickets, DerefPc, AddPc, FillPc
  <2>3. w \in Responses => pc[w] \in HoldPc
    BY <1>1 DEF Tickets, DerefPc, QueryPc, HoldPc
  <2> QED
    BY <2>1, <2>2, <2>3, IdMapAssumption
    DEF IdMapAssumption, Alone, Adders, Adder, Queriers, Querier, Worker
<1>2. CASE pc[w] \in FreePc /\ temp[w] # NULL /\ ~Live(temp[w])
  <2>1. w \in Requests => pc[w] = "freeOld"
    BY <1>2 DEF Tickets, FreePc, AddPc
  <2>2. w \in Responses => pc[w] = "freeTaken"
    BY <1>2 DEF Tickets, FreePc, QueryPc
  <2> QED
    BY <1>2, <2>1, <2>2
    DEF Alone, Adders, Adder, Queriers, Querier, FillPc, Taken, Worker
<1> QED BY <1>1, <1>2 DEF Fault

\* Time only lets mappings expire.
LEMMA TickAlone ==
  ASSUME TypeOK, Tickets, Alone, Tick
  PROVE  Alone'
<1>1. /\ clock' = clock + 1 /\ clock \in Nat
      /\ UNCHANGED <<alloc, cell, heap, crashed, pc, serial, temp, reply, history>>
  BY IdMapAssumption DEF IdMapAssumption, Tick, TypeOK
<1>2. \A w : /\ converted(w)' = converted(w) /\ current(w)' = current(w)
             /\ Cell(w)' = Cell(w) /\ (InMap(w)' <=> InMap(w))
  BY <1>1 DEF converted, current, SerialOf, Cell, InMap
<1>3. Exclusive' /\ Table' /\ Later' /\ Owned'
  BY <1>1, <1>2 DEF Alone, Exclusive, Table, Later, Owned, heap, history
<1>4. Fields' BY <1>1, <1>2 DEF Alone, Fields, Written, heap
<1>5. \A n \in Requests : timeout[n] \in Nat \cup {Junk} BY DEF TypeOK
<1>6. Adders'
  <2> SUFFICES ASSUME NEW q \in Requests PROVE Adder(q)' BY DEF Adders
  <2>1. Adder(q) BY DEF Alone, Adders
  <2>2. ASSUME pc[q] \in {"save", "publish"}, Cell(q) # NULL
        PROVE  timeout[Cell(q)] <= clock'
    <3>1. timeout[Cell(q)] \in Nat
      BY <2>2, CellTypes, Complete, IdMapAssumption
      DEF IdMapAssumption, InMap, AddPc, Worker, Alone, Table, Cell, FillPc
    <3> QED BY <1>1, <2>1, <2>2, <3>1 DEF Adder
  <2> QED BY <1>1, <1>2, <2>1, <2>2 DEF Adder, Taken, Live, heap
<1>7. Queriers'
  BY <1>1, <1>2 DEF Alone, Queriers, Querier, Taken, Matches, Live, heap, reply, history
<1>8. \A m \in Requests : pc[m] = "sent" /\ timeout[m] <= clock => timeout[m] <= clock'
  BY <1>1 DEF Alone, Fields, Written
<1>9. Kept' BY <1>1, <1>2, <1>8 DEF Alone, Kept, heap, reply
<1>10. Missed'
  BY <1>1, <1>8, AnswerCell DEF Alone, Missed, Tickets, heap, reply
<1> QED BY <1>1, <1>3, <1>4, <1>6, <1>7, <1>9, <1>10 DEF Alone
----------------------------------------------------------------------------
(* Safety *)

\* The inductive step: each action keeps what one worker per cell may rely on.
LEMMA AloneStep ==
  ASSUME TypeOK, Tickets, Alone, [Next]_vars, ~overlap'
  PROVE  Alone'
<1>1. ASSUME NEW r \in Requests, addToMap(r) PROVE Alone'
  BY <1>1, AllocateAlone, CheckEmptyAlone, CheckTimeoutAlone, SaveOldAlone,
     PublishAlone, FillAlone, FreeOldAlone
  DEF addToMap
<1>2. ASSUME NEW p \in Responses, queryMap(p) PROVE Alone'
  BY <1>2, ArriveAlone, TestEmptyAlone, TestLastAlone, CopyOriginAlone,
     CopyFromAlone, SaveTakenAlone, ClearAlone, FreeTakenAlone
  DEF queryMap
<1>3. ASSUME NEW w \in Worker, Fault(w) PROVE Alone'
  BY <1>3, NobodyFaults
<1>4. CASE Tick BY <1>4, TickAlone
<1>5. CASE UNCHANGED vars
  <2>1. \A w : /\ converted(w)' = converted(w) /\ current(w)' = current(w)
               /\ Cell(w)' = Cell(w) /\ (InMap(w)' <=> InMap(w))
    BY <1>5 DEF vars, shared, converted, current, SerialOf, Cell, InMap
  <2> QED
    BY <1>5, <2>1 DEF vars, shared, heap, reply, history, Alone, Exclusive, Table,
      Fields, Written, Later, Adders, Adder, Queriers, Querier, Taken, Matches,
      Live, Kept, Missed, Owned
<1> QED BY <1>1, <1>2, <1>3, <1>4, <1>5 DEF Next

\* Overlap is never forgotten.
LEMMA OverlapStays == [Next]_vars /\ TypeOK /\ ~overlap' => ~overlap
  BY DEF Next, vars, history, shared, addToMap, queryMap, Allocate, CheckEmpty,
    CheckTimeout, SaveOld, Publish, SetTimeout, SetOrigin, SetLast, SetFrom,
    FreeOld, Arrive, TestEmpty, TestLast, CopyOrigin, CopyFrom, SaveTaken, Clear,
    FreeTaken, Fault, Tick, Enter

\* Nobody has done anything yet.
LEMMA InitInv == Init => IInv /\ Confined
<1> SUFFICES ASSUME Init PROVE IInv /\ Confined OBVIOUS
<1> USE IdMapAssumption DEF IdMapAssumption, Init, Worker
<1>1. TypeOK
  <2>1. overlap \in BOOLEAN /\ crashed \in BOOLEAN OBVIOUS
  <2>2. /\ alloc \in 0 .. SerialMod - 1 /\ clock \in 0 .. MaxClock /\ round \in Nat
        /\ serial \in [Requests -> 0 .. SerialMod - 1]
        /\ roundOf \in [Requests -> Nat]
    OBVIOUS
  <2>3. /\ cell \in [0 .. MapSize - 1 -> Requests \cup {NULL}]
        /\ timeout \in [Requests -> Nat \cup {Junk}]
        /\ last \in [Requests -> Nat \cup {Junk}]
    OBVIOUS
  <2> QED BY <2>1, <2>2, <2>3 DEF TypeOK
<1>2. Tickets BY DEF Tickets
<1>3. \A w \in Worker : ~InMap(w) BY DEF InMap, AddPc, QueryPc
<1>4. \A w \in Worker : Cell(w) = NULL BY <1>1, CellTypes DEF Cell
<1>5. Exclusive /\ Table /\ Later /\ Kept /\ Missed /\ Owned
  BY <1>3, <1>4 DEF Exclusive, Table, Later, Kept, Missed, Owned, AddPc
<1>6. Fields BY DEF Fields, Written, FillPc, EarlyPc
<1>7. Adders BY DEF Adders, Adder, FillPc
<1>8. Queriers BY DEF Queriers, Querier, HoldPc
<1>9. Confined BY DEF Confined, Ours
<1> QED BY <1>1, <1>2, <1>5, <1>6, <1>7, <1>8, <1>9 DEF IInv, Alone

\* The replies handed out so far went to different requests: the node that a
\* worker frees is live, those of the replies before it are not.
LEMMA OnceStep == IInv /\ AtMostOnce /\ [Next]_vars => AtMostOnce'
<1> SUFFICES ASSUME IInv, AtMostOnce, [Next]_vars, ~overlap',
                    NEW p \in Responses, NEW q \in Responses, p # q,
                    pc'[p] = "delivered", pc'[q] = "delivered"
             PROVE  toAddr'[p] # toAddr'[q]
  BY DEF AtMostOnce
<1>1. TypeOK /\ Tickets /\ Alone /\ ~overlap BY OverlapStays DEF IInv
<1>2. ASSUME NEW w \in Responses, pc'[w] = "delivered"
      PROVE  toAddr'[w] = toAddr[w] /\ (pc[w] = "delivered" \/ FreeTaken(w))
  <2>1. CASE \E r \in Requests : addToMap(r)
    <3>1. PICK r \in Requests : addToMap(r) BY <2>1
    <3>2. /\ toAddr' = toAddr
          /\ \E t \in AddPc \cup {"sent", "busy"} : pc' = [pc EXCEPT ![r] = t]
      BY <3>1 DEF addToMap, Allocate, CheckEmpty, CheckTimeout, SaveOld, Publish,
        SetTimeout, SetOrigin, SetLast, SetFrom, FreeOld, Step, AddPc, reply
    <3> QED BY <1>1, <1>2, <3>2, AnswerCell DEF TypeOK, AddPc
  <2>2. CASE \E v \in Responses : queryMap(v) /\ ~FreeTaken(v)
    <3>1. PICK v \in Responses : queryMap(v) /\ ~FreeTaken(v) BY <2>2
    <3>2. /\ toAddr' = toAddr \/ toAddr' = [toAddr EXCEPT ![v] = from[Cell(v)]]
          /\ \E t \in QueryPc \cup {"unmatched"} : pc' = [pc EXCEPT ![v] = t]
      BY <3>1 DEF queryMap, Arrive, TestEmpty, TestLast, CopyOrigin, CopyFrom,
        SaveTaken, Clear, Step, QueryPc, reply
    <3> QED BY <1>1, <1>2, <3>2 DEF TypeOK, QueryPc, Worker
  <2>3. CASE \E v \in Responses : FreeTaken(v)
    BY <1>1, <1>2, <2>3 DEF FreeTaken, Step, TypeOK, reply, Worker
  <2>4. CASE Tick \/ UNCHANGED vars \/ \E v \in Worker : Fault(v)
    BY <1>2, <2>4 DEF Tick, Fault, vars, reply
  <2> QED BY <2>1, <2>2, <2>3, <2>4 DEF Next
<1>3. \A w \in Responses : pc[w] = "delivered" => status[toAddr[w]] = "freed"
  BY <1>1 DEF Alone, Queriers, Querier
<1>4. \A w \in Responses : FreeTaken(w) => status[toAddr[w]] = "live"
  BY <1>1 DEF Alone, Queriers, Querier, FreeTaken, Step, Taken, Matches, Live
<1>5. ~(FreeTaken(p) /\ FreeTaken(q))
  BY <1>1 DEF FreeTaken, Step, TypeOK, Worker
<1> QED BY <1>1, <1>2, <1>3, <1>4, <1>5 DEF AtMostOnce

\* The inductive invariant of IdMapInv, with the uniqueness of replies.
THEOREM Invariance == Spec => [](IInv /\ Confined /\ AtMostOnce)
<1>1. Init => IInv /\ Confined /\ AtMostOnce
  <2>1. Init => AtMostOnce BY DEF Init, AtMostOnce, Worker
  <2> QED BY <2>1, InitInv
<1>2. IInv /\ Confined /\ AtMostOnce /\ [Next]_vars
      => (IInv /\ Confined /\ AtMostOnce)'
  <2> SUFFICES ASSUME IInv, Confined, AtMostOnce, [Next]_vars
               PROVE  IInv' /\ Confined' /\ AtMostOnce'
    OBVIOUS
  <2>1. TypeOK' /\ Tickets' BY TypeStep, TicketsStep DEF IInv
  <2>2. ~overlap' => Alone' BY AloneStep, OverlapStays DEF IInv
  <2>3. Confined' BY ConfinedStep DEF IInv
  <2>4. AtMostOnce' BY OnceStep
  <2> QED BY <2>1, <2>2, <2>3, <2>4 DEF IInv
<1> QED BY <1>1, <1>2, PTL DEF Spec

\* Types: the variables stay within the declarations of map.h and map.c.
THEOREM TypeCorrect == Spec => []TypeOK
<1>1. IInv => TypeOK BY DEF IInv
<1> QED BY <1>1, Invariance, PTL

\* While no two workers share a cell the unlocked map never touches a null or
\* freed node, whatever the workers on other cells do.
THEOREM AloneNeverFaults == Spec => []NoFaultAlone
<1>1. IInv => NoFaultAlone BY DEF IInv, Alone, NoFaultAlone
<1> QED BY <1>1, Invariance, PTL

\* A reply goes to the client whose request was relayed under its serial, or
\* to one that drew the same serial in a later round of the counter.
THEOREM AloneRightClient == Spec => []RightClient
<1>1. IInv => RightClient
  BY DEF IInv, Alone, Queriers, Querier, Matches, RightClient
<1> QED BY <1>1, Invariance, PTL

\* However often the network repeats a reply, the client gets it once.
THEOREM AloneAtMostOnce == Spec => []AtMostOnce
  BY Invariance, PTL

\* A reply in time finds its mapping, unless another copy came before it.
THEOREM AloneNoEarlyDrop == Spec => []NoEarlyDrop
<1>1. IInv => NoEarlyDrop BY DEF IInv, Alone, Missed, NoEarlyDrop
<1> QED BY <1>1, Invariance, PTL

\* No node is ever lost without being freed.
THEOREM AloneNoLeak == Spec => []NoLeak
<1>1. IInv => NoLeak BY DEF IInv, Alone, Owned, NoLeak
<1> QED BY <1>1, Invariance, PTL

\* Even when workers race on a cell, what queryMap hands out before the first
\* access to a node that is not live, or second free of one, comes from requests
\* of that cell, or was never written.
THEOREM RacesStayInCell == Spec => []RaceConfined
<1>1. Confined => RaceConfined BY DEF Confined, Ours, RaceConfined
<1> QED BY <1>1, Invariance, PTL
----------------------------------------------------------------------------
(* IdMap implements IdTable: access by access, and without a lock on the     *)
(* cells, addToMap and queryMap are atomic as long as no two workers are in   *)
(* the map on one cell.                                                       *)

\* What is known in every state before the first overlap.
Good == TypeOK /\ Tickets /\ Alone /\ ~ overlap

\* A cell shows the replaced node until the new one has its _time_out; there is
\* at most one worker for which this matters.
Shown ==
  \A c \in 0 .. MapSize - 1 :
    /\ \A r \in Requests :
         pc[r] = "setTimeout" /\ converted(r) = c => AbsHolder(c) = temp[r]
    /\ (\A r \in Requests : pc[r] = "setTimeout" => converted(r) # c)
         => AbsHolder(c) = cell[c]

\* At most one worker is about to write the _time_out in a cell, so that the
\* CHOOSE of AbsHolder has no choice.
LEMMA HolderIs == TypeOK /\ Exclusive => Shown
<1> SUFFICES ASSUME TypeOK, Exclusive, NEW c \in 0 .. MapSize - 1
             PROVE  /\ \A r \in Requests :
                         pc[r] = "setTimeout" /\ converted(r) = c
                           => AbsHolder(c) = temp[r]
                    /\ (\A r \in Requests : pc[r] = "setTimeout" => converted(r) # c)
                         => AbsHolder(c) = cell[c]
  BY DEF Shown
<1>1. ASSUME NEW r \in Requests, pc[r] = "setTimeout", converted(r) = c
      PROVE  AbsHolder(c) = temp[r]
  <2> DEFINE x == CHOOSE x \in Requests : pc[x] = "setTimeout" /\ converted(x) = c
  <2>1. x \in Requests /\ pc[x] = "setTimeout" /\ converted(x) = c BY <1>1
  <2>2. AbsHolder(c) = temp[x] BY <1>1 DEF AbsHolder
  <2> HIDE DEF x
  <2>3. x = r BY <1>1, <2>1 DEF Exclusive, InMap, AddPc, Worker
  <2> QED BY <2>2, <2>3
<1>2. (\A r \in Requests : pc[r] = "setTimeout" => converted(r) # c)
        => AbsHolder(c) = cell[c]
  BY DEF AbsHolder
<1> QED BY <1>1, <1>2

\* The same of the state before and the state after a step.
LEMMA HoldersAre == ASSUME Good, Good' PROVE Shown /\ Shown'
<1>1. TypeOK /\ Exclusive /\ TypeOK' /\ Exclusive' BY DEF Good, Alone
<1>2. TypeOK' /\ Exclusive' => Shown' BY HolderIs, PTL
<1> QED BY <1>1, <1>2, HolderIs

\* A step that changes neither the cells nor who is about to write a _time_out.
LEMMA SameHolders ==
  ASSUME Good, Good', UNCHANGED <<cell, serial>>,
         \A r \in Requests : /\ pc'[r] = "setTimeout" <=> pc[r] = "setTimeout"
                             /\ pc[r] = "setTimeout" => temp'[r] = temp[r]
  PROVE  \A c \in 0 .. MapSize - 1 : AbsHolder(c)' = AbsHolder(c)
<1> SUFFICES ASSUME NEW c \in 0 .. MapSize - 1 PROVE AbsHolder(c)' = AbsHolder(c)
  OBVIOUS
<1>1. Shown /\ Shown' BY HoldersAre
<1>2. \A r \in Requests : converted(r)' = converted(r) BY DEF converted, SerialOf
<1>3. CASE \E r \in Requests : pc[r] = "setTimeout" /\ converted(r) = c
  <2>1. PICK r \in Requests : pc[r] = "setTimeout" /\ converted(r) = c BY <1>3
  <2> QED BY <1>1, <1>2, <2>1 DEF Shown
<1>4. CASE \A r \in Requests : pc[r] = "setTimeout" => converted(r) # c
  BY <1>1, <1>2, <1>4 DEF Shown
<1> QED BY <1>3, <1>4

\* A step that the table does not see.
LEMMA Unseen ==
  ASSUME UNCHANGED <<alloc, serial, timeout, clock, overlap>>,
         \A c \in 0 .. MapSize - 1 : AbsHolder(c)' = AbsHolder(c),
         \A w \in Worker : AbsState(w)' = AbsState(w),
         \A p \in Responses : AbsState(p) = "delivered" => toAddr'[p] = toAddr[p]
  PROVE  UNCHANGED Atomic!vars
<1>1. [c \in 0 .. MapSize - 1 |-> AbsHolder(c)]' = [c \in 0 .. MapSize - 1 |-> AbsHolder(c)]
  OBVIOUS
<1>2. [w \in Worker |-> AbsState(w)]' = [w \in Worker |-> AbsState(w)] OBVIOUS
<1>3. [p \in Responses |-> IF AbsState(p) = "delivered" THEN toAddr[p] ELSE NULL]'
        = [p \in Responses |-> IF AbsState(p) = "delivered" THEN toAddr[p] ELSE NULL]
  BY DEF Worker
<1> QED BY <1>1, <1>2, <1>3 DEF Atomic!vars, Atomic!table

\* The program points at which the table sees a worker in the same state.
Alike(at, to) ==
  \/ {at, to} \subseteq {"start"} \cup (QueryPc \ {"freeTaken"})
  \/ {at, to} \subseteq {"check", "checkTime", "save", "publish"}
  \/ {at, to} \subseteq {"setOrigin", "setLast", "setFrom", "freeOld", "sent"}
  \/ at = "freeTaken" /\ to = "delivered"

\* Most accesses only prepare a change of the table or follow one.
LEMMA QuietUnseen ==
  ASSUME Good, Good', NEW v \in Worker, NEW at, NEW next,
         Step(v, at, next), Alike(at, next),
         UNCHANGED <<alloc, cell, serial, timeout, clock, overlap>>,
         \A w \in Worker : w # v => temp'[w] = temp[w],
         \A p \in Responses : p # v \/ at = "freeTaken" => toAddr'[p] = toAddr[p]
  PROVE  UNCHANGED Atomic!vars
<1>1. \A w \in Worker : pc'[w] = IF w = v THEN next ELSE pc[w]
  BY DEF Step, Good, TypeOK
<1>2. pc[v] = at /\ at # "setTimeout" /\ next # "setTimeout"
  BY DEF Step, Alike, QueryPc
<1>3. \A c \in 0 .. MapSize - 1 : AbsHolder(c)' = AbsHolder(c)
  BY <1>1, <1>2, SameHolders DEF Worker
<1>4. \A w \in Worker : AbsState(w)' = AbsState(w)
  <2>1. \A w \in Worker : w # v => AbsState(w)' = AbsState(w)
    BY <1>1 DEF AbsState
  <2>2. AbsState(v)' = AbsState(v) BY <1>1, <1>2 DEF AbsState, Alike, QueryPc
  <2> QED BY <2>1, <2>2
<1>5. \A p \in Responses : AbsState(p) = "delivered" => toAddr'[p] = toAddr[p]
  <2>1. AbsState(v) = "delivered" => at = "freeTaken"
    BY <1>2 DEF AbsState, Alike, QueryPc
  <2> QED BY <2>1
<1> QED BY <1>3, <1>4, <1>5, Unseen
----------------------------------------------------------------------------
(* The steps that the table sees *)

\* A worker that is not about to write a _time_out sees the table's cell.
LEMMA HolderOfCell ==
  ASSUME Good, Good', NEW w \in Worker, InMap(w), pc[w] # "setTimeout"
  PROVE  /\ converted(w) \in 0 .. MapSize - 1
         /\ AbsHolder(converted(w)) = Cell(w)
         /\ \A r \in Requests : pc[r] = "setTimeout" => converted(r) # converted(w)
<1>1. Shown BY HoldersAre
<1>2. converted(w) \in 0 .. MapSize - 1 BY CellTypes DEF Good
<1>3. \A x \in Requests : pc[x] = "setTimeout" => converted(x) # converted(w)
  BY DEF Good, Alone, Exclusive, InMap, AddPc, Worker
<1> QED BY <1>1, <1>2, <1>3 DEF Shown, Cell

\* addToMap draws its serial.
LEMMA AllocateDraws ==
  ASSUME Good, Good', NEW r \in Requests, Allocate(r)
  PROVE  Atomic!Draw(r)
<1>1. \A w \in Worker : pc'[w] = IF w = r THEN "check" ELSE pc[w]
  BY DEF Allocate, Step, Good, TypeOK
<1>2. \A x \in Requests : serial'[x] = IF x = r THEN NextSerial ELSE serial[x]
  BY DEF Allocate, Good, TypeOK
<1>3. r \in Worker /\ pc[r] = "start" BY DEF Allocate, Step, Worker
<1>4. \A c \in 0 .. MapSize - 1 : AbsHolder(c)' = AbsHolder(c)
  <2> SUFFICES ASSUME NEW c \in 0 .. MapSize - 1 PROVE AbsHolder(c)' = AbsHolder(c)
    OBVIOUS
  <2>1. Shown /\ Shown' BY HoldersAre
  <2>2. UNCHANGED <<cell, temp>> BY DEF Allocate
  <2>3. \A x \in Requests : /\ pc'[x] = "setTimeout" <=> pc[x] = "setTimeout"
                            /\ x # r => converted(x)' = converted(x)
    BY <1>1, <1>2, <1>3 DEF converted, SerialOf, Worker
  <2>4. \A x \in Requests : pc[x] = "setTimeout" => x # r BY <1>3
  <2>5. CASE \E x \in Requests : pc[x] = "setTimeout" /\ converted(x) = c
    <3>1. PICK x \in Requests : pc[x] = "setTimeout" /\ converted(x) = c BY <2>5
    <3>2. pc'[x] = "setTimeout" /\ converted(x)' = c BY <2>3, <2>4, <3>1
    <3> QED BY <2>1, <2>2, <3>1, <3>2 DEF Shown
  <2>6. CASE \A x \in Requests : pc[x] = "setTimeout" => converted(x) # c
    <3>1. \A x \in Requests : pc'[x] = "setTimeout" => converted(x)' # c
      BY <2>3, <2>4, <2>6
    <3> QED BY <2>1, <2>2, <2>6, <3>1 DEF Shown
  <2> QED BY <2>5, <2>6
<1>5. \A w \in Worker : AbsState(w)' = IF w = r THEN "drawn" ELSE AbsState(w)
  BY <1>1 DEF AbsState, QueryPc
<1>6. AbsState(r) = "idle" BY <1>3 DEF AbsState
<1>7. [w \in Worker |-> AbsState(w)]'
        = [[w \in Worker |-> AbsState(w)] EXCEPT ![r] = "drawn"]
  BY <1>5
<1>8. r \notin Responses
  BY IdMapAssumption DEF IdMapAssumption
<1>9. \A p \in Responses : AbsState(p)' = AbsState(p) /\ toAddr'[p] = toAddr[p]
  BY <1>5, <1>8 DEF Allocate, reply, Worker
<1>10. /\ alloc' = NextSerial /\ serial' = [serial EXCEPT ![r] = NextSerial]
       /\ UNCHANGED <<clock, timeout>>
  BY DEF Allocate, heap
<1> QED BY <1>3, <1>4, <1>6, <1>7, <1>9, <1>10 DEF Atomic!Draw, Atomic!Become, NextSerial

\* addToMap has read an unexpired _time_out in its cell.
LEMMA BusyRefuses ==
  ASSUME Good, Good', NEW r \in Requests, CheckTimeout(r), Step(r, "checkTime", "busy"),
         timeout[Cell(r)] # Junk => timeout[Cell(r)] > clock
  PROVE  Atomic!Refuse(r)
<1>1. \A w \in Worker : pc'[w] = IF w = r THEN "busy" ELSE pc[w]
  BY DEF Step, Good, TypeOK
<1>2. /\ UNCHANGED <<cell, serial, temp, alloc, timeout, clock, toAddr>>
      /\ r \in Worker /\ pc[r] = "checkTime" /\ InMap(r)
  BY DEF CheckTimeout, Step, Worker, InMap, AddPc, shared, heap, reply
<1>3. \A c \in 0 .. MapSize - 1 : AbsHolder(c)' = AbsHolder(c)
  BY <1>1, <1>2, SameHolders DEF Worker
<1>4. AbsHolder(converted(r)) = Cell(r) BY <1>2, HolderOfCell
<1>5. /\ Cell(r) \in Requests /\ Cell(r) # NULL
      /\ timeout[Cell(r)] # Junk /\ timeout[Cell(r)] > clock
  <2>1. Cell(r) # NULL BY <1>2 DEF Good, Alone, Adders, Adder
  <2>2. Cell(r) \in Requests BY <1>2, <2>1, CellTypes DEF Good
  <2>3. Cell(r) # r
    <3>1. Cell(r) = r => HasNode(r) BY <1>2, <2>2, CellNode DEF Good
    <3> QED BY <1>2, <3>1 DEF HasNode, FillPc
  <2>4. timeout[Cell(r)] # Junk BY <1>2, <2>2, <2>3, Complete DEF Good
  <2> QED BY <2>1, <2>2, <2>4
<1>6. \A w \in Worker : AbsState(w)' = IF w = r THEN "busy" ELSE AbsState(w)
  BY <1>1 DEF AbsState, QueryPc
<1>7. AbsState(r) = "drawn" BY <1>2 DEF AbsState, QueryPc
<1>8. [w \in Worker |-> AbsState(w)]'
        = [[w \in Worker |-> AbsState(w)] EXCEPT ![r] = "busy"]
  BY <1>6
<1>9. r \notin Responses
  BY IdMapAssumption DEF IdMapAssumption
<1>10. \A p \in Responses : AbsState(p)' = AbsState(p)
  BY <1>6, <1>9 DEF Worker
<1>11. converted(r) = serial[r] % MapSize /\ converted(r) \in 0 .. MapSize - 1
  BY <1>2, CellTypes DEF converted, SerialOf, Good
<1>12. /\ Atomic!Become(r, "drawn", "busy")
  BY <1>2, <1>7, <1>8 DEF Atomic!Become
<1>13. Atomic!Holder(r) = Cell(r)
  BY <1>4, <1>11 DEF Atomic!Holder, Atomic!CellOf
<1>14. [c \in 0 .. MapSize - 1 |-> AbsHolder(c)]' = [c \in 0 .. MapSize - 1 |-> AbsHolder(c)]
  BY <1>3
<1>15. [p \in Responses |-> IF AbsState(p) = "delivered" THEN toAddr[p] ELSE NULL]'
        = [p \in Responses |-> IF AbsState(p) = "delivered" THEN toAddr[p] ELSE NULL]
  BY <1>2, <1>10
<1> QED BY <1>2, <1>5, <1>12, <1>13, <1>14, <1>15 DEF Atomic!Refuse

\* The new node is in the cell, but until its _time_out is written the table
\* still shows the one it replaces.
LEMMA PublishUnseen ==
  ASSUME Good, Good', NEW r \in Requests, Publish(r)
  PROVE  UNCHANGED Atomic!vars
<1>1. \A w \in Worker : pc'[w] = IF w = r THEN "setTimeout" ELSE pc[w]
  BY DEF Publish, Step, Good, TypeOK
<1>2. /\ UNCHANGED <<serial, temp, alloc, timeout, clock, overlap, toAddr>>
      /\ r \in Worker /\ pc[r] = "publish" /\ InMap(r)
  BY DEF Publish, Step, Worker, InMap, AddPc, reply, history
<1>3. \A x \in Requests : converted(x)' = converted(x)
  BY <1>2 DEF converted, SerialOf
<1>4. \A c \in 0 .. MapSize - 1 : c # converted(r) => cell'[c] = cell[c]
  BY <1>2, CellTypes DEF Publish, Good, TypeOK
<1>5. \A c \in 0 .. MapSize - 1 : AbsHolder(c)' = AbsHolder(c)
  <2> SUFFICES ASSUME NEW c \in 0 .. MapSize - 1 PROVE AbsHolder(c)' = AbsHolder(c)
    OBVIOUS
  <2>1. Shown /\ Shown' BY HoldersAre
  <2>2. CASE c = converted(r)
    <3>1. AbsHolder(c) = Cell(r) BY <1>2, <2>2, HolderOfCell
    <3>2. AbsHolder(c)' = temp[r] BY <1>1, <1>2, <1>3, <2>1, <2>2 DEF Shown
    <3>3. temp[r] = Cell(r) BY <1>2 DEF Good, Alone, Adders, Adder
    <3> QED BY <3>1, <3>2, <3>3
  <2>3. CASE c # converted(r) /\ \E x \in Requests : pc[x] = "setTimeout" /\ converted(x) = c
    <3>1. PICK x \in Requests : pc[x] = "setTimeout" /\ converted(x) = c BY <2>3
    <3>2. pc'[x] = "setTimeout" /\ converted(x)' = c BY <1>1, <1>3, <3>1 DEF Worker
    <3> QED BY <1>2, <2>1, <3>1, <3>2 DEF Shown
  <2>4. CASE c # converted(r) /\ \A x \in Requests : pc[x] = "setTimeout" => converted(x) # c
    <3>1. \A x \in Requests : pc'[x] = "setTimeout" => converted(x)' # c
      BY <1>1, <1>3, <2>4 DEF Worker
    <3> QED BY <1>4, <2>1, <2>4, <3>1 DEF Shown
  <2> QED BY <2>2, <2>3, <2>4
<1>6. \A w \in Worker : AbsState(w)' = AbsState(w)
  BY <1>1, <1>2 DEF AbsState, QueryPc
<1> QED BY <1>2, <1>5, <1>6, Unseen

\* The replaced node is not the new one, and its time is over: nobody else has
\* been at the cell since checkTime.
LEMMA Replaceable ==
  ASSUME Good, NEW r \in Requests, pc[r] = "setTimeout", temp[r] # NULL
  PROVE  /\ temp[r] \in Requests /\ temp[r] # r
         /\ timeout[temp[r]] # Junk /\ timeout[temp[r]] <= clock
<1> DEFINE m == temp[r]
<1>1. Taken(r) /\ Cell(r) = r /\ InMap(r) /\ r \in Worker
  BY DEF Good, Alone, Adders, Adder, FillPc, InMap, AddPc, Worker
<1>2. /\ m \in Requests /\ m # r /\ status[m] = "live" /\ pc[m] = "sent"
      /\ converted(m) = converted(r)
  BY <1>1 DEF Taken, Live
<1>3. Cell(m) # m BY <1>1, <1>2 DEF Cell
<1>4. ~ \E q \in Responses : pc[q] \in {"freeTaken", "delivered"} /\ toAddr[q] = m
  <2> SUFFICES ASSUME NEW q \in Responses, pc[q] \in {"freeTaken", "delivered"},
                      toAddr[q] = m
               PROVE  FALSE
    OBVIOUS
  <2>1. CASE pc[q] = "freeTaken"
    <3>1. temp[q] = m /\ converted(q) = converted(m) /\ q \in Worker /\ InMap(q)
      BY <2>1 DEF Good, Alone, Queriers, Querier, Taken, Matches, Worker, InMap, QueryPc
    <3>2. q # r BY <2>1
    <3> QED BY <1>1, <1>2, <3>1, <3>2 DEF Good, Alone, Exclusive
  <2>2. CASE pc[q] = "delivered"
    BY <1>2, <2>2 DEF Good, Alone, Queriers, Querier
  <2> QED BY <2>1, <2>2
<1>5. timeout[m] <= clock BY <1>2, <1>3, <1>4 DEF Good, Alone, Kept
<1>6. timeout[m] # Junk
  BY <1>2, IdMapAssumption
  DEF IdMapAssumption, Good, Alone, Fields, Written
<1> QED BY <1>2, <1>5, <1>6

\* With its _time_out the new node is in the table: addToMap takes effect.
LEMMA SetTimeoutRecords ==
  ASSUME Good, Good', NEW r \in Requests, SetTimeout(r)
  PROVE  Atomic!Record(r)
<1>1. \A w \in Worker : pc'[w] = IF w = r THEN "setOrigin" ELSE pc[w]
  BY DEF SetTimeout, Step, Good, TypeOK
<1>2. /\ UNCHANGED <<cell, serial, temp, alloc, clock, overlap, toAddr>>
      /\ r \in Worker /\ pc[r] = "setTimeout" /\ InMap(r)
  BY DEF SetTimeout, Step, Worker, InMap, AddPc, reply, history
<1>3. Cell(r) = r /\ timeout' = [timeout EXCEPT ![r] = clock + ConvertTTL]
  BY <1>2 DEF SetTimeout, Good, Alone, Adders, Adder, FillPc
<1>4. \A x \in Requests : converted(x)' = converted(x)
  BY <1>2 DEF converted, SerialOf
<1>5. converted(r) = serial[r] % MapSize /\ converted(r) \in 0 .. MapSize - 1
  BY <1>2, CellTypes DEF converted, SerialOf, Good
<1>6. AbsHolder(converted(r)) = temp[r]
  <2>1. Shown BY HoldersAre
  <2> QED BY <1>2, <1>5, <2>1 DEF Shown
<1>7. \A x \in Requests : pc[x] = "setTimeout" /\ x # r => converted(x) # converted(r)
  BY <1>2 DEF Good, Alone, Exclusive, InMap, AddPc, Worker
<1>8. \A c \in 0 .. MapSize - 1 :
        AbsHolder(c)' = IF c = converted(r) THEN r ELSE AbsHolder(c)
  <2> SUFFICES ASSUME NEW c \in 0 .. MapSize - 1
               PROVE  AbsHolder(c)' = IF c = converted(r) THEN r ELSE AbsHolder(c)
    OBVIOUS
  <2>1. Shown /\ Shown' BY HoldersAre
  <2>2. CASE c = converted(r)
    <3>1. \A x \in Requests : pc'[x] = "setTimeout" => converted(x)' # c
      BY <1>1, <1>4, <1>7, <2>2 DEF Worker
    <3>2. AbsHolder(c)' = cell'[c] BY <2>1, <3>1 DEF Shown
    <3> QED BY <1>2, <1>3, <2>2, <3>2 DEF Cell
  <2>3. CASE c # converted(r) /\ \E x \in Requests : pc[x] = "setTimeout" /\ converted(x) = c
    <3>1. PICK x \in Requests : pc[x] = "setTimeout" /\ converted(x) = c BY <2>3
    <3>2. pc'[x] = "setTimeout" /\ converted(x)' = c BY <1>1, <1>4, <2>3, <3>1 DEF Worker
    <3> QED BY <1>2, <2>1, <2>3, <3>1, <3>2 DEF Shown
  <2>4. CASE c # converted(r) /\ \A x \in Requests : pc[x] = "setTimeout" => converted(x) # c
    <3>1. \A x \in Requests : pc'[x] = "setTimeout" => converted(x)' # c
      BY <1>1, <1>4, <2>4 DEF Worker
    <3> QED BY <1>2, <2>1, <2>4, <3>1 DEF Shown
  <2> QED BY <2>2, <2>3, <2>4
<1>9. [c \in 0 .. MapSize - 1 |-> AbsHolder(c)]'
        = [[c \in 0 .. MapSize - 1 |-> AbsHolder(c)] EXCEPT ![converted(r)] = r]
  BY <1>8
<1>10. \A w \in Worker : AbsState(w)' = IF w = r THEN "sent" ELSE AbsState(w)
  BY <1>1 DEF AbsState, QueryPc
<1>11. [w \in Worker |-> AbsState(w)]'
         = [[w \in Worker |-> AbsState(w)] EXCEPT ![r] = "sent"]
  BY <1>10
<1>12. Atomic!Become(r, "drawn", "sent")
  BY <1>2, <1>11 DEF Atomic!Become, AbsState, QueryPc
<1>13. Atomic!CellOf(r) = converted(r) /\ Atomic!Holder(r) = temp[r]
  BY <1>5, <1>6 DEF Atomic!Holder, Atomic!CellOf
<1>14. [x \in Requests |-> IF timeout[x] = Junk THEN 0 ELSE timeout[x]]'
         = [[x \in Requests |-> IF timeout[x] = Junk THEN 0 ELSE timeout[x]]
              EXCEPT ![r] = clock + ConvertTTL]
  <2>1. clock + ConvertTTL # Junk
    <3>1. clock + ConvertTTL \in Nat
      BY IdMapAssumption DEF IdMapAssumption, Good, TypeOK
    <3> QED BY <3>1, IdMapAssumption DEF IdMapAssumption
  <2>2. \A x \in Requests :
          timeout'[x] = IF x = r THEN clock + ConvertTTL ELSE timeout[x]
    BY <1>3 DEF Good, TypeOK
  <2> QED BY <2>1, <2>2
<1>15. Atomic!Holder(r) # NULL
         => [x \in Requests |-> IF timeout[x] = Junk THEN 0 ELSE timeout[x]]
              [Atomic!Holder(r)] <= clock
  BY <1>2, <1>13, Replaceable
<1>16. [p \in Responses |-> IF AbsState(p) = "delivered" THEN toAddr[p] ELSE NULL]'
        = [p \in Responses |-> IF AbsState(p) = "delivered" THEN toAddr[p] ELSE NULL]
  <2>1. \A p \in Responses : AbsState(p)' = AbsState(p)
    BY <1>10, IdMapAssumption DEF Worker, IdMapAssumption
  <2> QED BY <1>2, <2>1
<1> QED BY <1>2, <1>9, <1>12, <1>13, <1>14, <1>15, <1>16 DEF Atomic!Record

\* queryMap finds the cell empty or another generation in it.
LEMMA TestMisses ==
  ASSUME Good, Good', NEW p \in Responses, NEW at, Step(p, at, "unmatched"),
         \/ at = "test" /\ Cell(p) = NULL
         \/ at = "testLast" /\ (last[Cell(p)] # Junk => last[Cell(p)] # current(p)),
         UNCHANGED <<shared, serial, temp, reply, history>>
  PROVE  Atomic!Miss(p)
<1> DEFINE r == Answers[p]
<1>1. \A w \in Worker : pc'[w] = IF w = p THEN "unmatched" ELSE pc[w]
  BY DEF Step, Good, TypeOK
<1>2. /\ UNCHANGED <<cell, serial, temp, alloc, timeout, clock, overlap, toAddr>>
      /\ p \in Worker /\ p \notin Requests /\ pc[p] = at /\ InMap(p)
      /\ r \in Requests /\ r \in Worker /\ pc[r] = "sent"
      /\ converted(r) = converted(p) /\ current(r) = current(p)
  BY AnswerCell
  DEF Step, Worker, InMap, QueryPc, shared, heap, reply, history, Good, Tickets
<1>3. \A c \in 0 .. MapSize - 1 : AbsHolder(c)' = AbsHolder(c)
  BY <1>1, <1>2, SameHolders DEF Worker
<1>4. AbsHolder(converted(p)) = Cell(p) /\ converted(p) \in 0 .. MapSize - 1
  BY <1>2, HolderOfCell
<1>5. Cell(p) # NULL => Cell(p) \in Requests /\ serial[Cell(p)] # serial[r]
  <2> SUFFICES ASSUME Cell(p) # NULL
               PROVE  Cell(p) \in Requests /\ serial[Cell(p)] # serial[r]
    OBVIOUS
  <2>1. Cell(p) \in Requests /\ Cell(p) # p BY <1>2, CellTypes DEF Good
  <2>2. last[Cell(p)] = current(Cell(p)) /\ last[Cell(p)] # Junk
    BY <1>2, <2>1, Complete DEF Good
  <2>3. current(Cell(p)) # current(r) BY <1>2, <2>2
  <2> QED BY <1>2, <2>1, <2>3 DEF current, SerialOf
<1>6. \A w \in Worker : AbsState(w)' = IF w = p THEN "unmatched" ELSE AbsState(w)
  BY <1>1 DEF AbsState, QueryPc
<1>7. [w \in Worker |-> AbsState(w)]'
        = [[w \in Worker |-> AbsState(w)] EXCEPT ![p] = "unmatched"]
  BY <1>6
<1>8. AbsState(p) = "idle" /\ AbsState(r) = "sent"
  BY <1>2 DEF AbsState, QueryPc
<1>9. Atomic!Become(p, "idle", "unmatched")
  BY <1>2, <1>7, <1>8 DEF Atomic!Become
<1>10. Atomic!CellOf(r) = converted(p) /\ Atomic!Holder(r) = Cell(p)
  BY <1>2, <1>4 DEF Atomic!Holder, Atomic!CellOf, converted, SerialOf
<1>11. [c \in 0 .. MapSize - 1 |-> AbsHolder(c)]' = [c \in 0 .. MapSize - 1 |-> AbsHolder(c)]
  BY <1>3
<1>12. [q \in Responses |-> IF AbsState(q) = "delivered" THEN toAddr[q] ELSE NULL]'
        = [q \in Responses |-> IF AbsState(q) = "delivered" THEN toAddr[q] ELSE NULL]
  <2>1. \A q \in Responses : q # p => AbsState(q)' = AbsState(q) BY <1>6 DEF Worker
  <2>2. AbsState(p) # "delivered" /\ AbsState(p)' # "delivered" BY <1>6, <1>8, <1>2
  <2> QED BY <1>2, <2>1, <2>2
<1> QED BY <1>2, <1>5, <1>8, <1>9, <1>10, <1>11, <1>12 DEF Atomic!Miss

\* queryMap clears the cell whose contents it has copied: it takes effect.
LEMMA ClearMatches ==
  ASSUME Good, Good', NEW p \in Responses, Clear(p)
  PROVE  Atomic!Match(p)
<1> DEFINE r == Answers[p]
<1> DEFINE n == Cell(p)
<1>1. \A w \in Worker : pc'[w] = IF w = p THEN "freeTaken" ELSE pc[w]
  BY DEF Clear, Step, Good, TypeOK
<1>2. /\ UNCHANGED <<serial, temp, alloc, timeout, clock, overlap, toAddr>>
      /\ p \in Worker /\ p \notin Requests /\ pc[p] = "clear" /\ InMap(p)
      /\ r \in Requests /\ r \in Worker /\ pc[r] = "sent"
      /\ converted(r) = converted(p)
  BY AnswerCell
  DEF Clear, Step, Worker, InMap, QueryPc, heap, reply, history, Good, Tickets
<1>3. Matches(n, p) BY <1>2, MatchesHeld DEF Good
<1>4. /\ AbsHolder(converted(p)) = n /\ converted(p) \in 0 .. MapSize - 1
      /\ \A x \in Requests : pc[x] = "setTimeout" => converted(x) # converted(p)
  BY <1>2, HolderOfCell
<1>5. cell' = [cell EXCEPT ![converted(p)] = NULL] BY DEF Clear
<1>6. n \in Requests /\ n # NULL /\ toAddr[p] = n /\ serial[n] = serial[r]
  BY <1>3, IdMapAssumption DEF Matches, IdMapAssumption
<1> HIDE DEF n
<1>7. \A x \in Requests : converted(x)' = converted(x)
  BY <1>2 DEF converted, SerialOf
<1>8. \A c \in 0 .. MapSize - 1 :
        AbsHolder(c)' = IF c = converted(p) THEN NULL ELSE AbsHolder(c)
  <2> SUFFICES ASSUME NEW c \in 0 .. MapSize - 1
               PROVE  AbsHolder(c)' = IF c = converted(p) THEN NULL ELSE AbsHolder(c)
    OBVIOUS
  <2>1. Shown /\ Shown' BY HoldersAre
  <2>2. cell'[c] = IF c = converted(p) THEN NULL ELSE cell[c]
    BY <1>5 DEF Good, TypeOK
  <2>3. \A x \in Requests : pc'[x] = "setTimeout" <=> pc[x] = "setTimeout"
    BY <1>1, <1>2 DEF Worker
  <2>4. CASE \E x \in Requests : pc[x] = "setTimeout" /\ converted(x) = c
    <3>1. PICK x \in Requests : pc[x] = "setTimeout" /\ converted(x) = c BY <2>4
    <3>2. pc'[x] = "setTimeout" /\ converted(x)' = c /\ c # converted(p)
      BY <1>4, <1>7, <2>3, <3>1
    <3> QED BY <1>2, <2>1, <3>1, <3>2 DEF Shown
  <2>5. CASE \A x \in Requests : pc[x] = "setTimeout" => converted(x) # c
    <3>1. \A x \in Requests : pc'[x] = "setTimeout" => converted(x)' # c
      BY <1>7, <2>3, <2>5
    <3> QED BY <2>1, <2>2, <2>5, <3>1 DEF Shown
  <2> QED BY <2>4, <2>5
<1>9. [c \in 0 .. MapSize - 1 |-> AbsHolder(c)]'
        = [[c \in 0 .. MapSize - 1 |-> AbsHolder(c)] EXCEPT ![converted(p)] = NULL]
  BY <1>8
<1>10. \A w \in Worker : AbsState(w)' = IF w = p THEN "delivered" ELSE AbsState(w)
  BY <1>1 DEF AbsState, QueryPc
<1>11. [w \in Worker |-> AbsState(w)]'
         = [[w \in Worker |-> AbsState(w)] EXCEPT ![p] = "delivered"]
  BY <1>10
<1>12. AbsState(p) = "idle" /\ AbsState(r) = "sent"
  BY <1>2 DEF AbsState, QueryPc
<1>13. Atomic!Become(p, "idle", "delivered")
  BY <1>2, <1>11, <1>12 DEF Atomic!Become
<1>14. Atomic!CellOf(r) = converted(p) /\ Atomic!Holder(r) = n
  BY <1>2, <1>4 DEF Atomic!Holder, Atomic!CellOf, converted, SerialOf
<1>15. [q \in Responses |-> IF AbsState(q) = "delivered" THEN toAddr[q] ELSE NULL]'
         = [[q \in Responses |-> IF AbsState(q) = "delivered" THEN toAddr[q] ELSE NULL]
              EXCEPT ![p] = n]
  <2>1. \A q \in Responses : AbsState(q)' = IF q = p THEN "delivered" ELSE AbsState(q)
    BY <1>10 DEF Worker
  <2> QED BY <1>2, <1>6, <2>1
<1> QED BY <1>2, <1>6, <1>9, <1>12, <1>13, <1>14, <1>15 DEF Atomic!Match

\* time(NULL) goes on.
LEMMA TickTicks ==
  ASSUME Good, Good', Tick
  PROVE  Atomic!Tick
<1>1. UNCHANGED <<cell, serial, temp, alloc, timeout, pc, toAddr>>
  BY DEF Tick, heap, reply
<1>2. \A c \in 0 .. MapSize - 1 : AbsHolder(c)' = AbsHolder(c)
  BY <1>1, SameHolders
<1>3. \A w \in Worker : AbsState(w)' = AbsState(w) BY <1>1 DEF AbsState
<1>4. [c \in 0 .. MapSize - 1 |-> AbsHolder(c)]' = [c \in 0 .. MapSize - 1 |-> AbsHolder(c)]
  BY <1>2
<1>5. [w \in Worker |-> AbsState(w)]' = [w \in Worker |-> AbsState(w)]
  BY <1>3
<1>6. [p \in Responses |-> IF AbsState(p) = "delivered" THEN toAddr[p] ELSE NULL]'
        = [p \in Responses |-> IF AbsState(p) = "delivered" THEN toAddr[p] ELSE NULL]
  BY <1>1, <1>3 DEF Worker
<1> QED BY <1>1, <1>4, <1>5, <1>6 DEF Tick, Atomic!Tick, Atomic!table
----------------------------------------------------------------------------
(* The refinement *)

\* The empty map is the empty table.
LEMMA InitAtomic == Init => Atomic!Init /\ ~ overlap
<1> SUFFICES ASSUME Init PROVE Atomic!Init /\ ~ overlap OBVIOUS
<1>1. \A c \in 0 .. MapSize - 1 : AbsHolder(c) = NULL
  BY DEF Init, AbsHolder, Worker
<1>2. \A w \in Worker : AbsState(w) = "idle" BY DEF Init, AbsState
<1> QED BY <1>1, <1>2 DEF Init, Atomic!Init, Worker, Atomic!Worker

\* A step of addToMap.
LEMMA AddStep ==
  ASSUME Good, Good', NEW r \in Requests, addToMap(r)
  PROVE  Atomic!Step \/ UNCHANGED Atomic!vars
<1> USE DEF shared, heap, reply, history, Alike, Worker
<1>0. r \in Worker /\ r \notin Responses
  BY IdMapAssumption DEF IdMapAssumption
<1>1. CASE Allocate(r) BY <1>1, AllocateDraws DEF Atomic!Step
<1>2. CASE CheckEmpty(r)
  <2>1. Step(r, "check", "save") \/ Step(r, "check", "checkTime")
    BY <1>2 DEF CheckEmpty
  <2>2. Alike("check", "save") /\ Alike("check", "checkTime") OBVIOUS
  <2> QED BY <1>0, <1>2, <2>1, <2>2, QuietUnseen DEF CheckEmpty
<1>3. CASE CheckTimeout(r)
  <2>1. CASE /\ Step(r, "checkTime", "busy")
             /\ timeout[Cell(r)] # Junk => timeout[Cell(r)] > clock
    BY <1>3, <2>1, BusyRefuses DEF Atomic!Step
  <2>2. CASE Step(r, "checkTime", "save")
    <3>1. Alike("checkTime", "save") OBVIOUS
    <3> QED BY <1>0, <1>3, <2>2, <3>1, QuietUnseen DEF CheckTimeout
  <2> QED BY <1>3, <2>1, <2>2 DEF CheckTimeout
<1>4. CASE SaveOld(r)
  <2>1. Alike("save", "publish") OBVIOUS
  <2> QED BY <1>0, <1>4, <2>1, QuietUnseen DEF SaveOld, Good, TypeOK
<1>5. CASE Publish(r) BY <1>5, PublishUnseen
<1>6. CASE SetTimeout(r) BY <1>6, SetTimeoutRecords DEF Atomic!Step
<1>7. CASE SetOrigin(r)
  <2>1. Alike("setOrigin", "setLast") OBVIOUS
  <2> QED BY <1>0, <1>7, <2>1, QuietUnseen DEF SetOrigin
<1>8. CASE SetLast(r)
  <2>1. Alike("setLast", "setFrom") OBVIOUS
  <2> QED BY <1>0, <1>8, <2>1, QuietUnseen DEF SetLast
<1>9. CASE SetFrom(r)
  <2>1. Alike("setFrom", "freeOld") OBVIOUS
  <2> QED BY <1>0, <1>9, <2>1, QuietUnseen DEF SetFrom
<1>10. CASE FreeOld(r)
  <2>1. Alike("freeOld", "sent") OBVIOUS
  <2> QED BY <1>0, <1>10, <2>1, QuietUnseen DEF FreeOld, Free
<1> QED
  BY <1>1, <1>2, <1>3, <1>4, <1>5, <1>6, <1>7, <1>8, <1>9, <1>10 DEF addToMap

\* A step of queryMap.
LEMMA QueryStep ==
  ASSUME Good, Good', NEW p \in Responses, queryMap(p)
  PROVE  Atomic!Step \/ UNCHANGED Atomic!vars
<1> USE DEF shared, heap, reply, history, Alike, Worker, QueryPc
<1>0. p \in Worker OBVIOUS
<1>1. CASE Arrive(p)
  <2>1. Alike("start", "test") OBVIOUS
  <2>2. UNCHANGED overlap BY DEF Good, TypeOK
  <2> QED BY <1>0, <1>1, <2>1, <2>2, QuietUnseen DEF Arrive
<1>2. CASE TestEmpty(p)
  <2>1. CASE Cell(p) = NULL /\ Step(p, "test", "unmatched")
    BY <1>2, <2>1, TestMisses DEF TestEmpty, Atomic!Step
  <2>2. CASE Step(p, "test", "testLast")
    <3>1. Alike("test", "testLast") OBVIOUS
    <3> QED BY <1>0, <1>2, <2>2, <3>1, QuietUnseen DEF TestEmpty
  <2> QED BY <1>2, <2>1, <2>2 DEF TestEmpty
<1>3. CASE TestLast(p)
  <2>1. CASE /\ Step(p, "testLast", "unmatched")
             /\ last[Cell(p)] # Junk => last[Cell(p)] # current(p)
    BY <1>3, <2>1, TestMisses DEF TestLast, Atomic!Step
  <2>2. CASE Step(p, "testLast", "copyOrigin")
    <3>1. Alike("testLast", "copyOrigin") OBVIOUS
    <3> QED BY <1>0, <1>3, <2>2, <3>1, QuietUnseen DEF TestLast
  <2> QED BY <1>3, <2>1, <2>2 DEF TestLast
<1>4. CASE CopyOrigin(p)
  <2>1. Alike("copyOrigin", "copyFrom") OBVIOUS
  <2> QED BY <1>0, <1>4, <2>1, QuietUnseen DEF CopyOrigin
<1>5. CASE CopyFrom(p)
  <2>1. Alike("copyFrom", "saveOld") OBVIOUS
  <2> QED BY <1>0, <1>5, <2>1, QuietUnseen DEF CopyFrom, Good, TypeOK
<1>6. CASE SaveTaken(p)
  <2>1. Alike("saveOld", "clear") OBVIOUS
  <2> QED BY <1>0, <1>6, <2>1, QuietUnseen DEF SaveTaken, Good, TypeOK
<1>7. CASE Clear(p) BY <1>7, ClearMatches DEF Atomic!Step
<1>8. CASE FreeTaken(p)
  <2>1. Alike("freeTaken", "delivered") OBVIOUS
  <2> QED BY <1>0, <1>8, <2>1, QuietUnseen DEF FreeTaken, Free
<1> QED
  BY <1>1, <1>2, <1>3, <1>4, <1>5, <1>6, <1>7, <1>8 DEF queryMap

\* Every step of the map is a step of the table or none, unless two workers
\* have met.
LEMMA StepAtomic == IInv /\ IInv' /\ [Next]_vars => [Atomic!Next]_Atomic!vars
<1> SUFFICES ASSUME IInv, IInv', [Next]_vars PROVE [Atomic!Next]_Atomic!vars
  OBVIOUS
<1>1. CASE overlap' BY <1>1 DEF Atomic!Next
<1>2. CASE ~ overlap'
  <2>1. ~ overlap BY <1>2, OverlapStays DEF IInv
  <2>2. Good /\ Good' /\ UNCHANGED overlap
    BY <1>2, <2>1 DEF IInv, Good, TypeOK
  <2>3. ASSUME Atomic!Step \/ UNCHANGED Atomic!vars
        PROVE  [Atomic!Next]_Atomic!vars
    BY <2>2, <2>3 DEF Atomic!Next
  <2>4. ASSUME NEW r \in Requests, addToMap(r) PROVE [Atomic!Next]_Atomic!vars
    BY <2>2, <2>3, <2>4, AddStep
  <2>5. ASSUME NEW p \in Responses, queryMap(p) PROVE [Atomic!Next]_Atomic!vars
    BY <2>2, <2>3, <2>5, QueryStep
  <2>6. ASSUME NEW w \in Worker, Fault(w) PROVE FALSE
    BY <2>2, <2>6 DEF Fault, Good, Alone
  <2>7. CASE Tick BY <2>2, <2>3, <2>7, TickTicks DEF Atomic!Step
  <2>8. CASE UNCHANGED vars
    <3>1. UNCHANGED <<alloc, cell, serial, temp, timeout, pc, toAddr, clock, overlap>>
      BY <2>8 DEF vars, shared, heap, reply, history
    <3>2. \A c \in 0 .. MapSize - 1 : AbsHolder(c)' = AbsHolder(c)
      BY <2>2, <3>1, SameHolders
    <3>3. \A w \in Worker : AbsState(w)' = AbsState(w) BY <3>1 DEF AbsState
    <3> QED BY <2>3, <3>1, <3>2, <3>3, Unseen
  <2> QED BY <2>4, <2>5, <2>6, <2>7, <2>8 DEF Next
<1> QED BY <1>1, <1>2

\* Access by access, addToMap and queryMap take effect at one moment each,
\* although queryMap takes no lock and addToMap fills its cell without one: the
\* map is the atomic table IdTable until two workers are on one cell.
THEOREM Refinement == Spec => ImplementsIdTable
<1>1. Init => Atomic!Init /\ ~ overlap BY InitAtomic
<1>2. IInv /\ IInv' /\ [Next]_vars => [Atomic!Next]_Atomic!vars BY StepAtomic
<1>3. Spec => []IInv BY Invariance, PTL
<1> QED BY <1>1, <1>2, <1>3, PTL DEF Spec, ImplementsIdTable, Atomic!Spec
=============================================================================
