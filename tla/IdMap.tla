------------------------------- MODULE IdMap -------------------------------
(***************************************************************************)
(* The identifier map of the relay (src/Server/map.c) as the worker        *)
(* threads of connectHandle (src/Server/basic.c) use it.                   *)
(*                                                                         *)
(* A request worker calls addToMap, which draws a serial number under the  *)
(* map's lock and then fills one cell of __ID_MAP__ WITHOUT that lock; a   *)
(* response worker calls queryMap, which takes no lock at all.  Every      *)
(* access of those two functions to a shared cell or to a heap node is a   *)
(* step of its own, in program order; only the counter, which the lock     *)
(* does protect, is read and written in one step.                          *)
(*                                                                         *)
(* A request r stands for its own DNS identifier and for its own client    *)
(* address, so the fields _origin and _from of a node both hold a request, *)
(* and the node that r allocates is called r too, whatever its address.    *)
(* The first access to a null or freed node, and the first second free of  *)
(* a node, is a fault, with which the model ends: before it nobody follows *)
(* a pointer to a freed address, so that it makes no difference whether    *)
(* malloc hands that address out again, and after it the heap may hold     *)
(* anything.  Nothing here speaks of the process after a fault.            *)
(***************************************************************************)
EXTENDS Integers

CONSTANTS
  Requests,    \* client queries that miss the local tables
  Responses,   \* datagrams of the upstream server; a duplicate is a member
  Answers,     \* the request each response answers
  MapSize,     \* MAX_MAP_SIZE, 128 in the code
  SerialMod,   \* UINT16_MAX, 65535 in the code: serials are 0 .. 65534
  ConvertTTL,  \* CONVERT_TTL, 5 seconds in the code
  MaxClock,    \* bound on the clock
  NULL,        \* the null pointer
  Junk         \* what malloc leaves in a field nobody has written yet

ASSUME IdMapAssumption ==
  /\ Requests \cap Responses = {}
  /\ Answers \in [Responses -> Requests]
  /\ MapSize \in Nat \ {0}
  /\ SerialMod \in Nat \ {0}
  /\ ConvertTTL \in Nat
  /\ MaxClock \in Nat
  /\ NULL \notin Requests
  /\ Junk \notin Requests \cup Nat

VARIABLES
  alloc,    \* __MAP_ALLOC__
  cell,     \* __ID_MAP__
  status,   \* of the MapNode that each request allocates on the heap ...
  timeout,  \* ... and its fields _time_out,
  origin,   \* _origin,
  last,     \* _last
  from,     \* and _from
  clock,    \* time(NULL)
  crashed,  \* history: a null or freed node was touched, or freed again
  pc,       \* next access of each worker
  serial,   \* the local `serial' of each request worker
  temp,     \* the local `temp' of each worker
  toId,     \* the locals `origin' and `from' of a response worker: what it
  toAddr,   \* has copied out of the map
  round,    \* history: how often __MAP_ALLOC__ has come back to 0
  roundOf,  \* history: the round in which a request drew its serial
  overlap   \* history: two workers were inside the map on the same cell

heap    == <<status, timeout, origin, last, from>>
shared  == <<alloc, cell, heap, clock, crashed>>
reply   == <<toId, toAddr>>
history == <<round, roundOf, overlap>>
vars == <<shared, pc, serial, temp, reply, history>>
----------------------------------------------------------------------------
Worker == Requests \cup Responses

AddPc   == {"check", "checkTime", "save", "publish", "setTimeout",
            "setOrigin", "setLast", "setFrom", "freeOld"}
QueryPc == {"test", "testLast", "copyOrigin", "copyFrom", "saveOld",
            "clear", "freeTaken"}
\* outcomes: relayed to the server / UINT16_MAX; no mapping / sent back
Outcome == {"sent", "busy", "unmatched", "delivered"}

\* accesses through the pointer in the cell, and calls of free(temp)
DerefPc == {"checkTime", "setTimeout", "setOrigin", "setLast", "setFrom",
            "testLast", "copyOrigin", "copyFrom"}
FreePc  == {"freeOld", "freeTaken"}

SerialOf(w) == IF w \in Requests THEN serial[w] ELSE serial[Answers[w]]

converted(w) == SerialOf(w) % MapSize      \* the cell a worker is about
current(w)   == SerialOf(w) \div MapSize   \* the generation of that cell

Cell(w) == cell[converted(w)]
Live(p) == p # NULL /\ status[p] = "live"

InMap(w) == pc[w] \in AddPc \cup QueryPc

\* Somebody is in the map on cell c when another worker enters it.
Enter(c) ==
  overlap' = (overlap \/ \E w \in Worker : InMap(w) /\ converted(w) = c)

Step(w, at, to) ==
  /\ ~crashed
  /\ pc[w] = at
  /\ pc' = [pc EXCEPT ![w] = to]

Init ==
  /\ alloc = 0
  /\ cell = [c \in 0 .. MapSize - 1 |-> NULL]
  /\ status = [r \in Requests |-> "none"]
  /\ timeout = [r \in Requests |-> Junk]
  /\ origin = [r \in Requests |-> Junk]
  /\ last = [r \in Requests |-> Junk]
  /\ from = [r \in Requests |-> Junk]
  /\ clock = 0
  /\ crashed = FALSE
  /\ pc = [w \in Worker |-> "start"]
  /\ serial = [r \in Requests |-> 0]
  /\ temp = [w \in Worker |-> NULL]
  /\ toId = [p \in Responses |-> NULL]
  /\ toAddr = [p \in Responses |-> NULL]
  /\ round = 0
  /\ roundOf = [r \in Requests |-> 0]
  /\ overlap = FALSE
----------------------------------------------------------------------------
(* addToMap, run by the worker of a request *)

MutNextSerial == alloc + 1      \* mutant: the counter does not wrap
NextSerial == (alloc + 1) % SerialMod

\* The critical section of writeLock .. unlock, the only one of the map.
Allocate(r) ==
  LET s == NextSerial IN
  /\ Step(r, "start", "check")
  /\ alloc' = s
  /\ serial' = [serial EXCEPT ![r] = s]
  /\ round' = IF s = 0 THEN round + 1 ELSE round
  /\ roundOf' = [roundOf EXCEPT ![r] = round']
  /\ Enter(s % MapSize)
  /\ UNCHANGED <<cell, heap, clock, crashed, temp, reply>>

\* The two halves of `cell != NULL && cell->_time_out > time(NULL)'.
CheckEmpty(r) ==
  /\ \/ Cell(r) = NULL /\ Step(r, "check", "save")
     \/ Cell(r) # NULL /\ Step(r, "check", "checkTime")
  /\ UNCHANGED <<shared, serial, temp, reply, history>>

MutCheckTimeout(r) ==           \* mutant: an unexpired node is replaced
  /\ Live(Cell(r)) /\ Step(r, "checkTime", "save")
  /\ UNCHANGED <<shared, serial, temp, reply, history>>

\* A field nobody has written yet compares either way.
CheckTimeout(r) ==
  /\ Live(Cell(r))
  /\ LET t == timeout[Cell(r)] IN
       \/ (t # Junk => t > clock)    /\ Step(r, "checkTime", "busy")
       \/ (t # Junk => t <= clock)   /\ Step(r, "checkTime", "save")
  /\ UNCHANGED <<shared, serial, temp, reply, history>>

SaveOld(r) ==
  /\ Step(r, "save", "publish")
  /\ temp' = [temp EXCEPT ![r] = Cell(r)]
  /\ UNCHANGED <<shared, serial, reply, history>>

\* The malloc'd node is in the table before any of its fields is written.
Publish(r) ==
  /\ Step(r, "publish", "setTimeout")
  /\ status' = [status EXCEPT ![r] = "live"]
  /\ cell' = [cell EXCEPT ![converted(r)] = r]
  /\ UNCHANGED <<alloc, timeout, origin, last, from, clock, crashed>>
  /\ UNCHANGED <<serial, temp, reply, history>>

\* Each of the four stores goes through the cell, not through a local.
SetTimeout(r) ==
  /\ Live(Cell(r)) /\ Step(r, "setTimeout", "setOrigin")
  /\ timeout' = [timeout EXCEPT ![Cell(r)] = clock + ConvertTTL]
  /\ UNCHANGED <<alloc, cell, status, origin, last, from, clock, crashed>>
  /\ UNCHANGED <<serial, temp, reply, history>>

SetOrigin(r) ==
  /\ Live(Cell(r)) /\ Step(r, "setOrigin", "setLast")
  /\ origin' = [origin EXCEPT ![Cell(r)] = r]
  /\ UNCHANGED <<alloc, cell, status, timeout, last, from, clock, crashed>>
  /\ UNCHANGED <<serial, temp, reply, history>>

SetLast(r) ==
  /\ Live(Cell(r)) /\ Step(r, "setLast", "setFrom")
  /\ last' = [last EXCEPT ![Cell(r)] = current(r)]
  /\ UNCHANGED <<alloc, cell, status, timeout, origin, from, clock, crashed>>
  /\ UNCHANGED <<serial, temp, reply, history>>

SetFrom(r) ==
  /\ Live(Cell(r)) /\ Step(r, "setFrom", "freeOld")
  /\ from' = [from EXCEPT ![Cell(r)] = r]
  /\ UNCHANGED <<alloc, cell, status, timeout, origin, last, clock, crashed>>
  /\ UNCHANGED <<serial, temp, reply, history>>

\* free(temp), NULL being harmless.
Free(w) ==
  /\ temp[w] = NULL \/ Live(temp[w])
  /\ status' = IF temp[w] = NULL THEN status
               ELSE [status EXCEPT ![temp[w]] = "freed"]
  /\ UNCHANGED <<timeout, origin, last, from>>

MutFreeOld(r) ==                \* mutant: the replaced node is not freed
  /\ Step(r, "freeOld", "sent")
  /\ UNCHANGED <<shared, serial, temp, reply, history>>

\* Free the replaced node and return; connectHandle relays the request.
FreeOld(r) ==
  /\ Step(r, "freeOld", "sent") /\ Free(r)
  /\ UNCHANGED <<alloc, cell, clock, crashed, serial, temp, reply, history>>
----------------------------------------------------------------------------
(* queryMap, run by the worker of a response *)

\* The datagram of a relayed request arrives, at any later moment or never.
Arrive(p) ==
  /\ pc[Answers[p]] = "sent"
  /\ Step(p, "start", "test")
  /\ Enter(converted(p))
  /\ UNCHANGED <<shared, serial, temp, reply, round, roundOf>>

\* The two halves of `cell == NULL || cell->_last != current'.
TestEmpty(p) ==
  /\ \/ Cell(p) = NULL /\ Step(p, "test", "unmatched")
     \/ Cell(p) # NULL /\ Step(p, "test", "testLast")
  /\ UNCHANGED <<shared, serial, temp, reply, history>>

MutTestLast(p) ==               \* mutant: the generation is not compared
  /\ Live(Cell(p)) /\ Step(p, "testLast", "copyOrigin")
  /\ UNCHANGED <<shared, serial, temp, reply, history>>

TestLast(p) ==
  /\ Live(Cell(p))
  /\ LET l == last[Cell(p)] IN
       \/ (l # Junk => l # current(p)) /\ Step(p, "testLast", "unmatched")
       \/ (l # Junk => l = current(p)) /\ Step(p, "testLast", "copyOrigin")
  /\ UNCHANGED <<shared, serial, temp, reply, history>>

MutCopyOrigin(p) ==             \* mutant: generation and cell are swapped
  /\ Live(cell[current(p)]) /\ Step(p, "copyOrigin", "copyFrom")
  /\ toId' = [toId EXCEPT ![p] = origin[cell[current(p)]]]
  /\ UNCHANGED <<shared, serial, temp, toAddr, history>>

CopyOrigin(p) ==
  /\ Live(Cell(p)) /\ Step(p, "copyOrigin", "copyFrom")
  /\ toId' = [toId EXCEPT ![p] = origin[Cell(p)]]
  /\ UNCHANGED <<shared, serial, temp, toAddr, history>>

CopyFrom(p) ==
  /\ Live(Cell(p)) /\ Step(p, "copyFrom", "saveOld")
  /\ toAddr' = [toAddr EXCEPT ![p] = from[Cell(p)]]
  /\ UNCHANGED <<shared, serial, temp, toId, history>>

MutSaveTaken(p) ==              \* mutant: the mapping is not consumed
  /\ Step(p, "saveOld", "delivered")
  /\ UNCHANGED <<shared, serial, temp, reply, history>>

SaveTaken(p) ==
  /\ Step(p, "saveOld", "clear")
  /\ temp' = [temp EXCEPT ![p] = Cell(p)]
  /\ UNCHANGED <<shared, serial, reply, history>>

MutClear(p) ==                  \* mutant: the cell keeps the freed node
  /\ Step(p, "clear", "freeTaken")
  /\ UNCHANGED <<shared, serial, temp, reply, history>>

Clear(p) ==
  /\ Step(p, "clear", "freeTaken")
  /\ cell' = [cell EXCEPT ![converted(p)] = NULL]
  /\ UNCHANGED <<alloc, heap, clock, crashed, serial, temp, reply, history>>

\* Free the node and return 0; connectHandle sends to toAddr[p].
FreeTaken(p) ==
  /\ Step(p, "freeTaken", "delivered") /\ Free(p)
  /\ UNCHANGED <<alloc, cell, clock, crashed, serial, temp, reply, history>>
----------------------------------------------------------------------------
\* Any worker that dereferences or frees a node that is not there.
Fault(w) ==
  /\ ~crashed
  /\ \/ pc[w] \in DerefPc /\ ~Live(Cell(w))
     \/ pc[w] \in FreePc /\ temp[w] # NULL /\ ~Live(temp[w])
  /\ crashed' = TRUE
  /\ UNCHANGED <<alloc, cell, heap, clock, pc, serial, temp, reply, history>>

Tick ==
  /\ ~crashed /\ clock < MaxClock
  /\ clock' = clock + 1
  /\ UNCHANGED <<alloc, cell, heap, crashed, pc, serial, temp, reply, history>>

addToMap(r) ==
  \/ Allocate(r) \/ CheckEmpty(r) \/ CheckTimeout(r) \/ SaveOld(r)
  \/ Publish(r) \/ SetTimeout(r) \/ SetOrigin(r) \/ SetLast(r)
  \/ SetFrom(r) \/ FreeOld(r)

queryMap(p) ==
  \/ Arrive(p) \/ TestEmpty(p) \/ TestLast(p) \/ CopyOrigin(p)
  \/ CopyFrom(p) \/ SaveTaken(p) \/ Clear(p) \/ FreeTaken(p)

Next ==
  \/ \E r \in Requests : addToMap(r)
  \/ \E p \in Responses : queryMap(p)
  \/ \E w \in Worker : Fault(w)
  \/ Tick

Spec == Init /\ [][Next]_vars
----------------------------------------------------------------------------
(* Types *)

\* Every variable holds what the C declarations of map.h and map.c allow.
TypeOK ==
  /\ alloc \in 0 .. SerialMod - 1
  /\ cell \in [0 .. MapSize - 1 -> Requests \cup {NULL}]
  /\ status \in [Requests -> {"none", "live", "freed"}]
  /\ timeout \in [Requests -> Nat \cup {Junk}]
  /\ origin \in [Requests -> Requests \cup {Junk}]
  /\ last \in [Requests -> Nat \cup {Junk}]
  /\ from \in [Requests -> Requests \cup {Junk}]
  /\ clock \in 0 .. MaxClock
  /\ crashed \in BOOLEAN
  /\ pc \in [Worker -> {"start"} \cup AddPc \cup QueryPc \cup Outcome]
  /\ serial \in [Requests -> 0 .. SerialMod - 1]
  /\ temp \in [Worker -> Requests \cup {NULL}]
  /\ toId \in [Responses -> Requests \cup {NULL, Junk}]
  /\ toAddr \in [Responses -> Requests \cup {NULL, Junk}]
  /\ round \in Nat
  /\ roundOf \in [Requests -> Nat]
  /\ overlap \in BOOLEAN
----------------------------------------------------------------------------
(* Safety.  Each property holds as long as no two workers were ever in the *)
(* map on the SAME cell at once; workers on different cells interleave as  *)
(* they like.                                                              *)

\* The unlocked accesses touch only live nodes: addToMap and queryMap never
\* follow a null or freed pointer and never free a node twice.
NoFaultAlone == ~overlap => ~crashed

\* The reply that queryMap hands out carries the identifier and the address
\* of ONE request, the one that was relayed under that serial; the only other
\* possibility is the one the comment in map.c describes, a request that drew
\* the same serial in another round of the counter.
RightClient ==
  ~overlap => \A p \in Responses : pc[p] = "delivered" =>
    LET r == toAddr[p] IN
    /\ r \in Requests
    /\ toId[p] = r
    /\ \/ r = Answers[p]
       \/ serial[r] = serial[Answers[p]] /\ roundOf[r] > roundOf[Answers[p]]

\* A reply duplicated on the wire reaches its client once: the first copy
\* consumes the mapping.
AtMostOnce ==
  ~overlap => \A p, q \in Responses :
    pc[p] = "delivered" /\ pc[q] = "delivered" /\ p # q
      => toAddr[p] # toAddr[q]

\* A mapping lasts CONVERT_TTL seconds: a reply finds nothing only when its
\* request has been answered already or the mapping had expired.
NoEarlyDrop ==
  ~overlap => \A p \in Responses : pc[p] = "unmatched" =>
    \/ \E q \in Responses : pc[q] = "delivered" /\ toAddr[q] = Answers[p]
    \/ timeout[Answers[p]] <= clock

\* No node is lost: a live node is in its cell or in the local of the worker
\* that is about to free it.
NoLeak ==
  ~overlap => \A n \in Requests : status[n] = "live" =>
    \/ Cell(n) = n
    \/ \E w \in Worker : InMap(w) /\ temp[w] = n

\* Even with overlap, a race stays within its cell until it touches a node that
\* is not there any more (after which the heap may be anything): what queryMap
\* has handed out by then was stored by requests of the same cell, or is a
\* field nobody has written since malloc.
RaceConfined ==
  ~crashed => \A p \in Responses : pc[p] = "delivered" =>
    {toId[p], toAddr[p]}
      \subseteq {Junk} \cup {r \in Requests : converted(r) = converted(p)}

\* The contract in the comment of queryMap: a result of 0 hands out the
\* identifier and the address that addToMap stored for ONE request.
SuccessIsOrigin ==
  \A p \in Responses : pc[p] = "delivered" =>
    /\ toId[p] \in Requests
    /\ toAddr[p] = toId[p]

----------------------------------------------------------------------------
(* IdTable is implemented until two workers meet on one cell.  An addToMap   *)
(* takes effect when it writes _time_out, a queryMap that finds its mapping  *)
(* when it clears the cell, one that does not when it has seen so.           *)

AbsHolder(c) ==
  IF \E r \in Requests : pc[r] = "setTimeout" /\ converted(r) = c
    THEN temp[CHOOSE r \in Requests : pc[r] = "setTimeout" /\ converted(r) = c]
    ELSE cell[c]

AbsState(w) ==
  CASE pc[w] = "start" \/ pc[w] \in QueryPc \ {"freeTaken"} -> "idle"
    [] pc[w] \in {"check", "checkTime", "save", "publish", "setTimeout"} -> "drawn"
    [] pc[w] \in {"setOrigin", "setLast", "setFrom", "freeOld", "sent"} -> "sent"
    [] pc[w] \in {"freeTaken", "delivered"} -> "delivered"
    [] OTHER -> pc[w]

Atomic == INSTANCE IdTable WITH
  holder <- [c \in 0 .. MapSize - 1 |-> AbsHolder(c)],
  expires <- [r \in Requests |-> IF timeout[r] = Junk THEN 0 ELSE timeout[r]],
  state <- [w \in Worker |-> AbsState(w)],
  to <- [p \in Responses |-> IF AbsState(p) = "delivered" THEN toAddr[p] ELSE NULL],
  met <- overlap

\* Access by access, the map is the atomic table that the relay takes it for:
\* an addToMap or a queryMap takes effect at one moment, as long as no two
\* workers are in the map on one cell.
ImplementsIdTable == Atomic!Spec

=============================================================================
