------------------------------ MODULE IdTable ------------------------------
(***************************************************************************)
(* What src/Server/map.c promises: a table from serial numbers to requests *)
(* whose operations are atomic.  A request draws a serial number and then  *)
(* takes the cell of that number or is refused; a reply finds the mapping  *)
(* of its serial number and consumes it, or finds none.                    *)
(*                                                                         *)
(* The promise ends when two workers meet on one cell (`met').  Nothing    *)
(* locks a cell, so that two copies of a reply that are in queryMap        *)
(* together may both find a mapping that Match gives to one: such a step   *)
(* is met'.  IdMap implements this module; Relay, which goes on after the  *)
(* meeting, has the calls in two steps and takes the table's state, Draw   *)
(* and Tick from here.                                                     *)
(***************************************************************************)
EXTENDS Integers

CONSTANTS
  Requests,    \* client queries that miss the local tables
  Responses,   \* datagrams of the upstream server; a duplicate is a member
  Answers,     \* the request each response answers
  MapSize,     \* MAX_MAP_SIZE
  SerialMod,   \* UINT16_MAX
  ConvertTTL,  \* CONVERT_TTL
  NULL         \* no request

VARIABLES
  clock,    \* time(NULL)
  alloc,    \* __MAP_ALLOC__
  serial,   \* the number that each request has drawn
  holder,   \* the request whose mapping each cell holds
  expires,  \* the time from which the mapping of a request may be replaced
  state,    \* what has become of each request and each reply
  to,       \* the request whose client a reply is for
  met       \* two workers were in the table on the same cell

table == <<alloc, serial, holder, expires, state, to>>
vars == <<table, clock, met>>
----------------------------------------------------------------------------
Worker == Requests \cup Responses

CellOf(r) == serial[r] % MapSize
Holder(r) == holder[CellOf(r)]

Become(w, old, new) == state[w] = old /\ state' = [state EXCEPT ![w] = new]

Init ==
  /\ clock = 0
  /\ alloc = 0
  /\ serial = [r \in Requests |-> 0]
  /\ holder = [c \in 0 .. MapSize - 1 |-> NULL]
  /\ expires = [r \in Requests |-> 0]
  /\ state = [w \in Worker |-> "idle"]
  /\ to = [p \in Responses |-> NULL]

MutDraw(r) ==                   \* mutant: the counter does not wrap
  /\ Become(r, "idle", "drawn")
  /\ alloc' = alloc + 1
  /\ serial' = [serial EXCEPT ![r] = alloc']
  /\ UNCHANGED <<clock, holder, expires, to>>
Draw(r) ==
  /\ Become(r, "idle", "drawn")
  /\ alloc' = (alloc + 1) % SerialMod
  /\ serial' = [serial EXCEPT ![r] = alloc']
  /\ UNCHANGED <<clock, holder, expires, to>>

\* A cell is taken when it is empty or its mapping has expired.
Record(r) ==
  /\ Become(r, "drawn", "sent")
  /\ Holder(r) # NULL => expires[Holder(r)] <= clock
  /\ holder' = [holder EXCEPT ![CellOf(r)] = r]
  /\ expires' = [expires EXCEPT ![r] = clock + ConvertTTL]
  /\ UNCHANGED <<clock, alloc, serial, to>>

Refuse(r) ==
  /\ Become(r, "drawn", "busy")
  /\ Holder(r) # NULL /\ expires[Holder(r)] > clock
  /\ UNCHANGED <<clock, alloc, serial, holder, expires, to>>

\* The reply carries the serial number of the request it answers, and finds the
\* mapping under it, expired or not.
Match(p) ==
  LET r == Answers[p] IN
  /\ state[r] = "sent" /\ Become(p, "idle", "delivered")
  /\ Holder(r) # NULL /\ serial[Holder(r)] = serial[r]
  /\ to' = [to EXCEPT ![p] = Holder(r)]
  /\ holder' = [holder EXCEPT ![CellOf(r)] = NULL]
  /\ UNCHANGED <<clock, alloc, serial, expires>>

Miss(p) ==
  LET r == Answers[p] IN
  /\ state[r] = "sent" /\ Become(p, "idle", "unmatched")
  /\ Holder(r) # NULL => serial[Holder(r)] # serial[r]
  /\ UNCHANGED <<clock, alloc, serial, holder, expires, to>>

Tick == clock' = clock + 1 /\ UNCHANGED table

Step ==
  \/ \E r \in Requests : Draw(r) \/ Record(r) \/ Refuse(r)
  \/ \E p \in Responses : Match(p) \/ Miss(p)
  \/ Tick

\* When two workers have met there is no promise any more.
Next == met' \/ (UNCHANGED met /\ Step)

Spec == Init /\ ~met /\ [][Next]_vars

=============================================================================
