------------------------------- MODULE Relay -------------------------------
(***************************************************************************)
(* The relay as a whole (src/Server/basic.c): the receive loop of start,   *)
(* one detached worker of connectHandle per datagram, the console thread,  *)
(* and around them the clients, the upstream servers and a network that    *)
(* loses, duplicates and reorders datagrams.                               *)
(*                                                                         *)
(* The cells of the identifier map have no lock.  addToMap and queryMap    *)
(* are two steps each here, what they read and what they write, and their  *)
(* workers may be on one cell together (`met'); what a worker then reads   *)
(* there may be anything.  IdMap has every access and every node.  Relay   *)
(* goes on after the meeting, with a heap that survived it: what a node    *)
(* freed twice does to other cells is not in this module.                  *)
(*                                                                         *)
(* A query has one question.  The cache holds the records of replies and   *)
(* may lose any of them at any time (UrlQuery and LRUCache have its        *)
(* details).                                                               *)
(*                                                                         *)
(* A worker ends by closing a descriptor that was never set: it may be any *)
(* open one, the server's socket included.                                 *)
(***************************************************************************)
EXTENDS Integers

CONSTANTS
  Requests,    \* datagrams of clients; a retry or a duplicate is a member
  Responses,   \* datagrams of the upstream servers; a duplicate is a member
  Answers,     \* the request each response answers
  Name,        \* the name each request asks for
  HostNames,   \* the names in the host file, black list included
  Servers,     \* addresses the console may set as upstream server
  Up,          \* those of them under which a server answers
  Storing,     \* the responses that have an answer of the type asked for
  Life,        \* time to live of the record of each of them
  MapSize,     \* MAX_MAP_SIZE
  SerialMod,   \* UINT16_MAX
  ConvertTTL,  \* CONVERT_TTL
  MaxClock,    \* bound on the clock
  NULL         \* no request, no address

ASSUME RelayAssumption ==
  /\ Requests \cap Responses = {}
  /\ Answers \in [Responses -> Requests]
  /\ DOMAIN Name = Requests
  /\ Up \subseteq Servers
  /\ Storing \subseteq Responses
  /\ Life \in [Responses -> Nat]
  /\ MapSize \in Nat \ {0}
  /\ SerialMod \in Nat \ {0}
  /\ ConvertTTL \in Nat
  /\ MaxClock \in Nat
  /\ NULL \notin Requests \cup Servers

VARIABLES
  clock, alloc, serial, holder, expires, state, to,  \* as in IdTable
  met,        \* history: workers that were on a cell of the map together
  pc,         \* where each datagram, and then its worker, is
  hosts,      \* the names in __HOST_HASHMAP__
  cached,     \* the replies whose records are in __URL_CACHE__
  freshUntil, \* the timestamp of the record of each reply
  evicted,    \* history: records the cache has lost
  upstream,   \* __DNS_SERVER__
  sentTo,     \* history: the server that got each request, if any
  replies,    \* history: how many replies were sent to the client of a request
  listening   \* the descriptor of the server's socket is open

table == <<alloc, serial, holder, expires, state, to, met>>
cache == <<cached, freshUntil, evicted>>
net == <<sentTo, replies>>
vars == <<clock, table, pc, hosts, cache, upstream, net, listening>>

Map == INSTANCE IdTable WITH met <- met # {}
----------------------------------------------------------------------------
Worker == Requests \cup Responses

Goto(w, at, next) == pc[w] = at /\ pc' = [pc EXCEPT ![w] = next]

Init ==
  /\ Map!Init
  /\ met = {}
  /\ pc = [w \in Worker |-> "net"]
  /\ hosts \in {HostNames, {}}      \* there may be no host file
  /\ cached = {}
  /\ freshUntil = [p \in Responses |-> 0]
  /\ evicted = {}
  /\ upstream \in Servers
  /\ sentTo = [r \in Requests |-> NULL]
  /\ replies = [r \in Requests |-> 0]
  /\ listening = TRUE
----------------------------------------------------------------------------
(* The network and the loop of start *)

\* A datagram is on its way from the moment its sender may send it; there is no
\* other order among datagrams.
OnItsWay(w) == pc[w] = "net" /\ (w \in Responses => sentTo[Answers[w]] \in Up)

Lose(p) ==
  /\ OnItsWay(p) /\ Goto(p, "net", "lost")
  /\ UNCHANGED <<clock, hosts, table, cache, upstream, net, listening>>

\* One round of the loop.  On a closed descriptor select fails for ever and
\* nothing is received.
Receive(w) ==
  /\ listening /\ OnItsWay(w)
  /\ Goto(w, "net", IF w \in Requests THEN "query" ELSE "store")
  /\ UNCHANGED <<clock, hosts, table, cache, upstream, net, listening>>
----------------------------------------------------------------------------
(* The cells of the map, which nobody locks *)

\* The workers that have read the cell of w and have still to write to it.
CellFor(w) == Map!CellOf(IF w \in Requests THEN w ELSE Answers[w])
Others(w) == {v \in Worker \ {w} : pc[v] \in {"record", "clear"} /\ CellFor(v) = CellFor(w)}

\* w joins them.
Meet(w) == met' = IF Others(w) = {} THEN met ELSE met \cup {w} \cup Others(w)
----------------------------------------------------------------------------
(* connectHandle for a query *)

\* The walk of the cache, under its lock.
InCache(r) == \E p \in cached : Name[Answers[p]] = Name[r] /\ freshUntil[p] >= clock

Walk(r) ==
  /\ Goto(r, "query", IF InCache(r) THEN "reply" ELSE "join")
  /\ UNCHANGED <<clock, hosts, table, cache, upstream, net, listening>>

\* The thread that searches the host table is joined.  A reply that entered the
\* cache since the walk is not looked at.
Join(r) ==
  /\ Goto(r, "join", IF Name[r] \in hosts THEN "reply" ELSE "draw")
  /\ UNCHANGED <<clock, hosts, table, cache, upstream, net, listening>>

\* sendto fails on a closed descriptor, which is logged and no more.
SendBack(r) ==
  /\ Goto(r, "reply", "end")
  /\ replies' = IF listening THEN [replies EXCEPT ![r] = @ + 1] ELSE replies
  /\ UNCHANGED <<clock, hosts, table, cache, upstream, sentTo, listening>>

\* The half of addToMap that is under a lock.
Draw(r) ==
  /\ Map!Draw(r) /\ Goto(r, "draw", "check")
  /\ UNCHANGED <<met, hosts, cache, upstream, net, listening>>

\* The cell is empty or the time of its mapping is over.
Vacant(r) == Map!Holder(r) # NULL => expires[Map!Holder(r)] <= clock

Check(r) ==
  /\ Vacant(r) \/ Others(r) # {}
  /\ Goto(r, "check", "record")
  /\ Meet(r)
  /\ UNCHANGED <<clock, alloc, serial, holder, expires, state, to>>
  /\ UNCHANGED <<hosts, cache, upstream, net, listening>>

MutBusy(r) ==                   \* mutant: the last moment counts as unexpired
  /\ \/ Map!Holder(r) # NULL /\ expires[Map!Holder(r)] >= clock
     \/ Others(r) # {}
  /\ Map!Become(r, "drawn", "busy") /\ Goto(r, "check", "end")
  /\ UNCHANGED <<clock, alloc, serial, holder, expires, to, met>>
  /\ UNCHANGED <<hosts, cache, upstream, net, listening>>
\* UINT16_MAX: "relay service busy"; the client gets nothing.
Busy(r) ==
  /\ ~ Vacant(r) \/ Others(r) # {}
  /\ Map!Become(r, "drawn", "busy") /\ Goto(r, "check", "end")
  /\ UNCHANGED <<clock, alloc, serial, holder, expires, to, met>>
  /\ UNCHANGED <<hosts, cache, upstream, net, listening>>

\* Whatever is in the cell by now is replaced.
Record(r) ==
  /\ Map!Become(r, "drawn", "sent") /\ Goto(r, "record", "send")
  /\ holder' = [holder EXCEPT ![Map!CellOf(r)] = r]
  /\ expires' = [expires EXCEPT ![r] = clock + ConvertTTL]
  /\ UNCHANGED <<clock, alloc, serial, to, met>>
  /\ UNCHANGED <<hosts, cache, upstream, net, listening>>

\* The query goes to the address that __DNS_SERVER__ has at this moment, or is
\* lost on its way.  There is no second attempt.
SendOn(r) ==
  /\ Goto(r, "send", "end")
  /\ \E s \in IF listening THEN {upstream, NULL} ELSE {NULL} :
       sentTo' = [sentTo EXCEPT ![r] = s]
  /\ UNCHANGED <<clock, hosts, table, cache, upstream, replies, listening>>
----------------------------------------------------------------------------
(* connectHandle for a reply *)

MutUrlStore(p) ==               \* mutant: only replies that are waited for count
  LET r == Answers[p] IN
  /\ Goto(p, "store", "match")
  /\ IF p \in Storing /\ Map!Holder(r) = r
       THEN /\ cached' = cached \cup {p}
            /\ freshUntil' = [freshUntil EXCEPT ![p] = clock + Life[p]]
       ELSE UNCHANGED <<cached, freshUntil>>
  /\ UNCHANGED <<clock, hosts, table, evicted, upstream, net, listening>>
\* The record enters the cache before anybody has asked whether the reply is
\* still waited for; a reply without an answer of the type leaves none.
UrlStore(p) ==
  /\ Goto(p, "store", "match")
  /\ IF p \in Storing
       THEN /\ cached' = cached \cup {p}
            /\ freshUntil' = [freshUntil EXCEPT ![p] = clock + Life[p]]
       ELSE UNCHANGED <<cached, freshUntil>>
  /\ UNCHANGED <<clock, hosts, table, evicted, upstream, net, listening>>

\* The requests whose mapping the reply p may find under its serial; what the
\* bytes of a cell say that somebody writes to or frees may be no request's.
Mapped(p) == Map!Holder(Answers[p]) # NULL /\ serial[Map!Holder(Answers[p])] = serial[Answers[p]]
Found(p) ==
  IF Others(p) # {} THEN Requests \cup {NULL}
  ELSE IF Mapped(p) THEN {Map!Holder(Answers[p])} ELSE {}

\* queryMap to the end of its copies.
Find(p) ==
  /\ Map!Become(p, "idle", "delivered") /\ Goto(p, "match", "clear")
  /\ \E r \in Found(p) : to' = [to EXCEPT ![p] = r]
  /\ Meet(p)
  /\ UNCHANGED <<clock, alloc, serial, holder, expires>>
  /\ UNCHANGED <<hosts, cache, upstream, net, listening>>

Miss(p) ==
  /\ ~ Mapped(p) \/ Others(p) # {}
  /\ Map!Become(p, "idle", "unmatched") /\ Goto(p, "match", "end")
  /\ UNCHANGED <<clock, alloc, serial, holder, expires, to, met>>
  /\ UNCHANGED <<hosts, cache, upstream, net, listening>>

MutClearLate(p) ==              \* mutant: an expired mapping is consumed for nothing
  /\ Goto(p, "clear", IF to[p] # NULL /\ expires[to[p]] <= clock THEN "end" ELSE "forward")
  /\ holder' = [holder EXCEPT ![CellFor(p)] = NULL]
  /\ UNCHANGED <<clock, alloc, serial, expires, state, to, met>>
  /\ UNCHANGED <<hosts, cache, upstream, net, listening>>
MutClear(p) ==                  \* mutant: only the time of the mapping is cleared
  /\ Goto(p, "clear", "forward")
  /\ expires' = IF to[p] = NULL THEN expires ELSE [expires EXCEPT ![to[p]] = 0]
  /\ UNCHANGED <<clock, alloc, serial, holder, state, to, met>>
  /\ UNCHANGED <<hosts, cache, upstream, net, listening>>
\* The rest of it: the cell is emptied, whatever is in it by now.
Clear(p) ==
  /\ Goto(p, "clear", "forward")
  /\ holder' = [holder EXCEPT ![CellFor(p)] = NULL]
  /\ UNCHANGED <<clock, alloc, serial, expires, state, to, met>>
  /\ UNCHANGED <<hosts, cache, upstream, net, listening>>

Forward(p) ==
  /\ Goto(p, "forward", "end")
  /\ replies' = IF listening /\ to[p] # NULL
                  THEN [replies EXCEPT ![to[p]] = @ + 1] ELSE replies
  /\ UNCHANGED <<clock, hosts, table, cache, upstream, sentTo, listening>>
----------------------------------------------------------------------------
(* The end of every worker: socketClose(&args->connect), whose _fd nobody    *)
(* has set, and which was freed three lines before.  Closing some other      *)
(* descriptor, or none, changes nothing here.                                *)

SocketClose(w) ==
  /\ pc[w] = "end"
  /\ listening /\ listening' = FALSE
  /\ UNCHANGED <<clock, hosts, table, pc, cache, upstream, net>>
----------------------------------------------------------------------------
(* The other threads and the clock *)

\* Replaced by a newer record, overdue and scanned, or flushed.
Evict(p) ==
  /\ p \in cached
  /\ cached' = cached \ {p}
  /\ evicted' = evicted \cup {p}
  /\ freshUntil' = [freshUntil EXCEPT ![p] = 0]
  /\ UNCHANGED <<clock, hosts, table, pc, upstream, net, listening>>

\* debugHandle: the command `server <address>'.
Server(s) ==
  /\ s # upstream /\ upstream' = s
  /\ UNCHANGED <<clock, hosts, table, pc, cache, net, listening>>

Tick == clock < MaxClock /\ Map!Tick /\ UNCHANGED <<met, pc, hosts, cache, upstream, net, listening>>
----------------------------------------------------------------------------
request(r) ==
  \/ Walk(r) \/ Join(r) \/ SendBack(r)
  \/ Draw(r) \/ Check(r) \/ Busy(r) \/ Record(r) \/ SendOn(r)
response(p) == UrlStore(p) \/ Find(p) \/ Miss(p) \/ Clear(p) \/ Forward(p)

connectHandle(w) == (w \in Requests /\ request(w)) \/ (w \in Responses /\ response(w))

Next ==
  \/ \E w \in Worker : Receive(w) \/ connectHandle(w) \/ SocketClose(w)
  \/ \E p \in Responses : Lose(p) \/ Evict(p)
  \/ \E s \in Servers : Server(s)
  \/ Tick

Spec == Init /\ [][Next]_vars

\* The loop goes on, every thread gets to run, and a server that is up answers.
\* Nobody has to ask, to lose, to evict, to close or to type anything.
Fairness ==
  /\ \A p \in Responses : WF_vars(Receive(p))
  /\ \A w \in Worker : WF_vars(connectHandle(w))

FairSpec == Spec /\ Fairness
----------------------------------------------------------------------------
(* Properties *)

TypeOK ==
  /\ clock \in 0 .. MaxClock
  /\ alloc \in 0 .. SerialMod - 1
  /\ serial \in [Requests -> 0 .. SerialMod - 1]
  /\ holder \in [0 .. MapSize - 1 -> Requests \cup {NULL}]
  /\ expires \in [Requests -> 0 .. MaxClock + ConvertTTL]
  /\ state \in [Worker -> {"idle", "drawn", "sent", "busy", "delivered", "unmatched"}]
  /\ to \in [Responses -> Requests \cup {NULL}]
  /\ met \subseteq Worker
  /\ pc \in [Worker -> {"net", "lost", "query", "join", "reply", "draw", "check", "record",
                        "send", "store", "match", "clear", "forward", "end"}]
  /\ hosts \subseteq HostNames
  /\ cached \subseteq Responses
  /\ freshUntil \in [Responses -> Nat]
  /\ evicted \subseteq Responses
  /\ upstream \in Servers
  /\ sentTo \in [Requests -> Servers \cup {NULL}]
  /\ replies \in [Requests -> Nat]
  /\ listening \in BOOLEAN

\* A second reply to a query takes a copy of a reply that shared its cell of the
\* map with another worker, between reading it and clearing it: no other
\* duplicate, late reply or repeated question makes connectHandle answer twice.
OneReply ==
  \A r \in Requests : replies[r] > 1 => \E p \in Responses \cap met : to[p] = r

\* A query is refused as busy only while another worker is on its cell, or the
\* request in it is unexpired and no reply that had the cell to itself has
\* found its mapping.
RefusedFor(r) ==
  \/ Others(r) # {}
  \/ \E s \in Requests \ {r} :
       /\ Map!CellOf(s) = Map!CellOf(r) /\ state[s] = "sent" /\ clock < expires[s]
       /\ \A p \in Responses : to[p] = s => p \in met
RefusalJust ==
  [][\A r \in Requests : state[r] = "drawn" /\ state'[r] = "busy" => RefusedFor(r)]_vars

\* The walk of the cache finds nothing, so that the query may go upstream, only
\* if every record about its name that came with a reply the relay has dealt
\* with by then, a late or duplicated one that found no mapping included, has
\* run out of time or has been dropped.
Seen(p) == state[p] \in {"delivered", "unmatched"}
RelayedWhenUnknown ==
  [][\A r \in Requests : pc[r] = "query" /\ pc'[r] = "join" =>
       \A p \in Storing : Seen(p) /\ Name[Answers[p]] = Name[r]
         => p \in evicted \/ freshUntil[p] < clock]_vars

\* A query that was received ends in a reply to its client, unless it was
\* refused, no server got it or all replies were lost, another request has taken
\* its cell after its time, it met another worker there when it was recorded, or
\* the server's socket is gone.
Replied(r) == replies[r] > 0
Unanswered(r) ==
  /\ pc[r] = "end" /\ state[r] = "sent"
  /\ \/ sentTo[r] \notin Up
     \/ \A p \in Responses : Answers[p] = r => pc[p] = "lost"
Overtaken(r) ==
  \E s \in Requests :
    /\ state[r] = "sent" /\ state[s] = "sent" /\ Map!CellOf(s) = Map!CellOf(r)
    /\ s # r /\ expires[s] >= expires[r] + ConvertTTL
Served ==
  \A r \in Requests :
    pc[r] = "query" ~>
      Replied(r) \/ state[r] = "busy" \/ Unanswered(r) \/ Overtaken(r) \/ r \in met
      \/ ~listening

=============================================================================
