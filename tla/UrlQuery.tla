------------------------------ MODULE UrlQuery ------------------------------
(***************************************************************************)
(* How a query is answered (src/Service/query.c), with the host table that *)
(* hostInit has read from a file (src/Service/host.c).                     *)
(*                                                                         *)
(* For each question of its packet a worker starts a host-query thread,    *)
(* walks the cache itself, and then either joins the thread (the cache had *)
(* nothing) or detaches it and goes on (the cache had an answer).  The     *)
(* thread writes its result through pointers to two locals of qnameSearch, *)
(* res_host and ret_host.  A write after qnameSearch has returned is       *)
(* undefined: it sets `stray', and the model says nothing of what follows. *)
(*                                                                         *)
(* The cache is what LruList says it is, without its order and capacity:   *)
(* connectHandle files the answers of every datagram with QR = 1 in it,    *)
(* whoever sent it and whether or not anybody asked, and it may lose any   *)
(* record at any time.                                                     *)
(***************************************************************************)
EXTENDS Integers, Sequences, FiniteSets

CONSTANTS
  Workers,     \* workers of connectHandle, each with a query to answer
  Packet,      \* QUESTS: the questions of each, [name, qtype] records
  Names,       \* the domain names that occur
  Types,       \* the 16-bit record types that occur
  A,           \* TYPE_A, 1 in the code
  AAAA,        \* TYPE_AAAA, 28 in the code
  TypeMod,     \* uint8_t: 256 in the code
  File,        \* the host file: its lines, [name, ip] records
  Terminated,  \* the last line of it ends in a newline
  Blank,       \* the name in an empty line
  Heard,       \* QUESTS[0] of the datagrams with QR = 1 that come in
  HostLife,    \* 0x80, the lifetime of an answer from the host table
  Lifetimes,   \* times to live in replies of the upstream server
  TtlMod,      \* uint32_t: 2^32 in the code
  MaxClock     \* bound on the clock

Question == [name : Names, qtype : Types]
Line == [name : Names \cup {Blank}, ip : {"v4", "v6", "0.0.0.0"}]
HostRecord == [line : Nat \ {0}, type : {A, AAAA}, blocked : BOOLEAN]

ASSUME UrlQueryAssumption ==
  /\ \A w \in Workers : Packet[w] \in Seq(Question) /\ Packet[w] # <<>>
  /\ Types \subseteq Nat
  /\ {A, AAAA} \subseteq Nat
  /\ TypeMod \in Nat \ {0}
  /\ File \in Seq(Line)
  /\ Terminated \in BOOLEAN
  /\ Blank \notin Names
  /\ Heard \subseteq Question
  /\ HostLife \in Nat
  /\ Lifetimes \subseteq Nat
  /\ TtlMod \in Nat \ {0}
  /\ MaxClock \in Nat

VARIABLES
  clock,     \* time(NULL)
  hostExists, \* __HOST_EXIST__, set by start
  cached,    \* the records of the cache
  pc,        \* where each worker is
  quest,     \* the loop index i of urlQuery
  resHost,   \* the locals of qnameSearch that its host thread writes ...
  retHost,   \* ... and the worker reads
  found,     \* what qnameSearch returns
  result,    \* *result
  resource,  \* the local `resource' of urlQuery
  seen,      \* history: the time at which the cache was walked
  ANS,       \* the answers loaded so far
  hpc,       \* where each host thread is
  todo,      \* the records its loop has not reached
  num,       \* its local `num'
  detached,  \* the host threads that were detached
  stray,     \* a write went to a frame that was gone
  hostFreed  \* strings of the host table were freed

frame == <<resHost, retHost>>
back == <<found, result, resource>>
thread == <<hpc, todo, num>>
global == <<clock, hostExists, cached, stray, hostFreed>>
vars == <<global, pc, quest, frame, back, seen, ANS, thread, detached>>
----------------------------------------------------------------------------
Outcome == {"answered", "relayed", "blocked"}
InCall == {"cache", "join", "detach"}       \* qnameSearch has not returned

\* The thread that serves the k-th question of w is <<w, k>>.
Threads == UNION {{w} \X DOMAIN Packet[w] : w \in Workers}

Quest(w) == Packet[w][quest[w]]
QuestOf(h) == Packet[h[1]][h[2]]
Mine(w) == <<w, quest[w]>>
FrameLive(h) == quest[h[1]] = h[2] /\ pc[h[1]] \in InCall

Narrow(t) == t % TypeMod        \* DNS_entry.type is a uint8_t

\* A DNS_entry under a name and a type.  A record of the host table has its
\* line, one of the cache has 0.
Record(name, type, expires, line) ==
  [name |-> name, type |-> type, expires |-> expires, line |-> line]

----------------------------------------------------------------------------
(* hostInit *)

MutEnter(tbl, i) ==             \* mutant: a later line takes the place of an earlier
  [n \in DOMAIN tbl \cup {File[i].name} |->
     IF n = File[i].name
       THEN <<[line |-> i, type |-> IF File[i].ip = "v6" THEN AAAA ELSE A,
               blocked |-> File[i].ip = "0.0.0.0"]>>
       ELSE tbl[n]]
\* A line becomes a record at the head of the list of its name.
Enter(tbl, i) ==
  LET n == File[i].name
      entry == [line |-> i, type |-> IF File[i].ip = "v6" THEN AAAA ELSE A,
                blocked |-> File[i].ip = "0.0.0.0"]
      list == IF n \in DOMAIN tbl THEN tbl[n] ELSE <<>>
  IN [m \in DOMAIN tbl \cup {n} |-> IF m = n THEN <<entry>> \o list ELSE tbl[m]]

\* `while(fgets(...) && !feof(fp))': the read of a last line that has no newline
\* meets the end of the file, and the line is dropped.
LinesRead == IF Terminated \/ File = <<>> THEN Len(File) ELSE Len(File) - 1

\* The host table: for each name in it the list of its records.
Host ==
  LET after[i \in 0 .. LinesRead] ==
        IF i = 0 THEN <<>>
        ELSE IF File[i].name = Blank THEN after[i - 1]
        ELSE Enter(after[i - 1], i)
  IN after[LinesRead]
----------------------------------------------------------------------------
Init ==
  /\ clock = 0
  /\ hostExists \in BOOLEAN
  /\ cached = {}
  /\ pc = [w \in Workers |-> "search"]
  /\ quest = [w \in Workers |-> 1]
  /\ resHost = [w \in Workers |-> {}]
  /\ retHost = [w \in Workers |-> 0]
  /\ found = [w \in Workers |-> 0]
  /\ result = [w \in Workers |-> {}]
  /\ resource = [w \in Workers |-> "unset"]
  /\ seen = [w \in Workers |-> 0]
  /\ ANS = [w \in Workers |-> {}]
  /\ hpc = [h \in Threads |-> "none"]
  /\ todo = [h \in Threads |-> <<>>]
  /\ num = [h \in Threads |-> 0]
  /\ detached = {}
  /\ stray = FALSE
  /\ hostFreed = FALSE

Goto(w, from, to) == ~stray /\ pc[w] = from /\ pc' = [pc EXCEPT ![w] = to]
----------------------------------------------------------------------------
(* qnameSearch *)

MutMatch(q) ==                  \* mutant: overdue records count as well
  {r \in cached : r.name = q.name /\ r.type = Narrow(q.qtype)}
\* cacheQuery, whose walk is one step here (LRUCache has it node by node)
Match(q) ==
  {r \in cached :
     r.name = q.name /\ r.expires >= clock /\ r.type = Narrow(q.qtype)}

\* No host file was read: the cache alone; *resource is not written.
CacheOnly(w) ==
  /\ ~hostExists /\ Goto(w, "search", "load")
  /\ found' = [found EXCEPT ![w] = Cardinality(Match(Quest(w)))]
  /\ result' = [result EXCEPT ![w] = Match(Quest(w))]
  /\ seen' = [seen EXCEPT ![w] = clock]
  /\ UNCHANGED <<global, quest, frame, resource, ANS, thread, detached>>

Spawn(w) ==
  /\ hostExists /\ Goto(w, "search", "cache")
  /\ resHost' = [resHost EXCEPT ![w] = {}]
  /\ retHost' = [retHost EXCEPT ![w] = 0]
  /\ hpc' = [hpc EXCEPT ![Mine(w)] = "lookup"]
  /\ UNCHANGED <<global, quest, back, seen, ANS, todo, num, detached>>

CacheQuery(w) ==
  LET ms == Match(Quest(w)) IN
  /\ Goto(w, "cache", IF ms = {} THEN "join" ELSE "detach")
  /\ found' = [found EXCEPT ![w] = Cardinality(ms)]
  /\ result' = [result EXCEPT ![w] = ms]
  /\ seen' = [seen EXCEPT ![w] = clock]
  /\ UNCHANGED <<global, quest, frame, resource, ANS, thread, detached>>

MutJoin(w) ==                   \* mutant: the thread is not waited for
  /\ Goto(w, "join", "load")
  /\ found' = [found EXCEPT ![w] = retHost[w]]
  /\ result' = [result EXCEPT ![w] = IF retHost[w] # 0 THEN resHost[w] ELSE {}]
  /\ resource' = [resource EXCEPT ![w] = "host"]
  /\ UNCHANGED <<global, quest, frame, seen, ANS, thread, detached>>

MutJoinResource(w) ==           \* mutant: *resource is left as it was
  /\ hpc[Mine(w)] = "exited" /\ Goto(w, "join", "load")
  /\ found' = [found EXCEPT ![w] = retHost[w]]
  /\ result' = [result EXCEPT ![w] = IF retHost[w] # 0 THEN resHost[w] ELSE {}]
  /\ UNCHANGED <<global, quest, frame, resource, seen, ANS, thread, detached>>

Join(w) ==
  /\ hpc[Mine(w)] = "exited" /\ Goto(w, "join", "load")
  /\ found' = [found EXCEPT ![w] = retHost[w]]
  /\ result' = [result EXCEPT ![w] = IF retHost[w] # 0 THEN resHost[w] ELSE {}]
  /\ resource' = [resource EXCEPT ![w] = "host"]
  /\ UNCHANGED <<global, quest, frame, seen, ANS, thread, detached>>

\* The flag that is cleared here is read by nobody: hostQuery tests the
\* pointer to it.
Detach(w) ==
  /\ Goto(w, "detach", "load")
  /\ detached' = detached \cup {Mine(w)}
  /\ resource' = [resource EXCEPT ![w] = "cache"]
  /\ UNCHANGED <<global, quest, frame, found, result, seen, ANS, thread>>
----------------------------------------------------------------------------
(* host_query_handle: hostQuery in a thread of its own *)

Begin(h, at) == ~stray /\ hpc[h] = at

\* The count of the list is local; `*result = malloc(...)' is the first write.
\* A name that is not in the table has nothing to go through.
HostLookup(h) ==
  /\ Begin(h, "lookup")
  /\ hpc' = [hpc EXCEPT ![h] = "loop"]
  /\ IF QuestOf(h).name \in DOMAIN Host
       THEN /\ FrameLive(h)
            /\ todo' = [todo EXCEPT ![h] = Host[QuestOf(h).name]]
            /\ resHost' = [resHost EXCEPT ![h[1]] = {}]
       ELSE UNCHANGED <<todo, resHost>>
  /\ UNCHANGED <<global, pc, quest, retHost, back, seen, ANS, num, detached>>

\* The copy of a record of the host table gets a lifetime of its own.
Copy(h, r) ==
  Record(QuestOf(h).name, r.type, clock + HostLife, r.line)

Wanted(h, r) == r.type = Narrow(QuestOf(h).qtype)
Refuses(h, r) == r.blocked /\ Narrow(QuestOf(h).qtype) = A

MutHostVisit(h) ==              \* mutant: a blocked address is an address
  /\ Begin(h, "loop")
  /\ todo[h] # <<>>
  /\ LET r == Head(todo[h]) IN
       /\ todo' = [todo EXCEPT ![h] = Tail(@)]
       /\ IF Wanted(h, r)
            THEN /\ FrameLive(h)
                 /\ num' = [num EXCEPT ![h] = @ + 1]
                 /\ resHost' = [resHost EXCEPT ![h[1]] = @ \cup {Copy(h, r)}]
            ELSE UNCHANGED <<num, resHost>>
  /\ UNCHANGED <<global, pc, quest, retHost, back, seen, ANS, hpc, detached>>

\* One round of the second loop: a blocked name ends it, a record of another
\* type is passed over, the rest is copied.
HostVisit(h) ==
  /\ Begin(h, "loop")
  /\ todo[h] # <<>>
  /\ LET r == Head(todo[h]) IN
       IF Refuses(h, r)
         THEN /\ num' = [num EXCEPT ![h] = -1]
              /\ todo' = [todo EXCEPT ![h] = <<>>]
              /\ UNCHANGED resHost
         ELSE /\ todo' = [todo EXCEPT ![h] = Tail(@)]
              /\ IF Wanted(h, r)
                   THEN /\ FrameLive(h)
                        /\ num' = [num EXCEPT ![h] = @ + 1]
                        /\ resHost' = [resHost EXCEPT ![h[1]] = @ \cup {Copy(h, r)}]
                   ELSE UNCHANGED <<num, resHost>>
  /\ UNCHANGED <<global, pc, quest, retHost, back, seen, ANS, hpc, detached>>

\* *res_num = ..., and the thread exits.
HostReport(h) ==
  /\ Begin(h, "loop") /\ todo[h] = <<>> /\ FrameLive(h)
  /\ retHost' = [retHost EXCEPT ![h[1]] = num[h]]
  /\ hpc' = [hpc EXCEPT ![h] = "exited"]
  /\ UNCHANGED <<global, pc, quest, resHost, back, seen, ANS, todo, num, detached>>

\* Any of the three writes when qnameSearch has returned.
Stray(h) ==
  /\ ~stray /\ ~FrameLive(h)
  /\ \/ hpc[h] = "lookup" /\ QuestOf(h).name \in DOMAIN Host
     \/ hpc[h] = "loop" /\ todo[h] # <<>>
          /\ ~Refuses(h, Head(todo[h])) /\ Wanted(h, Head(todo[h]))
     \/ hpc[h] = "loop" /\ todo[h] = <<>>
  /\ stray' = TRUE
  /\ UNCHANGED <<clock, hostExists, cached, hostFreed, pc, quest, frame, back,
                 seen, ANS, thread, detached>>
----------------------------------------------------------------------------
(* urlQuery, after qnameSearch has returned *)

\* One question found nothing or is on the black list: the whole packet is
\* relayed or refused, and the answers to earlier questions are dropped.
Refuse(w) ==
  /\ found[w] <= 0
  /\ Goto(w, "load", IF found[w] = -1 THEN "blocked" ELSE "relayed")
  /\ ANS' = [ANS EXCEPT ![w] = {}]
  /\ UNCHANGED <<global, quest, frame, back, seen, thread, detached>>

MutLoad(w) ==                   \* mutant: the difference keeps its sign
  /\ found[w] > 0
  /\ Goto(w, "load", IF quest[w] = Len(Packet[w]) THEN "answered" ELSE "search")
  /\ ANS' = [ANS EXCEPT ![w] = @ \cup
       {[quest |-> quest[w], rec |-> r, seen |-> seen[w],
         TTL |-> r.expires - clock] : r \in result[w]}]
  /\ hostFreed' = \/ hostFreed
                  \/ resource[w] = "cache" /\ \E r \in result[w] : r.line # 0
  /\ quest' = [quest EXCEPT ![w] = IF @ = Len(Packet[w]) THEN @ ELSE @ + 1]
  /\ UNCHANGED <<clock, hostExists, cached, stray, frame, back, seen, thread, detached>>

\* The difference of a timestamp and the time goes into 32 bits.  Copies from
\* the cache are freed; records of the host table must not be.
Load(w) ==
  /\ found[w] > 0
  /\ Goto(w, "load", IF quest[w] = Len(Packet[w]) THEN "answered" ELSE "search")
  /\ ANS' = [ANS EXCEPT ![w] = @ \cup
       {[quest |-> quest[w], rec |-> r, seen |-> seen[w],
         TTL |-> (r.expires - clock) % TtlMod] : r \in result[w]}]
  /\ hostFreed' = \/ hostFreed
                  \/ resource[w] = "cache" /\ \E r \in result[w] : r.line # 0
  /\ quest' = [quest EXCEPT ![w] = IF @ = Len(Packet[w]) THEN @ ELSE @ + 1]
  /\ UNCHANGED <<clock, hostExists, cached, stray, frame, back, seen, thread, detached>>
----------------------------------------------------------------------------
(* urlStore, on a datagram with QR = 1 *)

\* connectHandle calls it before the identifier is looked up and asks neither for
\* the sender nor for a request.  Each answer of the type of QUESTS[0] is filed
\* under the name of QUESTS[0], whatever its own name is, one after the other;
\* answers of other types are passed over, and a reply may have none.
Store ==
  /\ ~stray
  /\ \E q \in Heard, ttl \in Lifetimes :
       cached' = cached \cup {Record(q.name, Narrow(q.qtype), clock + ttl, 0)}
  /\ UNCHANGED <<clock, hostExists, stray, hostFreed, pc, quest, frame, back,
                 seen, ANS, thread, detached>>

\* Eviction, scan or flush.
Lose ==
  /\ ~stray
  /\ \E r \in cached : cached' = cached \ {r}
  /\ UNCHANGED <<clock, hostExists, stray, hostFreed, pc, quest, frame, back,
                 seen, ANS, thread, detached>>

Tick ==
  /\ ~stray /\ clock < MaxClock
  /\ clock' = clock + 1
  /\ UNCHANGED <<hostExists, cached, stray, hostFreed, pc, quest, frame, back,
                 seen, ANS, thread, detached>>
----------------------------------------------------------------------------
qnameSearch(w) == CacheOnly(w) \/ Spawn(w) \/ CacheQuery(w) \/ Join(w) \/ Detach(w)
urlQuery(w) == qnameSearch(w) \/ Refuse(w) \/ Load(w)
host_query_handle(h) ==
  HostLookup(h) \/ HostVisit(h) \/ HostReport(h) \/ Stray(h)

Next ==
  \/ \E w \in Workers : urlQuery(w)
  \/ \E h \in Threads : host_query_handle(h)
  \/ Store
  \/ Lose
  \/ Tick

Spec == Init /\ [][Next]_vars
----------------------------------------------------------------------------
(* Types *)

RecordSet == [name : Names, type : Nat, expires : Nat, line : Nat]

\* Every variable holds what the C declarations allow.
TypeOK ==
  /\ clock \in 0 .. MaxClock
  /\ hostExists \in BOOLEAN
  /\ cached \subseteq RecordSet
  /\ pc \in [Workers -> {"search", "load"} \cup InCall \cup Outcome]
  /\ quest \in [Workers -> Nat \ {0}]
  /\ \A w \in Workers : quest[w] \in DOMAIN Packet[w]
  /\ resHost \in [Workers -> SUBSET RecordSet]
  /\ retHost \in [Workers -> Int]
  /\ found \in [Workers -> Int]
  /\ result \in [Workers -> SUBSET RecordSet]
  /\ resource \in [Workers -> {"unset", "cache", "host"}]
  /\ seen \in [Workers -> Nat]
  /\ ANS \in [Workers -> SUBSET [quest : Nat, rec : RecordSet, seen : Nat, TTL : Nat]]
  /\ hpc \in [Threads -> {"none", "lookup", "loop", "exited"}]
  /\ todo \in [Threads -> Seq(HostRecord)]
  /\ num \in [Threads -> Int]
  /\ detached \subseteq Threads
  /\ stray \in BOOLEAN
  /\ hostFreed \in BOOLEAN
----------------------------------------------------------------------------
(* Safety.  A property that speaks of the state speaks of it up to the first *)
(* stray write.                                                              *)

\* Only a host thread that was detached, because the cache had an answer, ever
\* writes to a frame that is gone: a worker that joins is never overtaken.
StrayCause ==
  stray => \E h \in detached : hpc[h] \in {"lookup", "loop"}

\* The lines of the host file about a name, but for one that the end of the file
\* cuts off: hostInit drops it, which LinesLoaded is about.
Listed(n) == {i \in DOMAIN File : File[i].name = n /\ (i < Len(File) \/ Terminated)}
Blocked(q) == Narrow(q.qtype) = A /\ \E i \in Listed(q.name) : File[i].ip = "0.0.0.0"
HostLines(q) ==
  {i \in Listed(q.name) : Narrow(q.qtype) = IF File[i].ip = "v6" THEN AAAA ELSE A}

\* What a worker takes from its host thread is all that the lines of the file say
\* that end in a newline, never a count without its records or a part of them:
\* -1 for a blocked name even if records were copied first, else every line of
\* the type, once.
HostComplete ==
  ~stray => \A w \in Workers : pc[w] = "load" /\ resource[w] = "host" =>
    IF Blocked(Quest(w)) THEN found[w] = -1
    ELSE /\ found[w] = Cardinality(HostLines(Quest(w)))
         /\ {r.line : r \in result[w]} = HostLines(Quest(w))

\* What the comment on hostInit says, that all the contents of the file are loaded
\* into memory: a worker that takes addresses from its host thread lacks none
\* that the file has.
LinesLoaded ==
  ~stray => \A w \in Workers :
    pc[w] = "load" /\ resource[w] = "host" /\ found[w] # -1 =>
      \A i \in DOMAIN File :
        /\ File[i].name = Quest(w).name
        /\ Narrow(Quest(w).qtype) = IF File[i].ip = "v6" THEN AAAA ELSE A
        => \E r \in result[w] : r.line = i

\* What the black list keeps when a host file was read.  The cache is asked first
\* and wins, and any datagram with QR = 1 can fill it: an answer to a question
\* about a blocked name comes from the cache, never from the lines of the name.
\* A packet is not relayed on account of such a question, and it is refused on
\* account of no other; the questions behind that one are not looked at.
BlacklistHolds ==
  hostExists => \A w \in Workers :
    /\ \A a \in ANS[w] : Blocked(Packet[w][a.quest]) => a.rec.line = 0
    /\ pc[w] = "relayed" => ~ Blocked(Quest(w))
    /\ pc[w] = "blocked" => Blocked(Quest(w))

\* An answer from the cache was fresh when the cache was walked, and its TTL is
\* no more than it had left then; it wraps to a huge one only if the record has
\* expired between the walk and the moment the packet is filled.
TtlHonest ==
  \A w \in Workers : \A a \in ANS[w] : a.rec.line = 0 =>
    /\ a.rec.expires >= a.seen
    /\ a.TTL <= a.rec.expires - a.seen \/ a.rec.expires < clock

\* The strings of the host table, which results share, are never freed with a
\* result, whatever the earlier questions of the packet were answered from.
HostIntact == ~hostFreed

\* What the comments on host_flag promise: a host thread that is told to stop
\* writes no result any more.
FlagStops == ~stray

=============================================================================
