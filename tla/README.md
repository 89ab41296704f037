# Formal models of the DNS relay server

TLA+ models of the relay in `src/`, the TLC configurations that check them on
small instances, and TLAPS proofs for instances of every size. Paths below are
those of the repository (`src/Server/map.c` is `src/src/Server/map.c` seen from
the directory above it, the form `PROJECT.json` uses).

## 1. The system

A process that listens on UDP port 53. A datagram that is a query is answered
from a record cache or from a host table, or is relayed to an upstream server
under an identifier of the relay's own; a datagram that is a reply is cached and
sent on to the client whose query it answers. Every datagram gets a detached
thread.

| Component | Code | State | Operations | Called by |
|---|---|---|---|---|
| Identifier map | `Server/map.c`, `utils/map.h` | `__MAP_ALLOC__`, `__ID_MAP__[128]` of heap nodes, a lock for the counter only | `addToMap`, `queryMap` | workers of queries, workers of replies |
| Record cache | `Service/cache.c`, `cache.h`, `utils/list.h` | `list[]`, `set[]`, `length`, the list through `list[].node`, a read-write lock | `cacheInsert`, `cacheQuery` and its detached `__LRU_cache_rotate`, `cacheScan`, `cacheFlush`, printing | workers, the timing thread, the console |
| Timing thread | `Server/basic.c` | - | `cacheScanHandle`: sleep, scan, for ever | started once |
| Relay core | `Server/basic.c` | the server socket | `start` (select loop), `connectHandle` (one thread per datagram) | `main` |
| Query flow | `Service/query.c` | locals, a stop flag on the heap | `urlStore`, `urlQuery`, `qnameSearch`, `host_query_handle` | `connectHandle` |
| Host table | `Service/host.c` | a hash map from names to lists of records, read-only after start | `hostInit`, `hostQuery` | `start`, the host-query thread |
| Hash map | `Utils/hash.c`, `utils/hash.h` | buckets with a lock each | insert, query, modify, remove | host table |
| Packets | `Service/packet.c`, `protocol.h` | a `Packet` per datagram | `packetParse`, `responseFormat` | `connectHandle` |
| Names on the wire | `Service/url.c`, `Utils/inet.c` | - | `urlParse`, `urlFormat` | packets |
| Console | `Server/console.c` | capacity, scan period, upstream address, debug level | start arguments, commands | `main`, its own thread |
| Threads and locks | `Utils/thread.c` | thread counter | create, detach, join, exit, locks | all |
| Sockets, start | `Server/socket.c`, `main.c` | - | socket calls | `main` |

How they interact. A query worker calls `urlQuery`; that starts a host-query
thread, walks the cache itself, and either joins the thread (nothing cached) or
detaches it (answer cached). Each walk detaches a rotate thread. With no answer
the worker calls `addToMap` and sends to the upstream server. A reply worker
stores the answers in the cache (`urlStore`), then calls `queryMap` and sends to
the client. The timing thread and the console work on the cache at any time.

What is hard. The map is not locked at all, except for its counter. The slots
that a walk collects are used after its lock was given back. Deletion happens
under a moving cursor. A flush indexes what it should iterate. Serials wrap.
Datagrams are lost and doubled. The host thread writes through pointers into a
stack frame that may be gone. A hash query copies a value without its lock. Time
passes between a check and the use of what it said. `PROJECT.json` lists each hazard at its line, with the properties that
cover it or the reason why none does.

What makes each component correct:

- *Map*: a reply goes to the client whose query it answers, once; an unexpired
  mapping is not lost; no node is followed or freed when it is not there, none is
  leaked.
- *Cache*: `set[]`, `length` and the list agree; a query finds exactly the fresh
  records of its name and type; a scan deletes exactly what is overdue; capacity
  is respected by dropping the least recently used record; overdue records leave.
- *Query flow*: the answer is that of the cache or of the host table, whichever
  the join selects, and no thread outlives the memory it writes to; a TTL is
  never negative.
- *Relay*: each query is answered, relayed or refused for want of a cell; a client
  gets one reply, unless two workers meet on a cell of the map; what a reply has
  brought is not asked for again while it is fresh.
- *Names and packets*: parse undoes format; lengths on the wire are the lengths
  written.
- *Host table*: every line of the file that ends in a newline counts, a blacklisted
  name is refused.
- *Hash map*: to threads that use it together it is a map whose calls take effect
  one after the other.

## 2. Modules

| Module | Models | Role |
|---|---|---|
| `IdTable` | what `map.c` promises: an atomic table of serials | abstract specification |
| `IdMap` | `map.c` as workers run it, one access at a time | specification, properties, refinement mapping to `IdTable` |
| `IdMapInv` | - | its inductive invariant |
| `IdMapProofs` | - | TLAPS proofs: the invariants and the refinement |
| `MCIdMap` | - | instances for TLC |
| `LruList` | what the cache promises: a list of records | abstract specification |
| `LRUCache` | `cache.c`, `list.h`, the scan thread, pointer by pointer | specification, properties, refinement mapping to `LruList` |
| `LRUCacheInv` | - | its inductive invariant |
| `LRUCacheProofs`, `LRUCacheRefinement` | - | TLAPS proofs: the invariants; the ring and the refinement |
| `MCLRUCache` | - | instances for TLC |
| `Relay` | `basic.c`: the loop, the workers, the console's `server`, the network; the map in two steps over the state of `IdTable` | composition: specification and properties |
| `RelayProofs` | - | TLAPS proofs |
| `MCRelay` | - | instances for TLC |
| `UrlQuery` | `query.c`, `host.c`: workers, their host-query threads, the table `hostInit` reads, an abstract cache | specification and properties |
| `UrlQueryProofs` | - | TLAPS proofs |
| `MCUrlQuery` | - | instances for TLC |
| `PacketCodec` | `packet.c`, `url.c`, the names of `inet.c`, byte by byte | specification and properties |
| `PacketCodecProofs` | - | TLAPS proofs |
| `MCPacketCodec` | - | instances for TLC |
| `KeyTable` | what `hash.h` promises: a map with atomic calls | abstract specification |
| `HashMap` | `hash.c`, pointer by pointer, with the two steps of a query | specification, properties, refinement mapping to `KeyTable` |
| `HashMapProofs` | - | TLAPS proofs |
| `MCHashMap` | - | instances for TLC |
| `Induction` | - | lemmas for proofs by induction, used by four of the proof modules |

Three abstract specifications stand between the modules. `IdMap` implements
`IdTable` until two workers are in the map on one cell (`met`); one call of `IdTable`
is one step, so that a step in which two copies of a reply both find a mapping is one
that ends its promise. `Relay` has the variables, `Draw` and `Tick` of `IdTable` but
goes on after such a meeting, with calls of two steps of its own (section 2.4).
`LRUCache` implements `LruList`, and `UrlQuery` and `Relay` take the cache for what
`LruList` leaves of it when order and capacity are forgotten (records come with
datagrams and may go at any time). `HashMap` implements `KeyTable`, and `UrlQuery`
takes the host table for a function from names to lists, filled before the first query.

### 2.1 IdMap

*State.* `alloc` is `__MAP_ALLOC__`, `cell` is `__ID_MAP__`. A node is named
after the request that allocates it (each allocates one), and its fields
`_time_out`, `_origin`, `_last`, `_from` are one function each. `status` says
whether a node is live; a freed name is never reused, so that every use of a freed
node is seen as such. The locals `serial`, `temp`, and what `queryMap` copies out
(`toId`, `toAddr`) are functions of the worker. The identifier and the address of
a request are abstracted to the request itself: the properties ask only whose they
are. `round`, `roundOf` and `overlap` are history: nothing in the program reads
them.

*Actions.* The critical section of `addToMap` is one action (`Allocate`); every
other access to a cell, to a node or to the heap is its own, in the order of
the source. This is the order of an unoptimised build, in which each of the four
stores of lines 60-63 goes through the table again. A compiler may do less, not
more, in between. A field that `malloc` has left unwritten holds `Junk`, and a
comparison with it goes either way. `Fault` is the step of a worker that follows
a null or freed pointer, or frees one twice; the model stops there. The process
may go on: `malloc` can hand the node of a live mapping to another cell after a
second `free`, and then anything may happen. Before the first fault nobody follows
a pointer to a freed address, so that nodes can be named by their requests and
the reuse of addresses needs no model; after it no property says anything.
`Arrive` is the part of `connectHandle` that leads to `queryMap`: the reply to a
relayed query may come at any later time, twice, or never. Identifiers the relay
never sent are not among the inputs: `RightClient` would say nothing of them.

*Properties.* The map is safe only while no two workers are inside it on the same
cell; `overlap` records that this has happened. `NoFaultAlone`, `RightClient`,
`AtMostOnce`, `NoEarlyDrop` and `NoLeak` are claims about all behaviours up to
that moment, with any number of workers on other cells. Cells are shared by
serials 128 apart, so an overlap needs a request and the reply to one 128 serials
earlier, or two copies of one reply, in the map at once. `RaceConfined` says
what is left from that moment to the first fault. `ImplementsIdTable` states the same boundary as a
refinement: until `overlap`, an `addToMap` takes effect in one step, when it writes
`_time_out` (before that the mapping it is about to replace counts), and a
`queryMap` when it clears the cell or has seen that it will not. `IdTable` then
allows anything (`met`). `RightClient` allows what the comment at
`map.c:20-29` admits: a reply whose serial was drawn again in a later round of the
counter.

*Runs.*

| Run | Bounds | Shows |
|---|---|---|
| `IdMapWrap` | 4 requests, serials 0..2, 2 cells, 1 of them answered, in 2 copies, time to live 1, clock to 2 | all properties: the counter wraps past a pending reply, mappings expire and are replaced, copies arrive in any order, any three workers meet on a cell |
| `IdMapOrigin` | 2 requests, 1 cell, 1 reply | `SuccessIsOrigin` is violated |

Four requests on three serials and two cells are the least that make two requests
share a serial, two more share a cell with different serials, and leave a reply of
the first round pending. The constraint `FewRacers` follows a behaviour beyond an
overlap as long as no more than three workers have started; the only property that
says anything there is `RaceConfined`, and a race of two workers needs at most a
third to have filled the cell. Symmetry permutes the requests that nobody answers, and
the copies; no property or constant tells
them apart, and the refinement has only a safety part.

*Finding.* `IdMapOrigin`: a reply worker finds the cell just published and
copies an origin nobody has written, or the new `_origin` with the old `_from`.

### 2.2 LRUCache and LruList

*State.* `next` and `prev` are the two pointers of the node of each slot and of
`head`; `NULL` is what `mylist_del` leaves, `WILD` what `malloc` left in a slot
never filled. `entry` and `expires` are the record of a slot and its timestamp,
`used` the slots whose `set[]` byte is 1. A record is a model value; `Key` gives
its name and type, all that `cacheQuery` compares. `writer` and `readers` are
the lock; `pc`, `at`, `i`, `temp` the locals. `removed` and `began` are history.

*Granularity.* `cacheInsert` holds the write lock throughout and reads no clock
that could change its course, so it is one action. A walk, a scan, a flush and a
rotation are one action per node, since time passes between them, walks overlap,
and each node is a pointer that may not be there. A flush reads no clock; it is
split because it may stop in the middle. `FlushUnlock`, `QueryUnlock` and the
others that release the lock contain what the code does after the last node. The
two tests of the time within one iteration are one.

*Faults.* `fault` becomes the pointer that was followed. The process is then
gone: no action is enabled, and the runs switch deadlock checking off for this
reason (in `IdMap`, also because workers end). This is the outcome on the
platforms the program is built for; a null page that is mapped is not considered.

*Lock.* Anybody may take it when it is free. A default rwlock lets readers in
past a waiting writer; here too, a reader needs only that no writer holds it.

*Properties.* `Ring` relates the pointers, `set[]` and `length`; `QueryExact` and
`ScanComplete` say what a finished walk and scan have achieved, although the
clock ticks on and a scan deletes under its cursor; `StaysInBounds` and
`FaultCause` say which bad pointers are ever followed and why. `QueryExact` counts
with the same boundary of time as the walk; that the boundary of a scan is not
beyond it is `ImplementsLruList`, where only an overdue record is removed.
`ImplementsLruList` is the refinement: `Items` reads the list off the ring, and
every step is an insertion at the front (dropping the last of a full list), a move
to the front, the removal of an overdue record, a clearing, or nothing. `Purged`
is the README's "TTL-aware cleanup": an overdue record leaves the cache.

*Runs.*

| Run | Bounds | Shows |
|---|---|---|
| `LRUCache` | 2 slots, 3 inserts, 2 queries, clock to 1, lifetimes 0 and 1 | all properties, the refinement and `Purged` |
| `LRUCacheFlush` | 2 slots, 2 inserts, 1 query, clock to 2 | `FlushSucceeds` is violated |
| `LRUCacheRotate` | the same | `RotatesMember` is violated |

Two slots are the least with a hole below a used one; a third insert evicts, or fills
the hole out of order; two queries for one name overlap with each other and with each
other's rotations, whose slots may be deleted or reused. One tick suffices to make a
record of lifetime 0 overdue while one of lifetime 1 stays. Scans and flushes recur
without bound. No symmetry is used, as `Purged` is a liveness property. The proofs of
section 3 cover the safety properties for every capacity.

*Fairness.* `LiveSpec` assumes that the timing thread goes on (`cacheScanHandle`
is an endless loop) and that a thread holding the lock goes on to release it
(there is no blocking call in between). Nobody must insert, query or flush. Weak
fairness suffices for the scan to get the lock because the calls of a run are
finitely many and every flush empties the cache by itself; it is not claimed that
the timing thread gets the lock against an endless stream of readers, which a
default rwlock does not promise.

*Findings.* `LRUCacheFlush`: insert two records, let the scan delete the one in
slot 0, flush. `LRUCacheRotate`: a query finds a record, a scan or a flush
deletes it, then its rotate thread gets the lock.

### 2.3 UrlQuery

*State.* `Packet` gives each worker the questions of its query; `pc`, `quest`,
`found`, `result` and `resource` are the locals of `urlQuery`, `resHost` and
`retHost` the two locals of `qnameSearch` that its host-query thread writes
through pointers. There is one thread per worker and question; `todo` and `num`
are the rest of its loop and its count. `cached` is the cache as `LruList`
promises it, without order and capacity: `Store` adds a record, `Lose` (eviction,
scan, flush) takes any away. `seen` and `detached` are history.

*The host table.* `Host` is what `hostInit` makes of `File`: each line becomes a
record at the head of the list of its name, empty lines are passed over, and a last
line that does not end in a newline is read and dropped (`LinesRead`), although the
comment at `host.c:4` speaks of all content. A line without a space, for which the
code uses a null pointer as its key (`host.c:18-25`), is not among the lines. The hash
map in between is the function it implements. Every relay thread only reads the table.

*Actions.* `Spawn`, `CacheQuery`, `Join` and `Detach` are `qnameSearch` with a
host file, `CacheOnly` is its early return without one, `Load` and `Refuse` the
two ways on in `urlQuery`. The walk of the cache is one step, since `LRUCache`
shows what it returns. The host thread is one step per record, from the last line
of the file to the first, as `hostInit` adds at the head of a list; the first line
of a blocked name may thus come after others of it were copied. A write of the
thread into the frame of a `qnameSearch` that has returned is undefined: `Stray`
records it, and nothing happens after it. `Store` is `urlStore` for one answer:
`connectHandle` calls it for every datagram with QR = 1, before it looks the identifier
up and whoever the sender is (`basic.c:133-142`), so that any such datagram fills the
cache at any time; `Heard` are the first questions of those that come in. All answers
of the type asked for are filed under the name of the first question, whatever their
own owner is; the properties say nothing of the data of a record.

*Properties.* `StrayCause` is what the join is for: a frame is outlived only if
the cache had answered. `HostComplete` says that what is joined is all that
the lines of the file that end in a newline say, stated over the file and not over the
table; `LinesLoaded` says so of all lines, and is false. `BlacklistHolds` says what
is left of the black list although the cache is asked first and anybody can fill it: a
question about a blocked name is answered from the cache or not at all, no packet is
relayed on account of it, and none is refused on account of another; it follows that a
name is blocked as long as no datagram has brought it into the cache. `TtlHonest`
confines the subtraction in 32 unsigned bits: the TTL is wrong only when the record has
expired between the walk and the packet. `HostIntact` concerns the ownership of strings
that results share with the table. `DNS_entry.type` has eight bits, so that a query of
type 257 finds the records of type 1 (`Narrow`). A packet with a question that has no
local answer loses what the questions before it had found (`Refuse`); nothing in the
repository says otherwise.

*Runs.*

| Run | Bounds | Shows |
|---|---|---|
| `UrlQuerySafe` | 2 workers with two questions each; a file of 7 lines: a name with two addresses, a blocked one with addresses of both kinds beside it, an empty line, a last line that is cut off; a name not in the file; datagrams about that name and about the blocked one; types 1, 28, 257; clock to 1; with and without the file | all safety properties |
| `UrlQueryLines` | 1 of these workers | `LinesLoaded` is violated |
| `UrlQueryFlag` | both | `FlagStops` is violated |

Two questions are the least for a stale `resource` and for answers that are
thrown away; one worker has the case of both sources and the type that narrows, the
other the blocked name, asked for with another type and then with its own, with and
without a record of it in the cache. Workers meet only in the cache. One tick expires a
record of lifetime 0. `TtlMod` is 1000 instead of 2^32: the wrapped value is then still
larger than every lifetime. Deadlock checking is off because workers end, and
because behaviours end at a stray write.

*Findings.* `UrlQueryFlag`: `hostQuery` tests the pointer to its flag instead of
the flag, so a cache hit leaves a host-query thread running that writes `res_host`
and `ret_host` after their function has returned. `UrlQueryLines`: a last line without
a newline is read and dropped.

### 2.4 Relay

*State.* A datagram is a member of `Requests` or `Responses`; one that the network
doubles, or that a client sends again, is two members. `pc` says where it is, first
in the network and then in its worker. The variables of the identifier map are those of
`IdTable` (`Map`); `met` are the workers that were on a cell together. `cached` are the
replies whose records are in the cache, `hosts` the names of the host file. `sentTo`,
`replies` and `evicted` are history. `listening` says that the descriptor of the
server's socket is open.

*Actions.* `Receive` is a round of the loop of `start`. A worker is one step per
call that others can observe. A query walks the cache (`Walk`) and joins its host
thread (`Join`), and between the two, or before it draws a serial, a reply may be
stored; `Draw` is the half of `addToMap` under a lock. The other half, and
`queryMap`, have two steps each: what they read of the cell (`Check` or `Busy`,
`Find` or `Miss`), and what they write to it (`Record`, `Clear`). Whoever reads a cell
while another worker is between its two steps has met it there; as nothing is locked,
it may then read anything, and the choice of what happens is free. So two copies of a
reply may both find the mapping and both be forwarded. `SendOn` uses the upstream
address of that moment. `UrlStore` files a reply whether or not anybody waits for it,
if it has an answer of the type asked for (`Storing`); others leave no record.
`SocketClose` is the end of every worker: `socketClose(&args->connect)` reads a
descriptor that nobody has set, from memory that was freed, so what it closes is a free
choice; only the server's socket matters to anybody else. `Server` is the console
command. The network loses (`Lose`, `SendOn` to nobody, a request that is never
received), doubles and reorders. Replies here are replies to relayed queries; those that
nobody asked for are in `UrlQuery`.

A meeting may also free a node twice, and the heap may then hand one node to two cells
(section 2.1). `Relay` follows a process whose heap survived.

*Properties.* `OneReply`: a second reply to a query takes a copy of a reply that met
another worker on its cell; late copies, repeated questions and answers from two sources
do not make one. `RefusalJust`: "relay service busy" is said only while another worker is
on the cell, or on account of a request that is still waiting and whose time is not over.
`RelayedWhenUnknown`: the walk of the cache finds nothing, so that the query goes on
towards the upstream server, only if every record about its name that came with a reply
dealt with by then is stale or dropped; replies that found no mapping are included, which
works because `urlStore` comes before `queryMap`. A reply stored after the walk is not
seen, nor does the property ask for it. `Served`, the liveness property: a received query
ends in a reply, or it was refused, or it or all its replies were lost or sent to a
server that does not answer, or its cell was taken over after its time, or it met another
worker when it was recorded, or the server's socket was closed. The last case is not a
formality: with the descriptor that is never set it can happen after any datagram.

*Fairness.* `Fairness` has every started worker go on (no call in `connectHandle`
waits for another thread for ever; a thread is scheduled), and the loop receive a
reply that is neither lost nor shut out by a closed socket (`select` returns it).
Nothing is assumed of clients, losses, evictions, the console, the clock, and of
`SocketClose`, which may as well hit nothing.

*Run.*

| Run | Bounds | Shows |
|---|---|---|
| `Relay` | 2 queries for one name, 1 cell, serials 0..1, 2 replies to the first (copies in the map, one of them with a record), 2 upstream addresses of which one answers, mappings live 1 second, records 0, clock to 1, with and without a host file | all properties |

Two queries on one cell are the least for a refusal, for a mapping that is taken
over, and for a late reply that must not find the new holder; one name lets the
reply to the one answer the other. Two replies to one query are the least that meet in
`queryMap`, and may meet the second query there. One tick lets a mapping and a record
expire.
`IdMapWrap` covers serials that are drawn again, which `Relay` with two requests
does not reach. No deadlock check: the relay is done when every datagram is.

### 2.5 PacketCodec

*State.* `msg` is the message, a sequence of bytes; characters are numbers too.
`wanted` is history: what was put in, and where. `bufPos`, `temp` and `zip` are
the locals of `packetParse` and `urlParse`, `names` and `parsed` their result.

*Actions.* A message begins as a query. Either the relay answers it
(`AddAnswer`, one round of the loops of `responseFormat`, with `urlFormat`), or an
upstream server does (`UpstreamAnswer`), which may compress a name against any
label of any name before it. Then `packetParse` runs: one action per question and
answer, and one per label or pointer that `urlParse` follows. `ReadName` and
`AfterName` are how RFC 1035, and so any client, reads a name; they are not
taken from this program.

*Names.* `IsName` says what a name is: labels of 1 to 63 characters, none of which
looks like a pointer. Every name in a query or an answer is assumed to be one
(`PacketCodecAssumption`); an empty label would be read as the end of the name, and a
character above 191 as a pointer. The program does not check either. A message has
at most `BUFFER_SIZE` bytes, the size of the buffers it is received in
(`server.h:23`), which the proofs need to be at most 2^14, so that a pointer can hold
every offset. `Labels` are the offsets at which labels start, `Section` and
`QuestAt` where the questions are; a name may be pointed to at `Starts`.

*Deviations the model keeps.* A name is compressed from the first label in
common with the question, and the whole question name also where it is the end of
a longer label only (`Glued`); the pointer to a later question is short by one
byte per question before it; an MX name that is not compressed loses two bytes.
`Sound` names the answers these leave readable, and `AnswersReadable` and
`ParsesBack` are about them. `AnswersReadable` also says that the owner of an answer to
the first question reads as that question. The owners of answers to later questions
point at a wrong byte, although the comment at `packet.c:194` has the right sum for the
bytes after a name; they cannot be read, and no property claims that they can.
`inetFormat` reads one character past the end of a text that does not end in a
dot and writes it back as the final 0 at once; this has no effect on what is
returned.

*Left out.* Requests with records after their questions: `responseFormat` copies the
whole request (`packet.c:202,220`) and appends the answers at its end
(`packet.c:246`), so that for a request with an OPT record neither `packetParse` nor a
client finds them in the place of the answers. Owner names other than a pointer (the parser takes every owner to be
two bytes, which is what upstream servers send for the question's own name), the
flags and counts of the header, the sizes of the buffers that names are copied to (the
model's sequences grow as needed), addresses beyond a text that is carried over,
records of type AAAA (as A) and of types the code does not know: for TXT, in spite
of the README, `urlFormat` and `urlParse` return an error that nobody tests.

*Runs.*

| Run | Bounds | Shows |
|---|---|---|
| `PacketCodec` | 2 names asked for, 7 names in answers, types A, CNAME, MX, up to 2 questions and 2 answers, 1024 bytes | lengths and pointers agree with the bytes, names and first owners read as they were written; format and parse are inverse |
| `PacketCodecMx` | 1 question, MX only, 1024 bytes | `MxSupported` is violated |

The seven names have every relation to a question that `urlFormat` can tell apart:
equal, below it, beside it, above it, ending in it inside a label, unrelated, and
unrelated of two labels. Two answers are the least for a name compressed against
an answer, hence for chains of two pointers.

*Finding.* `PacketCodecMx`: an MX host that shares no label with the question.

### 2.6 HashMap and KeyTable

*State.* `head`, `tail`, `bk_s` are a bucket, `key`, `value`, `next` a node; a value
lies in a block of its own (`content`), as in the code. `live` is what `malloc` has
given out. `want` and `ret` are the local copy of the node that `query_hash` keeps
between its two steps. `last` is the call that has just returned, with its result:
without it a wrong result code would be invisible to `KeyTable`. `touched` and
`raced` are history.

*Actions.* A call works on its list between lock and unlock of the bucket, so that
it is one step, one action per path. The exception is a query: `query_bucket`
copies the node under the lock, and `query_hash` copies the value after the lock was
given back (`hash.c:264`), by the pointer and the length (`val_s`) of its copy of the
node. `CopyValue` is the end of this copy. A modify or remove of the key that came in
between (`touched`) may have freed the value, moved it, or, when `realloc` kept the
address, changed its bytes and its length in place (`modify_node`, `hash.c:27-33`): what
the caller gets is then any value, or none at all (torn, or cut to the old length), which
is `NONE`. A length is part of a value; without such an overtaking `val_s` is that of
the value. A block that was freed may be given out again. `RemoveEmpty`
follows the null head of an empty bucket; `FreeHash` frees all nodes of a bucket but
the last. Nothing happens after either, nor after a query has returned that was
overtaken (`raced`).

*Properties.* `BucketShape` relates `head`, `tail`, `bk_s`, keys and the heap after
any sequence of calls, with the two paths of `remove_bucket` keeping `tail` in
different ways. `StaleCause` says what the unprotected pointer of a query depends
on: only a modify or remove of its very key can make it stale; an insert, of a
duplicate too, and work on other keys cannot. The relay modifies and removes
nothing, so its queries are safe. `ImplementsKeyTable`: the bucket is a map whose
calls take effect one at a time, a query at the end of its copy, until an overtaken
query returns.

*Run.*

| Run | Bounds | Shows |
|---|---|---|
| `HashMap` | 3 keys in one bucket, 3 nodes, 3 blocks, 2 values, 1 thread that queries while any thread writes | all properties |

Three nodes give a list a head, a middle and a tail, and every removal one of them;
buckets share nothing, so one with all keys is the worst. Nodes and blocks that
leak (a duplicate's, a removed inner node's) are not given out again: when they are
used up, inserts stop. Symmetry permutes keys and values; the refinement has only a
safety part. What lies behind a value (in the relay a list of host records, which
`free_node` frees while it walks it) is outside the table.

## 3. Proofs

All theorems hold for every value of the constants that the named assumption of the
module (`IdMapAssumption`, `LRUCacheAssumption`, `RelayAssumption`,
`UrlQueryAssumption`, `HashMapAssumption`, `PacketCodecAssumption`) allows: any number
of workers, datagrams, records, questions and keys, any capacity of at least 1, any
serial range, any lifetimes, any host file, any names. The assumptions say that sets of
names do not overlap, that constants are numbers where the code has numbers, that
arrays are not empty, and what a domain name is; TLC evaluates each of them in its
runs. Every safety property, action property and refinement of the passing runs is
proved.

| Module | Proves of its specification |
|---|---|
| `IdMapProofs` | `TypeOK`, `NoFaultAlone`, `RightClient`, `AtMostOnce`, `NoEarlyDrop`, `NoLeak`, `RaceConfined`, `ImplementsIdTable` |
| `LRUCacheProofs` | `TypeOK`, `StaysInBounds`, `FaultCause`, `QueryExact`, `ScanComplete` |
| `LRUCacheRefinement` | `Ring`, `ImplementsLruList` |
| `RelayProofs` | `TypeOK`, `OneReply`, `RefusalJust`, `RelayedWhenUnknown` |
| `UrlQueryProofs` | `TypeOK`, `StrayCause`, `HostComplete`, `BlacklistHolds`, `TtlHonest`, `HostIntact` |
| `HashMapProofs` | `TypeOK`, `BucketShape`, `StaleCause`, `ImplementsKeyTable` |
| `PacketCodecProofs` | `TypeOK`, `AnswersReadable`, `ParsesBack` |

### 3.1 IdMapProofs

`Invariance` proves `IInv`, `Confined` and `AtMostOnce`. `IInv` is `TypeOK`, the
order in which serials were drawn (`Tickets`), and, as long as there was no
overlap, `Alone`: workers are on different cells, so that what a worker has seen
of its cell stays true to its next access. `Alone` therefore attaches to each
program point of `addToMap` and `queryMap` what is known there (`Adder`,
`Querier`), to each node which of its fields are written (`Written`), and to each
cell that its node is live and its own (`Table`). The one step that is not local
is `Allocate`, which must show that a new holder of a serial comes in a later
round (`Later`). `Confined` needs no such premise: every value in a cell, node or
local belongs to a request of that cell. From these, the six properties follow
(`TypeCorrect`, `AloneNeverFaults`, `AloneRightClient`, `AloneNoEarlyDrop`,
`AloneNoLeak`, `RacesStayInCell`); `AloneAtMostOnce` is inductive beside `IInv`.

For the refinement (`ImplementsIdTable`), `Good`, the part of `IInv` that holds before
an overlap, makes the `CHOOSE` of the mapping harmless: no two workers are between the
store to a cell and the store of its `_time_out` (`HolderIs`). Most accesses are
invisible to the table (`QuietUnseen`): they take a worker from one program point to
another that the table sees alike, and change neither cell nor time nor, for a reply
that was delivered, its address. Each of the others is shown to be one action of
`IdTable`. A step that overlaps, and all after it, are `met`.

### 3.2 LRUCacheProofs

The difficulty is to speak of the order of a list without recursion. `Shape(S,
rank)` says that `next` and `prev` are inverse on `S` and the head, and that
`next` takes every slot to the one of next higher rank in `S`, for some function
`rank` to the integers. Three lemmas show what the list operations do to it:
`AddShape` and `MoveShape` give the node a rank below all others, `DelShape`
keeps the ranks. A cursor has passed a slot if the rank of the slot is smaller;
`Walked` and `Scanned` say, in these terms, that everything passed was dealt with,
and `NothingBetween` that a step of the cursor passes one slot only. When a cursor
is back at the head it has passed everything: `QueriesExact`, `ScansComplete`.

For the faults, `Fresh` says that the slots never filled are the last ones
(first fit), `Prefix` that the used slots are packed until a scan deletes, and
`NoHoleYet` that a flush still running has met used slots only; with
`length = Cardinality(used)` (`Counted`) a flush then never reaches a fresh slot
(`InBounds`) and reaches a hole only after a scan
(`FaultsOnlyAfterDeletion`). `StepInv` combines one lemma per action.

### 3.3 Induction

Some definitions of the models proved about are recursive functions: `Nth` of
`LRUCache`, `Chain` of `HashMap`, `Host` of `UrlQuery`, and `Labels`, `Section`,
`NamePointer` and `ReadName` of `PacketCodec`. The library's
theorems about induction and recursion take an operator as a parameter, which the
installed provers cannot instantiate. `Induction` goes around this with sets instead
of operators: `Least`, a nonempty set of numbers has a least element, from the
library's theorem that `<` on `Nat` is well-founded; `UpTo`, induction over
`0 .. n`, where the statement is the set of the numbers it holds of; `Iterate`, there
is a function that iterates another one, without which a recursive definition says
nothing.

### 3.4 LRUCacheRefinement

`RingOf` is the ring once more, now with its places: a function `e` from
`0 .. length + 1` that begins and ends with the head and meets every used slot once.
`PushRing` and `DropRing` are the list operations on it, a deletion is the one, an
insertion the other, a rotation the one after the other. `StepsRing` (induction
along the ring) says that `Nth` is `e`, so that `Items` is what `View` reads off
`e`. `RingStep` then does two things for each action: the ring is kept, and `Items`
changes as an action of `LruList` allows. That a rotation finds its slot in
the ring, or follows a null pointer and stops, comes from `Shape` of `LRUCacheProofs`.

### 3.5 RelayProofs

`OneReply` needs to know which of two sources a reply to a client may have, and that
without a meeting it cannot have both: a request that was answered locally has drawn no
serial, so it is in no cell and can be matched with no reply (`Stages`, `Counted`); a
request that was relayed can be matched once by those who met nobody, since the one that
finds it empties its cell before another reads it (`Waiting`, `Matched`).
`MeetIs` is what makes this work: whoever reads a cell between the two steps of another
joins `met` together with it. `RefusalJust` follows from `Waiting` (a holder was sent, and
who has found it has met somebody or is still on the cell), `RelayedWhenUnknown` from
`Stored` (the record of a reply past `urlStore` is in the cache or was dropped) and the
order of `urlStore` and `queryMap`.

### 3.6 UrlQueryProofs

`HostIs`, by induction over the lines of the file, says what `hostInit` builds: for
each name a list with one record for each of its lines that was read. `Frames` says of
every thread that may still write that its frame is live or it was detached; it is
what the join is for. `Walking` relates a thread's count and what it has copied to the
lines it has dealt with (`Dealt`), so that a thread that has exited has dealt with
all of them; `Complete` keeps this true for the worker after the join, when its next
thread reuses the variables. For `BlacklistHolds`, `Stored` says that no record of the
cache came from a line of the file, and `Results` and `Loaded` carry this on to what a
worker holds and answers; `Settled` says why a packet was relayed or refused, from what
`Walking` knows of a thread that has counted -1.

### 3.7 HashMapProofs

`Path` says that pointers lead through a sequence of nodes, none of them twice, and
then to `NULL`; `WalkIs` that a loop visits these. That a list is no longer
than there are nodes (`PathShort`) is the pigeonhole principle of the library. Three
lemmas about appending to a path and removing its first or another node,
and a fourth that a step on one bucket leaves the others as they are, are what the
actions need. `Held` says of a query between its two steps that, unless its key was
modified or removed meanwhile, the block it points to still belongs to its key
(`Untouched`): `StaleCause`, and the abstract step of the refinement.

### 3.8 PacketCodecProofs

`Marks` are the places in a text where a label starts, its end included, and `Literal`
says that the bytes from an offset on are the first labels of a name up to a mark.
`FormIs` and `LiteralLabels` are what `inetFormat` writes and what a walk over it
finds, and from these `RoundTrip`: `inetParse` undoes `inetFormat`, for every name.

The difficulty is `ReadName`. A pointer may lead anywhere, so that a name may have no
end, and the length of what is read is bounded by nothing one could do an induction
over. `Spells(m, b, o, s, r)` therefore says that the name `s` can be read at the
offset `o` of the first `b` bytes of `m`, in terms of a set of triples that is closed
under taking one label or following one pointer (`Follows`, `Closed`), each with a
number `r` that becomes smaller. `ReadSpelled` is the induction on it: what is spelled
is what `ReadName` reads. `SpellsName` builds such a set for a name of which some
labels are there and the rest is spelled elsewhere, `SpellsGrow` says that it survives
what is appended to the message. That the parser looks at the two bytes behind a pointer
before it follows it is part of `Follows`; it is satisfied because the owner of
the next answer is behind each name.

The invariant says that the query is at the front of the message (`Asking`), that the
answers are laid out behind it and each readable one is `Named` (`Answered`), that what
has been parsed is what was put in, up to `bufPos` (`Progress`), and what is in `temp`
and `zip` while a name is put together (`Reading`): a part of the wire form up to a mark,
and an offset at which the rest of the name is spelled. `Added` reduces the two actions
that answer to their data, `HoldsWhole` and `HoldsCut` are the two forms of it, and
`RepeatedIs` says that what `urlFormat` takes for repeated is the rest of both names from
a label on, unless it is the whole question (`Glued`). `NamePointerIs` computes the
pointers of `responseFormat`: one byte too small for each earlier question, hence right for
the first one, which `OwnerReads` follows (`AnswersAfter`: the query lies before every
answer, so that the pointer leads back).

### 3.9 What is only model-checked

- Liveness (`Purged`, `Served`): the prover has no rules for fairness or `ENABLED`.
- The properties of the runs that expect a violation: they are false.

## 4. Not modelled

`PROJECT.json` gives the status of every component. Left out on purpose:

- printing (`cacheCheck`, `cacheOutput`, `packetCheck`, `count_hash`, `consoleLog`)
  and the console commands that only steer it;
- functions nobody calls (`MapInit`, `cacheFree`, `hostFree`, the unused list
  operations). `remove_hash`, `modify_hash` and `free_hash` are not called either,
  but belong to what the header offers to threads and are modelled;
- opening and binding the socket, the arguments of the command line: they are done
  once and are constants of the modules. A capacity of 0 or less, which `atoi` lets
  through, is excluded by `LRUCacheAssumption`;
- the Windows branches, failing `malloc` and `pthread_create`, and compiler
  reorderings of the unlocked accesses;
- the hash function: FNV-1a decides which keys share a bucket, and `HashMap` lets
  all of them do so;
- in packets, the flags of the header and the records of section 2.5.

## 5. Plan

All modules of the plan are written and checked, and their safety is proved. What could
come next:

1. Records of type AAAA and TXT in `PacketCodec`, owner names other than a pointer, and
   requests with records after their questions.
2. `UrlQuery` over `LruList` in place of its abstract cache, with the refinement between
   the two proved and not only argued.

## 6. Running

    tlc -workers 2 -config IdMapWrap.cfg MCIdMap.tla
    tlc -workers 2 -config LRUCache.cfg MCLRUCache.tla
    tlc -workers 2 -config UrlQuerySafe.cfg MCUrlQuery.tla
    tlc -workers 2 -config PacketCodec.cfg MCPacketCodec.tla
    tlc -workers 2 -config Relay.cfg MCRelay.tla
    tlc -workers 2 -config HashMap.cfg MCHashMap.tla

The runs that expect a violation, one worker suffices:

    tlc -config IdMapOrigin.cfg MCIdMap.tla
    tlc -config LRUCacheFlush.cfg MCLRUCache.tla
    tlc -config LRUCacheRotate.cfg MCLRUCache.tla
    tlc -config UrlQueryLines.cfg MCUrlQuery.tla
    tlc -config UrlQueryFlag.cfg MCUrlQuery.tla
    tlc -config PacketCodecMx.cfg MCPacketCodec.tla

The proofs:

    for m in IdMapProofs LRUCacheProofs LRUCacheRefinement RelayProofs \
             UrlQueryProofs HashMapProofs PacketCodecProofs Induction
    do tlapm $m.tla; done
