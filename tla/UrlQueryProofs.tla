--------------------------- MODULE UrlQueryProofs ---------------------------
(***************************************************************************)
(* Proofs about UrlQuery for any workers, packets, host file and lifetimes. *)
(* First the host table, by induction over the lines of the file, then the *)
(* inductive invariant of the query flow and what follows from it.         *)
(***************************************************************************)
EXTENDS UrlQuery, Induction, FiniteSetTheorems

(* The host table *)

\* The record that hostInit makes of a line.
EntryOf(i) ==
  [line |-> i, type |-> IF File[i].ip = "v6" THEN AAAA ELSE A,
   blocked |-> File[i].ip = "0.0.0.0"]

\* A list of the records of the lines in S, each of them once.
Lists(list, S) ==
  /\ list \in Seq(HostRecord)
  /\ \A k \in DOMAIN list : list[k].line \in S /\ list[k] = EntryOf(list[k].line)
  /\ \A i \in S : \E k \in DOMAIN list : list[k].line = i
  /\ \A j, k \in DOMAIN list : list[j].line = list[k].line => j = k

\* A table of the lines 1 .. i of the file.
About(i, n) == {k \in 1 .. i : File[k].name = n}
Holds(tbl, i) ==
  /\ DOMAIN tbl = {File[k].name : k \in 1 .. i} \ {Blank}
  /\ \A n \in DOMAIN tbl : Lists(tbl[n], About(i, n))

After(tbl, i) == IF File[i].name = Blank THEN tbl ELSE Enter(tbl, i)
Read(f, n) ==
  f = [i \in 0 .. n |-> IF i = 0 THEN <<>>
                        ELSE IF File[i].name = Blank THEN f[i - 1]
                        ELSE Enter(f[i - 1], i)]

\* The records are in range.
LEMMA EntryType ==
  ASSUME NEW i \in DOMAIN File
  PROVE  /\ EntryOf(i) \in HostRecord /\ EntryOf(i).line = i
         /\ i \in Nat \ {0} /\ File[i] \in Line
<1>1. i \in Nat \ {0} /\ File[i] \in Line
  BY UrlQueryAssumption DEF UrlQueryAssumption
<1> QED BY <1>1 DEF EntryOf, HostRecord

\* The loop of hostInit does not read more lines than there are.
LEMMA LinesReadType ==
  /\ Len(File) \in Nat /\ DOMAIN File = 1 .. Len(File)
  /\ LinesRead \in Nat /\ LinesRead <= Len(File)
  /\ \A i \in 1 .. LinesRead : i \in DOMAIN File
<1>1. Len(File) \in Nat /\ DOMAIN File = 1 .. Len(File) /\ (File # <<>> => Len(File) # 0)
  BY UrlQueryAssumption DEF UrlQueryAssumption
<1> QED BY <1>1 DEF LinesRead

\* The lines about a name that count are those that are read.
LEMMA ListedRead ==
  ASSUME NEW n PROVE Listed(n) = About(LinesRead, n)
<1>1. \A i \in DOMAIN File : (i < Len(File) \/ Terminated) <=> i \in 1 .. LinesRead
  <2>1. File # <<>> => LinesRead = IF Terminated THEN Len(File) ELSE Len(File) - 1
    BY DEF LinesRead
  <2>2. \A i \in DOMAIN File : File # <<>> /\ i \in 1 .. Len(File)
    <3>1. File = <<>> => DOMAIN File = {} OBVIOUS
    <3> QED BY <3>1, LinesReadType
  <2>3. Terminated \in BOOLEAN BY UrlQueryAssumption DEF UrlQueryAssumption
  <2> SUFFICES ASSUME NEW i \in DOMAIN File
               PROVE  (i < Len(File) \/ Terminated) <=> i \in 1 .. LinesRead
    OBVIOUS
  <2>4. File # <<>> /\ i \in 1 .. Len(File) BY <2>2
  <2>5. CASE Terminated BY <2>1, <2>4, <2>5
  <2>6. CASE ~ Terminated BY <2>1, <2>4, <2>6, LinesReadType
  <2> QED BY <2>5, <2>6
<1> QED BY <1>1, LinesReadType DEF Listed, About

\* A record at the head of a list is one more line.
LEMMA ListsMore ==
  ASSUME NEW list, NEW S, Lists(list, S), NEW i \in DOMAIN File, i \notin S
  PROVE  Lists(<<EntryOf(i)>> \o list, S \cup {i})
<1> DEFINE e == EntryOf(i)
           l == <<e>> \o list
<1>1. list \in Seq(HostRecord) /\ e \in HostRecord /\ e.line = i
  BY EntryType DEF Lists
<1>2. /\ l \in Seq(HostRecord) /\ Len(l) = Len(list) + 1 /\ Len(list) \in Nat
      /\ l[1] = e
      /\ \A k \in 1 .. Len(list) : l[k + 1] = list[k]
      /\ DOMAIN l = 1 .. Len(list) + 1 /\ DOMAIN list = 1 .. Len(list)
  <2>1. <<e>> \in Seq(HostRecord) /\ Len(<<e>>) = 1 /\ <<e>>[1] = e BY <1>1
  <2> HIDE DEF e
  <2>2. /\ l \in Seq(HostRecord) /\ Len(l) = 1 + Len(list) /\ Len(list) \in Nat
        /\ DOMAIN l = 1 .. Len(l) /\ DOMAIN list = 1 .. Len(list)
    BY <1>1, <2>1
  <2>3. \A k \in 1 .. Len(l) : l[k] = IF k <= 1 THEN <<e>>[k] ELSE list[k - 1]
    BY <1>1, <2>1
  <2> HIDE DEF l
  <2>4. \A k \in 1 .. Len(list) : l[k + 1] = list[k]
    <3> SUFFICES ASSUME NEW k \in 1 .. Len(list) PROVE l[k + 1] = list[k] OBVIOUS
    <3>1. k + 1 \in 1 .. Len(l) /\ ~ (k + 1 <= 1) /\ (k + 1) - 1 = k BY <2>2
    <3> QED BY <2>3, <3>1
  <2> QED BY <2>1, <2>2, <2>3, <2>4
<1> HIDE DEF l
<1>3. \A k \in DOMAIN l : k # 1 => k - 1 \in DOMAIN list /\ l[k] = list[k - 1]
  <2> SUFFICES ASSUME NEW k \in DOMAIN l, k # 1
               PROVE  k - 1 \in DOMAIN list /\ l[k] = list[k - 1]
    OBVIOUS
  <2>1. k - 1 \in 1 .. Len(list) /\ k = (k - 1) + 1 BY <1>2
  <2> QED BY <1>2, <2>1
<1>4. \A k \in DOMAIN l : l[k].line \in S \cup {i} /\ l[k] = EntryOf(l[k].line)
  BY <1>1, <1>2, <1>3 DEF Lists
<1>5. \A j \in S \cup {i} : \E k \in DOMAIN l : l[k].line = j
  <2>1. 1 \in DOMAIN l /\ l[1].line = i BY <1>1, <1>2
  <2>2. \A k \in DOMAIN list : k + 1 \in DOMAIN l /\ l[k + 1] = list[k] BY <1>2
  <2> QED BY <2>1, <2>2 DEF Lists
<1>6. \A j, k \in DOMAIN l : l[j].line = l[k].line => j = k
  <2> SUFFICES ASSUME NEW j \in DOMAIN l, NEW k \in DOMAIN l, l[j].line = l[k].line
               PROVE  j = k
    OBVIOUS
  <2>1. CASE j = 1 /\ k # 1 BY <1>1, <1>2, <1>3, <2>1 DEF Lists
  <2>2. CASE j # 1 /\ k = 1 BY <1>1, <1>2, <1>3, <2>2 DEF Lists
  <2>3. CASE j # 1 /\ k # 1
    <3>1. j - 1 = k - 1 BY <1>3, <2>3 DEF Lists
    <3> QED BY <1>2, <3>1
  <2> QED BY <2>1, <2>2, <2>3
<1> QED BY <1>2, <1>4, <1>5, <1>6 DEF Lists, l

\* One line more.
LEMMA HoldsMore ==
  ASSUME NEW tbl, NEW i \in 1 .. LinesRead, Holds(tbl, i - 1)
  PROVE  Holds(After(tbl, i), i)
<1> DEFINE n == File[i].name
<1>1. /\ i \in DOMAIN File /\ i \in Nat /\ i - 1 \in Nat
      /\ 1 .. i = (1 .. i - 1) \cup {i} /\ i \notin 1 .. i - 1
  BY LinesReadType
<1>2. \A m : About(i, m) = IF m = n THEN About(i - 1, m) \cup {i} ELSE About(i - 1, m)
  BY <1>1 DEF About
<1>3. {File[k].name : k \in 1 .. i} = {File[k].name : k \in 1 .. i - 1} \cup {n}
  BY <1>1
<1>4. CASE n = Blank
  <2>1. After(tbl, i) = tbl BY <1>4 DEF After
  <2>2. \A m \in DOMAIN tbl : m # n BY <1>4 DEF Holds
  <2> QED BY <1>2, <1>3, <1>4, <2>1, <2>2 DEF Holds
<1>5. CASE n # Blank
  <2> DEFINE list == IF n \in DOMAIN tbl THEN tbl[n] ELSE <<>>
  <2>1. After(tbl, i)
          = [m \in DOMAIN tbl \cup {n} |-> IF m = n THEN <<EntryOf(i)>> \o list ELSE tbl[m]]
    BY <1>5 DEF After, Enter, EntryOf
  <2>2. Lists(list, About(i - 1, n))
    <3>1. CASE n \in DOMAIN tbl BY <3>1 DEF Holds
    <3>2. CASE n \notin DOMAIN tbl
      <4>1. About(i - 1, n) = {} BY <1>5, <3>2 DEF Holds, About
      <4> QED BY <3>2, <4>1 DEF Lists
    <3> QED BY <3>1, <3>2
  <2> HIDE DEF list
  <2>3. Lists(<<EntryOf(i)>> \o list, About(i, n))
    <3>1. i \notin About(i - 1, n) BY <1>1 DEF About
    <3>2. Lists(<<EntryOf(i)>> \o list, About(i - 1, n) \cup {i})
      BY <1>1, <2>2, <3>1, ListsMore
    <3> QED BY <1>2, <3>2
  <2>4. DOMAIN After(tbl, i) = {File[k].name : k \in 1 .. i} \ {Blank}
    BY <1>3, <1>5, <2>1 DEF Holds
  <2>5. ASSUME NEW m \in DOMAIN After(tbl, i)
        PROVE  Lists(After(tbl, i)[m], About(i, m))
    <3>1. CASE m = n BY <2>1, <2>3, <3>1
    <3>2. CASE m # n BY <1>2, <2>1, <2>5, <3>2 DEF Holds
    <3> QED BY <3>1, <3>2
  <2> QED BY <2>4, <2>5 DEF Holds
<1> QED BY <1>4, <1>5

\* The recursion of Host is well defined: any number of lines can be read.
LEMMA ReadExists == \A n \in 0 .. LinesRead : \E f : Read(f, n)
<1> DEFINE H == {n \in 0 .. LinesRead : \E f : Read(f, n)}
<1>1. 0 \in H
  <2> DEFINE f == [i \in 0 .. 0 |-> <<>>]
  <2>1. Read(f, 0) BY DEF Read
  <2> QED BY <2>1, LinesReadType
<1>2. ASSUME NEW n \in 1 .. LinesRead, n - 1 \in H PROVE n \in H
  <2>1. PICK f : Read(f, n - 1) BY <1>2
  <2> DEFINE g == [i \in 0 .. n |-> IF i = n THEN After(f[n - 1], n) ELSE f[i]]
  <2>2. n \in Nat \ {0} BY LinesReadType
  <2>3. \A i \in 0 .. n - 1 :
          f[i] = IF i = 0 THEN <<>> ELSE IF File[i].name = Blank THEN f[i - 1]
                                         ELSE Enter(f[i - 1], i)
    BY <2>1 DEF Read
  <2>4. \A i \in 0 .. n :
          g[i] = IF i = 0 THEN <<>> ELSE IF File[i].name = Blank THEN g[i - 1]
                                         ELSE Enter(g[i - 1], i)
    <3> SUFFICES ASSUME NEW i \in 0 .. n
                 PROVE  g[i] = IF i = 0 THEN <<>>
                               ELSE IF File[i].name = Blank THEN g[i - 1]
                               ELSE Enter(g[i - 1], i)
      OBVIOUS
    <3>1. CASE i = n BY <2>2, <3>1 DEF After
    <3>2. CASE i # n
      <4>1. i \in 0 .. n - 1 /\ (i # 0 => i - 1 \in 0 .. n /\ i - 1 # n) BY <2>2, <3>2
      <4>2. g[i] = f[i] /\ (i # 0 => g[i - 1] = f[i - 1]) BY <3>2, <4>1
      <4> QED BY <2>3, <4>1, <4>2
    <3> QED BY <3>1, <3>2
  <2>5. Read(g, n)
    <3>1. g = [i \in 0 .. n |-> g[i]] OBVIOUS
    <3> HIDE DEF g
    <3> QED BY <2>4, <3>1 DEF Read
  <2> QED BY <2>5
<1> HIDE DEF H
<1>3. \A n \in 0 .. LinesRead : n \in H BY <1>1, <1>2, LinesReadType, UpTo
<1> QED BY <1>3 DEF H

\* hostInit puts every line of the host file that is read, and is not empty, into
\* the list of its name, as one record, whatever the order and the number of
\* the lines.
THEOREM HostIs == Holds(Host, LinesRead)
<1> DEFINE after == CHOOSE f : Read(f, LinesRead)
<1>1. Host = after[LinesRead] BY DEF Host, Read
<1>2. Read(after, LinesRead)
  BY ReadExists, LinesReadType
<1> HIDE DEF after
<1>3. \A i \in 0 .. LinesRead :
        after[i] = IF i = 0 THEN <<>> ELSE After(after[i - 1], i)
  BY <1>2 DEF Read, After
<1> DEFINE H == {i \in 0 .. LinesRead : Holds(after[i], i)}
<1>4. 0 \in H
  <2>1. 0 \in 0 .. LinesRead /\ after[0] = <<>> BY <1>3, LinesReadType
  <2>2. DOMAIN after[0] = {} /\ 1 .. 0 = {} BY <2>1
  <2> QED BY <2>1, <2>2 DEF Holds
<1>5. ASSUME NEW i \in 1 .. LinesRead, i - 1 \in H PROVE i \in H
  <2>1. i \in 0 .. LinesRead /\ i # 0 /\ after[i] = After(after[i - 1], i)
    BY <1>3, LinesReadType
  <2> QED BY <1>5, <2>1, HoldsMore
<1> HIDE DEF H
<1>6. \A i \in 0 .. LinesRead : i \in H BY <1>4, <1>5, LinesReadType, UpTo
<1>7. LinesRead \in H BY <1>6, LinesReadType
<1> QED BY <1>1, <1>7 DEF H
----------------------------------------------------------------------------
(* The inductive invariant *)

\* The lines whose records a host thread has not reached.
Rest(h) == {todo[h][k].line : k \in DOMAIN todo[h]}

\* A thread that may still write was detached, or its worker is in the call that
\* started it.
Frames ==
  \A h \in Threads : hpc[h] \in {"lookup", "loop"} => h \in detached \/ FrameLive(h)

\* One thread is started for each question, in the order of the questions.
Calls(w) ==
  /\ pc[w] \in InCall => hostExists /\ hpc[Mine(w)] # "none"
  /\ \A h \in Threads :
       /\ h[1] = w
       /\ h[2] > quest[w] \/ (h[2] = quest[w] /\ pc[w] = "search")
       => hpc[h] = "none"
  /\ ~hostExists => resource[w] = "unset"

\* The records before the rest of the list were dealt with: those of the type
\* were counted and copied, and none of them refused the query.
Dealt(h) ==
  LET q == QuestOf(h) IN
  /\ num[h] = Cardinality(HostLines(q) \ Rest(h))
  /\ Blocked(q) => \A i \in Listed(q.name) \ Rest(h) : File[i].ip # "0.0.0.0"
  /\ FrameLive(h) => {r.line : r \in resHost[h[1]]} = HostLines(q) \ Rest(h)

Walking(h) ==
  /\ hpc[h] \in {"none", "lookup"} => num[h] = 0 /\ todo[h] = <<>>
  /\ hpc[h] = "lookup" /\ FrameLive(h) => resHost[h[1]] = {}
  /\ hpc[h] = "exited" => todo[h] = <<>>
  /\ hpc[h] = "loop" => Rest(h) \subseteq Listed(QuestOf(h).name) /\ Lists(todo[h], Rest(h))
  /\ hpc[h] \in {"loop", "exited"} =>
       \/ num[h] = -1 /\ todo[h] = <<>> /\ Blocked(QuestOf(h))
       \/ Dealt(h)
  /\ hpc[h] = "exited" /\ FrameLive(h) => retHost[h[1]] = num[h]

Walks == \A h \in Threads : Walking(h)

\* The cache holds records that no line of the file gave.
Stored == IsFiniteSet(cached) /\ \A r \in cached : r.line = 0

\* What a worker holds says where it came from.
Results(w) ==
  /\ pc[w] \in InCall => \A r \in resHost[w] : r.line # 0
  /\ pc[w] \in {"detach", "load"} =>
       \A r \in result[w] : r.line = 0 => r.expires >= seen[w]
  /\ pc[w] = "detach" \/ (pc[w] = "load" /\ resource[w] = "cache") =>
       \A r \in result[w] : r.line = 0
  /\ seen[w] <= clock

\* What was joined is complete, whatever has happened since.
Complete(w) ==
  pc[w] = "load" /\ resource[w] = "host" =>
    IF Blocked(Quest(w)) THEN found[w] = -1
    ELSE /\ found[w] = Cardinality(HostLines(Quest(w)))
         /\ {r.line : r \in result[w]} = HostLines(Quest(w))

\* With a host file a result has a source, and one of the cache is not empty; a
\* packet is relayed or refused for what the question it stopped at deserves.
Settled(w) ==
  hostExists =>
    /\ pc[w] = "load" => resource[w] # "unset"
    /\ pc[w] = "detach" \/ (pc[w] = "load" /\ resource[w] = "cache") => found[w] > 0
    /\ pc[w] = "relayed" => ~ Blocked(Quest(w))
    /\ pc[w] = "blocked" => Blocked(Quest(w))

\* The answers loaded so far.
Loaded(w) ==
  \A a \in ANS[w] :
    /\ hostExists /\ Blocked(Packet[w][a.quest]) => a.rec.line = 0
    /\ a.rec.line = 0 =>
         /\ a.rec.expires >= a.seen
         /\ a.TTL <= a.rec.expires - a.seen \/ a.rec.expires < clock

Caller(w) == Calls(w) /\ Results(w) /\ Complete(w) /\ Settled(w) /\ Loaded(w)

IInv ==
  /\ TypeOK /\ Frames /\ Walks /\ Stored
  /\ \A w \in Workers : Caller(w)
  /\ HostIntact /\ StrayCause
----------------------------------------------------------------------------
(* Types *)

\* A type that was narrowed is a number.
LEMMA NarrowType ==
  ASSUME NEW t \in Nat PROVE Narrow(t) \in Nat
<1>1. \A a \in Nat, m \in Nat \ {0} : a % m \in 0 .. m - 1 OBVIOUS
<1>2. TypeMod \in Nat \ {0} BY UrlQueryAssumption DEF UrlQueryAssumption
<1>3. t % TypeMod \in 0 .. TypeMod - 1 BY <1>1, <1>2
<1> QED BY <1>2, <1>3 DEF Narrow

\* The questions of a packet are numbered from 1.
LEMMA PacketType ==
  ASSUME NEW w \in Workers
  PROVE  /\ DOMAIN Packet[w] = 1 .. Len(Packet[w]) /\ Len(Packet[w]) \in Nat \ {0}
         /\ \A k \in DOMAIN Packet[w] : /\ Packet[w][k] \in Question
                                        /\ Packet[w][k].name \in Names
                                        /\ Packet[w][k].qtype \in Nat
                                        /\ Packet[w][k].qtype \in Types
<1>1. Packet[w] \in Seq(Question) /\ Packet[w] # <<>> /\ Types \subseteq Nat
  BY UrlQueryAssumption DEF UrlQueryAssumption
<1>2. Len(Packet[w]) \in Nat \ {0} BY <1>1
<1>3. \A k \in DOMAIN Packet[w] : Packet[w][k] \in Question BY <1>1
<1>4. DOMAIN Packet[w] = 1 .. Len(Packet[w]) BY <1>1
<1>5. \A q \in Question : q.name \in Names /\ q.qtype \in Types BY DEF Question
<1>6. \A k \in DOMAIN Packet[w] : /\ Packet[w][k] \in Question
                                 /\ Packet[w][k].name \in Names
                                 /\ Packet[w][k].qtype \in Nat
                                 /\ Packet[w][k].qtype \in Types
  BY <1>1, <1>3, <1>5
<1> QED BY <1>2, <1>4, <1>6

\* A thread belongs to a question of a worker.
LEMMA ThreadType ==
  ASSUME NEW h \in Threads
  PROVE  /\ h[1] \in Workers /\ h[2] \in DOMAIN Packet[h[1]] /\ h = <<h[1], h[2]>>
         /\ h[2] \in Nat
         /\ QuestOf(h) \in Question /\ QuestOf(h).name \in Names
         /\ QuestOf(h).qtype \in Nat
<1>1. PICK w \in Workers : h \in {w} \X DOMAIN Packet[w] BY DEF Threads
<1>2. h[1] = w /\ h[2] \in DOMAIN Packet[w] /\ h = <<h[1], h[2]>> BY <1>1
<1> QED BY <1>2, PacketType DEF QuestOf

\* The thread of the question a worker is at.
LEMMA MineType ==
  ASSUME TypeOK, NEW w \in Workers
  PROVE  /\ Mine(w) \in Threads /\ Mine(w)[1] = w /\ Mine(w)[2] = quest[w]
         /\ QuestOf(Mine(w)) = Quest(w)
         /\ Quest(w) \in Question /\ Quest(w).name \in Names
         /\ Quest(w).qtype \in Nat
         /\ \A h \in Threads : h[1] = w /\ h[2] = quest[w] => h = Mine(w)
<1>1. quest[w] \in DOMAIN Packet[w] BY DEF TypeOK
<1>2. Mine(w) \in {w} \X DOMAIN Packet[w] BY <1>1 DEF Mine
<1>3. Mine(w) \in Threads BY <1>2 DEF Threads
<1>4. Mine(w)[1] = w /\ Mine(w)[2] = quest[w] BY DEF Mine
<1>5. \A h \in Threads : h[1] = w /\ h[2] = quest[w] => h = Mine(w)
  <2> SUFFICES ASSUME NEW h \in Threads, h[1] = w, h[2] = quest[w] PROVE h = Mine(w)
    OBVIOUS
  <2>1. h = <<h[1], h[2]>> BY ThreadType
  <2> QED BY <2>1 DEF Mine
<1>6. QuestOf(Mine(w)) = Quest(w) BY <1>4 DEF QuestOf, Quest
<1> QED BY <1>1, <1>3, <1>4, <1>5, <1>6, PacketType DEF Quest

\* A name of the host table has a list of records.
LEMMA HostType ==
  ASSUME NEW n \in DOMAIN Host
  PROVE  Host[n] \in Seq(HostRecord) /\ Lists(Host[n], Listed(n))
  BY HostIs, ListedRead DEF Holds, Lists

\* The lines about a question, and those of its type.
LEMMA LinesOf ==
  ASSUME NEW q
  PROVE  /\ HostLines(q) \subseteq Listed(q.name) /\ IsFiniteSet(HostLines(q))
         /\ Listed(q.name) \subseteq DOMAIN File
<1>1. HostLines(q) \subseteq 1 .. LinesRead BY ListedRead DEF HostLines, About
<1>2. IsFiniteSet(1 .. LinesRead) BY FS_Interval, LinesReadType
<1>3. IsFiniteSet(HostLines(q)) BY <1>1, <1>2, FS_Subset
<1> QED BY <1>3 DEF HostLines, Listed

\* What a host thread copies is a record.
LEMMA CopyType ==
  ASSUME TypeOK, NEW h \in Threads, NEW r \in HostRecord
  PROVE  /\ Copy(h, r) \in RecordSet /\ Copy(h, r).line = r.line /\ r.line # 0
<1>1. /\ QuestOf(h).name \in Names
      /\ r.type \in Nat /\ r.line \in Nat \ {0}
  BY ThreadType, UrlQueryAssumption DEF UrlQueryAssumption, HostRecord
<1>2. clock + HostLife \in Nat
  BY UrlQueryAssumption DEF UrlQueryAssumption, TypeOK
<1> QED BY <1>1, <1>2 DEF Copy, Record, RecordSet

\* What the cache gives is part of it.
LEMMA MatchType ==
  ASSUME TypeOK, Stored, NEW q
  PROVE  /\ Match(q) \subseteq cached /\ Match(q) \in SUBSET RecordSet
         /\ Cardinality(Match(q)) \in Nat
<1>1. Match(q) \subseteq cached BY DEF Match
<1>2. IsFiniteSet(Match(q)) BY <1>1, FS_Subset DEF Stored
<1> QED BY <1>1, <1>2, FS_CardinalityType DEF TypeOK

\* A round of the loop over the list refuses, copies, or passes over.
LEMMA VisitCases ==
  ASSUME NEW h \in Threads, HostVisit(h)
  PROVE  LET r == Head(todo[h]) IN
         \/ /\ Refuses(h, r)
            /\ num' = [num EXCEPT ![h] = -1]
            /\ todo' = [todo EXCEPT ![h] = <<>>]
            /\ resHost' = resHost
         \/ /\ ~ Refuses(h, r) /\ Wanted(h, r) /\ FrameLive(h)
            /\ num' = [num EXCEPT ![h] = @ + 1]
            /\ todo' = [todo EXCEPT ![h] = Tail(@)]
            /\ resHost' = [resHost EXCEPT ![h[1]] = @ \cup {Copy(h, r)}]
         \/ /\ ~ Refuses(h, r) /\ ~ Wanted(h, r)
            /\ num' = num
            /\ todo' = [todo EXCEPT ![h] = Tail(@)]
            /\ resHost' = resHost
  BY DEF HostVisit

\* The types hold at the start.
LEMMA TypeInit == Init => TypeOK
<1> SUFFICES ASSUME Init PROVE TypeOK OBVIOUS
<1>1. \A w \in Workers : 1 \in DOMAIN Packet[w] BY PacketType
<1>2. <<>> \in Seq(HostRecord) OBVIOUS
<1>3. /\ quest \in [Workers -> Nat \ {0}]
      /\ \A w \in Workers : quest[w] \in DOMAIN Packet[w]
  BY <1>1 DEF Init
<1>4. /\ todo \in [Threads -> Seq(HostRecord)]
      /\ num \in [Threads -> Int]
      /\ hpc \in [Threads -> {"none", "lookup", "loop", "exited"}]
  BY <1>2 DEF Init
<1>5. clock \in 0 .. MaxClock
  BY UrlQueryAssumption DEF UrlQueryAssumption, Init
<1>6. /\ pc \in [Workers -> {"search", "load"} \cup InCall \cup Outcome]
      /\ resHost \in [Workers -> SUBSET RecordSet]
      /\ retHost \in [Workers -> Int]
      /\ found \in [Workers -> Int]
      /\ result \in [Workers -> SUBSET RecordSet]
      /\ resource \in [Workers -> {"unset", "cache", "host"}]
      /\ seen \in [Workers -> Nat]
  BY DEF Init
<1>7. ANS \in [Workers -> SUBSET [quest : Nat, rec : RecordSet, seen : Nat, TTL : Nat]]
  BY DEF Init
<1>8. /\ cached \subseteq RecordSet /\ detached \subseteq Threads
      /\ hostExists \in BOOLEAN /\ stray \in BOOLEAN /\ hostFreed \in BOOLEAN
  BY DEF Init
<1> QED BY <1>3, <1>4, <1>5, <1>6, <1>7, <1>8 DEF TypeOK

\* Every step keeps the types.
LEMMA TypeStep == TypeOK /\ Stored /\ [Next]_vars => TypeOK'
<1> SUFFICES ASSUME TypeOK, Stored, [Next]_vars PROVE TypeOK' OBVIOUS
<1> USE DEF TypeOK, Goto, Begin, global, frame, back, thread, InCall, Outcome
<1>1. ASSUME NEW w \in Workers, CacheOnly(w) PROVE TypeOK'
  BY <1>1, MatchType DEF CacheOnly
<1>2. ASSUME NEW w \in Workers, Spawn(w) PROVE TypeOK'
  <2>1. Mine(w) \in Threads BY MineType
  <2>2. hpc' \in [Threads -> {"none", "lookup", "loop", "exited"}]
    BY <1>2, <2>1 DEF Spawn
  <2> QED BY <1>2, <2>2 DEF Spawn
<1>3. ASSUME NEW w \in Workers, CacheQuery(w) PROVE TypeOK'
  <2> DEFINE ms == Match(Quest(w))
  <2>1. ms \in SUBSET RecordSet /\ Cardinality(ms) \in Int BY MatchType
  <2>2. /\ found' = [found EXCEPT ![w] = Cardinality(ms)]
        /\ result' = [result EXCEPT ![w] = ms]
        /\ pc' = [pc EXCEPT ![w] = "join"] \/ pc' = [pc EXCEPT ![w] = "detach"]
    BY <1>3 DEF CacheQuery
  <2> HIDE DEF ms
  <2>3. pc' \in [Workers -> {"search", "load"} \cup InCall \cup Outcome] BY <2>2
  <2> QED BY <1>3, <2>1, <2>2, <2>3 DEF CacheQuery
<1>4. ASSUME NEW w \in Workers, Join(w) PROVE TypeOK'
  BY <1>4 DEF Join
<1>5. ASSUME NEW w \in Workers, Detach(w) PROVE TypeOK'
  BY <1>5, MineType DEF Detach
<1>6. ASSUME NEW w \in Workers, Refuse(w) PROVE TypeOK'
  BY <1>6 DEF Refuse
<1>7. ASSUME NEW w \in Workers, Load(w) PROVE TypeOK'
  <2>1. \A x \in Int, m \in Nat \ {0} : x % m \in Nat OBVIOUS
  <2>2. \A r \in result[w] : r \in RecordSet /\ (r.expires - clock) % TtlMod \in Nat
    BY <2>1, UrlQueryAssumption DEF UrlQueryAssumption, RecordSet
  <2>3. quest'[w] \in Nat \ {0} /\ quest'[w] \in DOMAIN Packet[w]
    BY <1>7, PacketType DEF Load
  <2>4. quest' \in [Workers -> Nat \ {0}] /\ \A x \in Workers : quest'[x] \in DOMAIN Packet[x]
    BY <1>7, <2>3 DEF Load
  <2>5. {[quest |-> quest[w], rec |-> r, seen |-> seen[w],
          TTL |-> (r.expires - clock) % TtlMod] : r \in result[w]}
          \subseteq [quest : Nat, rec : RecordSet, seen : Nat, TTL : Nat]
    BY <2>2
  <2>6. ANS' \in [Workers -> SUBSET [quest : Nat, rec : RecordSet, seen : Nat, TTL : Nat]]
    BY <1>7, <2>5 DEF Load
  <2>7. hostFreed' \in BOOLEAN BY <1>7 DEF Load
  <2> QED BY <1>7, <2>4, <2>6, <2>7 DEF Load
<1>8. CASE Store
  <2>1. PICK q \in Heard, ttl \in Lifetimes :
          cached' = cached \cup {Record(q.name, Narrow(q.qtype), clock + ttl, 0)}
    BY <1>8 DEF Store
  <2>2. q.name \in Names /\ q.qtype \in Nat /\ clock + ttl \in Nat
    <3>1. Heard \subseteq Question /\ Types \subseteq Nat /\ Lifetimes \subseteq Nat
          /\ MaxClock \in Nat
      BY UrlQueryAssumption DEF UrlQueryAssumption
    <3>2. q.name \in Names /\ q.qtype \in Types BY <3>1 DEF Question
    <3>3. clock \in 0 .. MaxClock OBVIOUS
    <3>4. ttl \in Nat /\ q.qtype \in Nat BY <3>1, <3>2
    <3>5. clock + ttl \in Nat BY ONLY <3>1, <3>3, <3>4
    <3> QED BY <3>2, <3>4, <3>5
  <2>3. Record(q.name, Narrow(q.qtype), clock + ttl, 0) \in RecordSet
    BY <2>2, NarrowType DEF Record, RecordSet
  <2>4. cached' \subseteq RecordSet BY <2>1, <2>3
  <2> QED BY <1>8, <2>4 DEF Store
<1>9. ASSUME NEW h \in Threads, HostLookup(h) PROVE TypeOK'
  BY <1>9, ThreadType, HostType DEF HostLookup
<1>10. ASSUME NEW h \in Threads, HostVisit(h) PROVE TypeOK'
  <2>1. Head(todo[h]) \in HostRecord /\ Tail(todo[h]) \in Seq(HostRecord)
    BY <1>10 DEF HostVisit
  <2>2. Copy(h, Head(todo[h])) \in RecordSet BY <2>1, CopyType
  <2>3. h[1] \in Workers BY ThreadType
  <2> HIDE DEF TypeOK
  <2>4. /\ num \in [Threads -> Int] /\ todo \in [Threads -> Seq(HostRecord)]
        /\ resHost \in [Workers -> SUBSET RecordSet]
    BY DEF TypeOK
  <2>5. /\ num' \in [Threads -> Int] /\ todo' \in [Threads -> Seq(HostRecord)]
        /\ resHost' \in [Workers -> SUBSET RecordSet]
    <3>1. <<>> \in Seq(HostRecord) OBVIOUS
    <3> DEFINE r == Head(todo[h])
    <3>2. CASE Refuses(h, r)
      <4>1. /\ num' = [num EXCEPT ![h] = -1]
            /\ todo' = [todo EXCEPT ![h] = <<>>]
            /\ resHost' = resHost
        BY <1>10, <3>2, VisitCases
      <4>2. num' \in [Threads -> Int] BY <2>4, <4>1
      <4> QED BY <2>4, <3>1, <4>1, <4>2
    <3>3. CASE ~ Refuses(h, r) /\ Wanted(h, r)
      <4>1. /\ num' = [num EXCEPT ![h] = @ + 1]
            /\ todo' = [todo EXCEPT ![h] = Tail(@)]
            /\ resHost' = [resHost EXCEPT ![h[1]] = @ \cup {Copy(h, r)}]
        BY <1>10, <3>3, VisitCases
      <4> QED BY <2>1, <2>2, <2>3, <2>4, <4>1
    <3>4. CASE ~ Refuses(h, r) /\ ~ Wanted(h, r)
      BY <1>10, <2>1, <2>4, <3>4, VisitCases
    <3> QED BY <3>2, <3>3, <3>4
  <2> USE DEF TypeOK
  <2> QED BY <1>10, <2>5 DEF HostVisit
<1>11. ASSUME NEW h \in Threads, HostReport(h) PROVE TypeOK'
  BY <1>11, ThreadType DEF HostReport
<1>12. ASSUME NEW h \in Threads, Stray(h) PROVE TypeOK'
  BY <1>12 DEF Stray
<1>13. CASE Lose BY <1>13 DEF Lose
<1>14. CASE Tick BY <1>14, UrlQueryAssumption DEF UrlQueryAssumption, Tick
<1>15. CASE UNCHANGED vars BY <1>15 DEF vars
<1> QED
  BY <1>1, <1>2, <1>3, <1>4, <1>5, <1>6, <1>7, <1>8, <1>9, <1>10, <1>11, <1>12,
     <1>13, <1>14, <1>15
  DEF Next, urlQuery, qnameSearch, host_query_handle
----------------------------------------------------------------------------
(* What a step leaves alone *)

\* The host threads, when a worker goes on: its frame is gone only if its thread
\* has ended or was detached.
LEMMA KeepThreads ==
  ASSUME TypeOK, Frames, Walks, UNCHANGED <<thread, frame>>, detached \subseteq detached',
         \A h \in Threads : FrameLive(h)' => FrameLive(h),
         \A h \in Threads :
           FrameLive(h) /\ ~ FrameLive(h)' /\ hpc[h] \in {"lookup", "loop"} => h \in detached'
  PROVE  Frames' /\ Walks'
<1> USE DEF thread, frame
<1>1. Frames' BY DEF Frames
<1>2. Walks'
  <2> SUFFICES ASSUME NEW h \in Threads PROVE Walking(h)' BY DEF Walks
  <2>1. Walking(h) BY DEF Walks
  <2>2. Rest(h)' = Rest(h) BY DEF Rest
  <2>3. Dealt(h) => Dealt(h)' BY <2>2 DEF Dealt
  <2> QED BY <2>1, <2>2, <2>3 DEF Walking, Lists
<1> QED BY <1>1, <1>2

\* A worker that did not move, with the results its thread has written.
LEMMA KeepCaller ==
  ASSUME TypeOK, TypeOK', NEW w \in Workers, Caller(w), UNCHANGED hostExists,
         clock <= clock',
         pc'[w] = pc[w], quest'[w] = quest[w], found'[w] = found[w],
         result'[w] = result[w], resource'[w] = resource[w], seen'[w] = seen[w],
         ANS'[w] = ANS[w],
         \A h \in Threads : h[1] = w => (hpc'[h] = "none" <=> hpc[h] = "none"),
         pc[w] \in InCall => \A r \in resHost'[w] : r.line # 0
  PROVE  Caller(w)'
<1>1. Quest(w)' = Quest(w) /\ Mine(w)' = Mine(w) BY DEF Quest, Mine
<1>2. Mine(w) \in Threads /\ Mine(w)[1] = w BY MineType
<1>3. /\ seen[w] \in Nat /\ clock \in Nat /\ clock' \in Nat
      /\ \A a \in ANS[w] : a.rec.expires \in Nat
  BY DEF TypeOK, RecordSet
<1>4. Calls(w)' BY <1>1, <1>2 DEF Caller, Calls
<1>5. Results(w)'
  <2>1. seen[w] <= clock BY DEF Caller, Results
  <2>2. seen'[w] <= clock' BY <1>3, <2>1
  <2> QED BY <1>1, <2>2 DEF Caller, Results
<1>6. Complete(w)' BY <1>1 DEF Caller, Complete
<1>7. Settled(w)' BY <1>1 DEF Caller, Settled, Blocked, Listed
<1>8. Loaded(w)'
  <2>1. \A a \in ANS[w] : a.rec.expires < clock => a.rec.expires < clock' BY <1>3
  <2> QED BY <2>1 DEF Caller, Loaded, Blocked, Listed
<1> QED BY <1>4, <1>5, <1>6, <1>7, <1>8 DEF Caller

\* The cache, when nothing enters it.
LEMMA KeepStored ==
  ASSUME Stored, cached' \subseteq cached, UNCHANGED hostExists
  PROVE  Stored'
<1>1. IsFiniteSet(cached') BY FS_Subset DEF Stored
<1> QED BY <1>1 DEF Stored

\* Between two questions the frame of a worker is not in use.
LEMMA MoveFrames ==
  ASSUME TypeOK, NEW w \in Workers, UNCHANGED quest,
         \A x \in Workers : x # w => pc'[x] = pc[x],
         pc'[w] \in InCall => pc[w] \in InCall
  PROVE  /\ \A h \in Threads : FrameLive(h)' => FrameLive(h)
         /\ \A h \in Threads : FrameLive(h) /\ ~ FrameLive(h)' => h = Mine(w)
<1> SUFFICES ASSUME NEW h \in Threads
             PROVE  /\ FrameLive(h)' => FrameLive(h)
                    /\ FrameLive(h) /\ ~ FrameLive(h)' => h = Mine(w)
  OBVIOUS
<1>1. h[1] \in Workers BY ThreadType
<1>2. h[1] = w /\ h[2] = quest[w] => h = Mine(w) BY MineType
<1> QED BY <1>1, <1>2 DEF FrameLive
----------------------------------------------------------------------------
(* The steps of a worker *)

\* What every step of a worker has in common: the other workers, the threads,
\* and the strings of the host table.
Aside(w) ==
  /\ ~ stray /\ UNCHANGED <<clock, hostExists, stray, thread, frame>>
  /\ pc' = [pc EXCEPT ![w] = pc'[w]]
  /\ \A x \in Workers : x # w =>
       /\ quest'[x] = quest[x] /\ found'[x] = found[x] /\ result'[x] = result[x]
       /\ resource'[x] = resource[x] /\ seen'[x] = seen[x] /\ ANS'[x] = ANS[x]

\* Only what concerns the worker itself is left to be shown.
LEMMA AsideInv ==
  ASSUME IInv, TypeOK', NEW w \in Workers, Aside(w), Frames', Walks',
         Stored', HostIntact', Caller(w)'
  PROVE  IInv'
<1>1. ASSUME NEW x \in Workers, x # w PROVE Caller(x)'
  <2>1. pc'[x] = pc[x] BY <1>1 DEF Aside, IInv, TypeOK
  <2>2. /\ quest'[x] = quest[x] /\ found'[x] = found[x] /\ result'[x] = result[x]
        /\ resource'[x] = resource[x] /\ seen'[x] = seen[x] /\ ANS'[x] = ANS[x]
        /\ UNCHANGED <<clock, hostExists, hpc, resHost>>
    BY <1>1 DEF Aside, thread, frame
  <2>3. clock <= clock' BY <2>2 DEF IInv, TypeOK
  <2>4. Caller(x) /\ TypeOK BY DEF IInv
  <2>5. pc[x] \in InCall => \A r \in resHost'[x] : r.line # 0
    BY <2>2, <2>4 DEF Caller, Results
  <2> QED BY <2>1, <2>2, <2>3, <2>4, <2>5, KeepCaller
<1>2. StrayCause' BY DEF Aside, StrayCause
<1> QED BY <1>1, <1>2 DEF IInv

\* Without a host file the cache alone is asked.
LEMMA CacheOnlyInv ==
  ASSUME IInv, TypeOK', NEW w \in Workers, CacheOnly(w)
  PROVE  IInv'
<1> DEFINE ms == Match(Quest(w))
<1>1. /\ ~ stray /\ ~ hostExists /\ pc[w] = "search"
      /\ pc' = [pc EXCEPT ![w] = "load"] /\ pc'[w] = "load"
      /\ found'[w] = Cardinality(ms) /\ result'[w] = ms /\ seen'[w] = clock
      /\ UNCHANGED <<clock, hostExists, stray, cached, hostFreed, thread, frame, detached>>
      /\ UNCHANGED <<quest, resource, ANS>>
  BY DEF CacheOnly, Goto, global, IInv, TypeOK
<1>2. Aside(w) BY <1>1 DEF Aside, CacheOnly, IInv, TypeOK
<1>3. Frames' /\ Walks'
  <2>1. \A x \in Workers : x # w => pc'[x] = pc[x] BY <1>1 DEF IInv, TypeOK
  <2>2. pc'[w] \notin InCall /\ pc[w] \notin InCall BY <1>1 DEF InCall
  <2>3. \A h \in Threads : FrameLive(h)' <=> FrameLive(h)
    <3> SUFFICES ASSUME NEW h \in Threads PROVE FrameLive(h)' <=> FrameLive(h)
      OBVIOUS
    <3>1. h[1] \in Workers BY ThreadType
    <3> QED BY <1>1, <2>1, <2>2, <3>1 DEF FrameLive
  <2> QED BY <1>1, <2>3, KeepThreads DEF IInv
<1>4. Stored' /\ HostIntact' BY <1>1, KeepStored DEF IInv, HostIntact
<1>5. Caller(w) /\ TypeOK /\ Stored BY DEF IInv
<1>6. \A r \in ms : r \in cached /\ r.line = 0 /\ r.expires >= clock
  BY <1>5 DEF Match, Stored
<1> HIDE DEF ms
<1>7. Quest(w)' = Quest(w) /\ Mine(w)' = Mine(w) BY <1>1 DEF Quest, Mine
<1>8. Calls(w)'
  BY <1>1, <1>5 DEF Caller, Calls, InCall, thread
<1>9. Results(w)'
  BY <1>1, <1>5, <1>6, <1>7 DEF Results, InCall, TypeOK
<1>10. Complete(w)' BY <1>1, <1>5 DEF Caller, Calls, Complete
<1>11. Settled(w)' BY <1>1 DEF Settled
<1>12. Loaded(w)' BY <1>1, <1>5 DEF Caller, Loaded
<1>13. Caller(w)' BY <1>8, <1>9, <1>10, <1>11, <1>12 DEF Caller
<1> QED BY <1>2, <1>3, <1>4, <1>13, AsideInv

\* The cache is walked while the host thread runs.
LEMMA CacheQueryInv ==
  ASSUME IInv, TypeOK', NEW w \in Workers, CacheQuery(w)
  PROVE  IInv'
<1> DEFINE ms == Match(Quest(w))
<1>1. /\ ~ stray /\ pc[w] = "cache"
      /\ pc' = [pc EXCEPT ![w] = pc'[w]]
      /\ pc'[w] = "join" \/ (pc'[w] = "detach" /\ ms # {})
      /\ found'[w] = Cardinality(ms) /\ result'[w] = ms /\ seen'[w] = clock
      /\ UNCHANGED <<clock, hostExists, stray, cached, hostFreed, thread, frame, detached>>
      /\ UNCHANGED <<quest, resource, ANS>>
  BY DEF CacheQuery, Goto, global, IInv, TypeOK
<1>2. Aside(w) BY <1>1 DEF Aside, CacheQuery, IInv, TypeOK
<1>3. Frames' /\ Walks'
  <2>1. \A x \in Workers : x # w => pc'[x] = pc[x] BY <1>1 DEF IInv, TypeOK
  <2>2. pc'[w] \in InCall /\ pc[w] \in InCall BY <1>1 DEF InCall
  <2>3. \A h \in Threads : FrameLive(h)' <=> FrameLive(h)
    <3> SUFFICES ASSUME NEW h \in Threads PROVE FrameLive(h)' <=> FrameLive(h)
      OBVIOUS
    <3>1. h[1] \in Workers BY ThreadType
    <3> QED BY <1>1, <2>1, <2>2, <3>1 DEF FrameLive
  <2> QED BY <1>1, <2>3, KeepThreads DEF IInv
<1>4. Stored' /\ HostIntact' BY <1>1, KeepStored DEF IInv, HostIntact
<1>5. Caller(w) /\ TypeOK /\ Stored BY DEF IInv
<1>6. /\ \A r \in ms : r \in cached /\ r.line = 0 /\ r.expires >= clock
      /\ ms # {} => Cardinality(ms) > 0
  <2>1. \A r \in ms : r \in cached /\ r.line = 0 /\ r.expires >= clock
    BY <1>5 DEF Match, Stored
  <2>2. ms \subseteq cached /\ Cardinality(ms) \in Nat BY <1>5, MatchType
  <2>3. IsFiniteSet(ms) BY <1>5, <2>2, FS_Subset DEF Stored
  <2> HIDE DEF ms
  <2>4. Cardinality(ms) = 0 <=> ms = {} BY <2>3, FS_EmptySet
  <2> QED BY <2>1, <2>2, <2>4
<1> HIDE DEF ms
<1>7. Quest(w)' = Quest(w) /\ Mine(w)' = Mine(w) BY <1>1 DEF Quest, Mine
<1>8. Calls(w)'
  BY <1>1, <1>5, <1>7 DEF Caller, Calls, InCall, thread
<1>9. Results(w)'
  <2>1. \A r \in resHost[w] : r.line # 0
    BY <1>1, <1>5 DEF Caller, Results, InCall
  <2>2. seen'[w] <= clock' BY <1>1, <1>5 DEF TypeOK
  <2>3. resHost'[w] = resHost[w] BY <1>1 DEF frame
  <2> QED BY <1>1, <1>6, <1>7, <2>1, <2>2, <2>3 DEF Results
<1>10. Complete(w)' BY <1>1 DEF Complete
<1>11. Settled(w)' BY <1>1, <1>6 DEF Settled
<1>12. Loaded(w)' BY <1>1, <1>5 DEF Caller, Loaded
<1>13. Caller(w)' BY <1>8, <1>9, <1>10, <1>11, <1>12 DEF Caller
<1> QED BY <1>2, <1>3, <1>4, <1>13, AsideInv

\* The thread has exited: its result is complete, and nobody writes any more.
LEMMA JoinInv ==
  ASSUME IInv, TypeOK', NEW w \in Workers, Join(w)
  PROVE  IInv'
<1> DEFINE h == Mine(w)
           q == Quest(w)
<1>1. /\ ~ stray /\ pc[w] = "join" /\ hpc[h] = "exited"
      /\ pc' = [pc EXCEPT ![w] = "load"] /\ pc'[w] = "load"
      /\ found'[w] = retHost[w]
      /\ result'[w] = IF retHost[w] # 0 THEN resHost[w] ELSE {}
      /\ resource'[w] = "host"
      /\ UNCHANGED <<clock, hostExists, stray, cached, hostFreed, thread, frame, detached>>
      /\ UNCHANGED <<quest, seen, ANS>>
  BY DEF Join, Goto, global, IInv, TypeOK
<1>2. Aside(w) BY <1>1 DEF Aside, Join, IInv, TypeOK
<1>3. Frames' /\ Walks'
  <2>1. \A x \in Workers : x # w => pc'[x] = pc[x] BY <1>1 DEF IInv, TypeOK
  <2>2. pc'[w] \notin InCall BY <1>1 DEF InCall
  <2>3. /\ \A k \in Threads : FrameLive(k)' => FrameLive(k)
        /\ \A k \in Threads : FrameLive(k) /\ ~ FrameLive(k)' => k = h
    BY <1>1, <2>1, <2>2, MoveFrames DEF IInv
  <2> QED BY <1>1, <2>3, KeepThreads DEF IInv
<1>4. Stored' /\ HostIntact' BY <1>1, KeepStored DEF IInv, HostIntact
<1>5. Caller(w) /\ TypeOK /\ Walks BY DEF IInv
<1>6. /\ h \in Threads /\ h[1] = w /\ h[2] = quest[w] /\ QuestOf(h) = q /\ FrameLive(h)
      /\ Walking(h)
  <2>1. pc[w] \in InCall BY <1>1 DEF InCall
  <2> QED BY <1>5, <2>1, MineType DEF FrameLive, Walks
<1>7. /\ retHost[w] = num[h] /\ Rest(h) = {}
      /\ \/ num[h] = -1 /\ Blocked(q)
         \/ Dealt(h)
  <2>1. /\ todo[h] = <<>> /\ retHost[h[1]] = num[h]
        /\ (num[h] = -1 /\ Blocked(QuestOf(h))) \/ Dealt(h)
    BY <1>1, <1>6 DEF Walking
  <2> QED BY <1>6, <2>1 DEF Rest
<1>8. Dealt(h) => /\ num[h] = Cardinality(HostLines(q)) /\ ~ Blocked(q)
                  /\ {r.line : r \in resHost[w]} = HostLines(q)
  <2> SUFFICES ASSUME Dealt(h)
               PROVE  /\ num[h] = Cardinality(HostLines(q)) /\ ~ Blocked(q)
                      /\ {r.line : r \in resHost[w]} = HostLines(q)
    OBVIOUS
  <2>1. /\ num[h] = Cardinality(HostLines(q) \ Rest(h))
        /\ Blocked(q) => \A i \in Listed(q.name) \ Rest(h) : File[i].ip # "0.0.0.0"
        /\ {r.line : r \in resHost[w]} = HostLines(q) \ Rest(h)
    BY <1>6 DEF Dealt
  <2>2. HostLines(q) \ Rest(h) = HostLines(q) /\ Listed(q.name) \ Rest(h) = Listed(q.name)
    BY <1>7
  <2>3. ~ Blocked(q) BY <2>1, <2>2 DEF Blocked
  <2> QED BY <2>1, <2>2, <2>3
<1>9. Quest(w)' = q /\ Mine(w)' = h BY <1>1 DEF Quest, Mine
<1>10. \A r \in resHost[w] : r.line # 0
  BY <1>1, <1>5 DEF Caller, Results, InCall
<1>11. pc[w] \in InCall /\ seen[w] <= clock
  BY <1>1, <1>5 DEF InCall, Caller, Results
<1>12. Calls(w)'
  BY <1>1, <1>5, <1>9, <1>11 DEF Caller, Calls, InCall, thread
<1> HIDE DEF h, q
<1>13. Results(w)'
  BY <1>1, <1>9, <1>10, <1>11 DEF Results, InCall
<1>14. Complete(w)'
  <2>1. HostLines(q) \subseteq 1 .. LinesRead
    BY ListedRead DEF HostLines, About
  <2>2. IsFiniteSet(HostLines(q)) /\ Cardinality(HostLines(q)) \in Nat
    <3>1. IsFiniteSet(1 .. LinesRead) BY FS_Interval, LinesReadType
    <3> QED BY <2>1, <3>1, FS_Subset, FS_CardinalityType
  <2>3. CASE Blocked(q)
    <3>1. found'[w] = -1 BY <1>1, <1>7, <1>8, <2>3
    <3> QED BY <1>9, <2>3, <3>1 DEF Complete, Blocked, Listed
  <2>4. CASE ~ Blocked(q)
    <3>1. /\ found'[w] = Cardinality(HostLines(q))
          /\ {r.line : r \in resHost[w]} = HostLines(q)
      BY <1>1, <1>7, <1>8, <2>4
    <3>2. {r.line : r \in result'[w]} = HostLines(q)
      <4>1. CASE retHost[w] # 0 BY <1>1, <3>1, <4>1
      <4>2. CASE retHost[w] = 0
        <5>1. Cardinality(HostLines(q)) = 0
          <6>1. found'[w] = retHost[w] BY <1>1
          <6> QED BY <3>1, <4>2, <6>1
        <5>2. HostLines(q) = {} BY <2>2, <5>1, FS_EmptySet
        <5>3. result'[w] = {} BY <1>1, <4>2
        <5> QED BY <5>2, <5>3
      <4> QED BY <4>1, <4>2
    <3> QED BY <1>9, <2>4, <3>1, <3>2 DEF Complete, HostLines, Blocked, Listed
  <2> QED BY <2>3, <2>4
<1>15. Settled(w)' BY <1>1 DEF Settled
<1>16. Loaded(w)' BY <1>1, <1>5 DEF Caller, Loaded
<1>17. Caller(w)' BY <1>12, <1>13, <1>14, <1>15, <1>16 DEF Caller
<1> QED BY <1>2, <1>3, <1>4, <1>17, AsideInv

\* The cache had an answer, so that the name is not on the black list.
LEMMA DetachInv ==
  ASSUME IInv, TypeOK', NEW w \in Workers, Detach(w)
  PROVE  IInv'
<1> DEFINE h == Mine(w)
<1>1. /\ ~ stray /\ pc[w] = "detach"
      /\ pc' = [pc EXCEPT ![w] = "load"] /\ pc'[w] = "load"
      /\ detached' = detached \cup {h}
      /\ resource'[w] = "cache"
      /\ UNCHANGED <<clock, hostExists, stray, cached, hostFreed, thread, frame>>
      /\ UNCHANGED <<quest, found, result, seen, ANS>>
  BY DEF Detach, Goto, global, IInv, TypeOK
<1>2. Aside(w) BY <1>1 DEF Aside, Detach, IInv, TypeOK
<1>3. Frames' /\ Walks'
  <2>1. \A x \in Workers : x # w => pc'[x] = pc[x] BY <1>1 DEF IInv, TypeOK
  <2>2. pc'[w] \notin InCall BY <1>1 DEF InCall
  <2>3. /\ \A k \in Threads : FrameLive(k)' => FrameLive(k)
        /\ \A k \in Threads : FrameLive(k) /\ ~ FrameLive(k)' => k = h
    BY <1>1, <2>1, <2>2, MoveFrames DEF IInv
  <2> QED BY <1>1, <2>3, KeepThreads DEF IInv
<1>4. Stored' /\ HostIntact' BY <1>1, KeepStored DEF IInv, HostIntact
<1>5. Caller(w) /\ TypeOK BY DEF IInv
<1>6. Quest(w)' = Quest(w) /\ Mine(w)' = h BY <1>1 DEF Quest, Mine
<1> HIDE DEF h
<1>7. pc[w] \in InCall /\ seen[w] <= clock
  BY <1>1, <1>5 DEF InCall, Caller, Results
<1>8. Calls(w)' BY <1>1, <1>5, <1>6, <1>7 DEF Caller, Calls, InCall, thread
<1>9. Results(w)' BY <1>1, <1>5, <1>6 DEF Caller, Results, InCall
<1>10. Complete(w)' BY <1>1 DEF Complete
<1>11. Settled(w)' BY <1>1, <1>5, <1>6 DEF Caller, Settled
<1>12. Loaded(w)' BY <1>1, <1>5 DEF Caller, Loaded
<1>13. Caller(w)' BY <1>8, <1>9, <1>10, <1>11, <1>12 DEF Caller
<1> QED BY <1>2, <1>3, <1>4, <1>13, AsideInv

\* The packet is relayed, or refused for good.
LEMMA RefuseInv ==
  ASSUME IInv, TypeOK', NEW w \in Workers, Refuse(w)
  PROVE  IInv'
<1>1. /\ ~ stray /\ pc[w] = "load"
      /\ found[w] <= 0 /\ pc' = [pc EXCEPT ![w] = pc'[w]]
      /\ pc'[w] = IF found[w] = -1 THEN "blocked" ELSE "relayed"
      /\ ANS'[w] = {}
      /\ UNCHANGED <<clock, hostExists, stray, cached, hostFreed, thread, frame, detached>>
      /\ UNCHANGED <<quest, found, result, resource, seen>>
  BY DEF Refuse, Goto, global, back, IInv, TypeOK
<1>2. Aside(w) BY <1>1 DEF Aside, Refuse, IInv, TypeOK
<1>3. Frames' /\ Walks'
  <2>1. \A x \in Workers : x # w => pc'[x] = pc[x] BY <1>1 DEF IInv, TypeOK
  <2>2. pc'[w] \notin InCall /\ pc[w] \notin InCall BY <1>1 DEF InCall
  <2>3. /\ \A k \in Threads : FrameLive(k)' => FrameLive(k)
        /\ \A k \in Threads : FrameLive(k) /\ ~ FrameLive(k)' => k = Mine(w)
    BY <1>1, <2>1, <2>2, MoveFrames DEF IInv
  <2>4. ~ FrameLive(Mine(w)) BY <2>2, MineType DEF FrameLive, IInv
  <2> QED BY <1>1, <2>3, <2>4, KeepThreads DEF IInv
<1>4. Stored' /\ HostIntact' BY <1>1, KeepStored DEF IInv, HostIntact
<1>5. Caller(w) /\ TypeOK BY DEF IInv
<1>6. Quest(w)' = Quest(w) /\ Mine(w)' = Mine(w) BY <1>1 DEF Quest, Mine
<1>7. /\ pc'[w] \notin InCall \cup {"search", "detach", "load"} /\ seen[w] <= clock
  BY <1>1, <1>5 DEF InCall, Caller, Results
<1>8. Calls(w)' BY <1>1, <1>5, <1>6, <1>7 DEF Caller, Calls, thread
<1>9. Results(w)' BY <1>1, <1>7 DEF Results
<1>10. Complete(w)' BY <1>7 DEF Complete
<1>11. Settled(w)'
  <2>1. ASSUME hostExists
        PROVE  /\ found[w] = -1 => Blocked(Quest(w))
               /\ found[w] # -1 => ~ Blocked(Quest(w))
    <3>1. resource[w] = "host"
      <4>1. resource[w] \in {"unset", "cache", "host"} /\ found[w] \in Int
        BY <1>5 DEF TypeOK
      <4>2. resource[w] # "unset" /\ (resource[w] = "cache" => found[w] > 0)
        BY <1>1, <1>5, <2>1 DEF Caller, Settled
      <4> QED BY <1>1, <4>1, <4>2
    <3>2. IF Blocked(Quest(w)) THEN found[w] = -1
          ELSE found[w] = Cardinality(HostLines(Quest(w)))
      BY <1>1, <1>5, <3>1 DEF Caller, Complete
    <3>3. Cardinality(HostLines(Quest(w))) \in Nat
      BY LinesOf, FS_CardinalityType
    <3> QED BY <3>2, <3>3
  <2>2. pc'[w] # "detach" /\ pc'[w] # "load" BY <1>1
  <2>3. Blocked(Quest(w))' = Blocked(Quest(w)) BY <1>6 DEF Blocked, Listed
  <2> QED BY <1>1, <2>1, <2>2, <2>3 DEF Settled
<1>12. Loaded(w)' BY <1>1 DEF Loaded
<1>13. Caller(w)' BY <1>8, <1>9, <1>10, <1>11, <1>12 DEF Caller
<1> QED BY <1>2, <1>3, <1>4, <1>13, AsideInv

\* A thread is started for the question, with a frame that is empty.
LEMMA SpawnInv ==
  ASSUME IInv, TypeOK', NEW w \in Workers, Spawn(w)
  PROVE  IInv'
<1> DEFINE h == Mine(w)
<1>1. /\ ~ stray /\ hostExists /\ pc[w] = "search"
      /\ pc' = [pc EXCEPT ![w] = "cache"] /\ pc'[w] = "cache"
      /\ resHost' = [resHost EXCEPT ![w] = {}] /\ resHost'[w] = {}
      /\ hpc' = [hpc EXCEPT ![h] = "lookup"]
      /\ UNCHANGED <<clock, hostExists, stray, cached, hostFreed, detached, todo, num>>
      /\ UNCHANGED <<quest, found, result, resource, seen, ANS>>
      /\ \A x \in Workers : x # w => /\ pc'[x] = pc[x] /\ resHost'[x] = resHost[x]
                                     /\ retHost'[x] = retHost[x]
  BY DEF Spawn, Goto, global, back, IInv, TypeOK
<1>2. TypeOK /\ Frames /\ Walks /\ Stored /\ Caller(w) BY DEF IInv
<1>3. /\ h \in Threads /\ h[1] = w /\ h[2] = quest[w]
      /\ \A k \in Threads : k[1] = w /\ k[2] = quest[w] => k = h
  BY <1>2, MineType
<1>4. Quest(w)' = Quest(w) /\ Mine(w)' = h /\ h' = h BY <1>1 DEF Quest, Mine
<1> HIDE DEF h
<1>5. hpc[h] = "none" BY <1>1, <1>2, <1>3 DEF Caller, Calls
<1>6. hpc'[h] = "lookup" /\ \A k \in Threads : k # h => hpc'[k] = hpc[k]
  BY <1>1, <1>2, <1>3 DEF TypeOK
<1>7. /\ FrameLive(h)' /\ ~ FrameLive(h)
      /\ \A k \in Threads : k # h => (FrameLive(k)' <=> FrameLive(k))
      /\ \A k \in Threads : k # h /\ FrameLive(k) => k[1] \in Workers /\ k[1] # w
  <2>1. pc'[w] \in InCall /\ pc[w] \notin InCall BY <1>1 DEF InCall
  <2>2. ASSUME NEW k \in Threads, k # h
        PROVE  /\ FrameLive(k)' <=> FrameLive(k)
               /\ FrameLive(k) => k[1] \in Workers /\ k[1] # w
    <3>1. k[1] \in Workers BY ThreadType
    <3>2. CASE k[1] = w BY <1>1, <1>3, <2>1, <2>2, <3>2 DEF FrameLive
    <3>3. CASE k[1] # w BY <1>1, <3>1, <3>3 DEF FrameLive
    <3> QED BY <3>2, <3>3
  <2>3. FrameLive(h)' /\ ~ FrameLive(h) BY <1>1, <1>3, <1>4, <2>1 DEF FrameLive
  <2> QED BY <2>2, <2>3
<1>8. Frames' BY <1>1, <1>2, <1>4, <1>6, <1>7 DEF Frames
<1>9. Walks'
  <2> SUFFICES ASSUME NEW k \in Threads PROVE Walking(k)' BY DEF Walks
  <2>1. Walking(k) BY <1>2 DEF Walks
  <2>2. CASE k = h
    <3>1. num'[h] = 0 /\ todo'[h] = <<>> BY <1>1, <1>5, <2>1, <2>2 DEF Walking
    <3> QED BY <1>1, <1>3, <1>6, <2>2, <3>1 DEF Walking
  <2>3. CASE k # h
    <3>1. Rest(k)' = Rest(k) BY <1>1 DEF Rest
    <3>2. FrameLive(k) =>
            resHost'[k[1]] = resHost[k[1]] /\ retHost'[k[1]] = retHost[k[1]]
      BY <1>1, <1>7, <2>3
    <3>3. hpc'[k] = hpc[k] /\ (FrameLive(k)' <=> FrameLive(k)) BY <1>6, <1>7, <2>3
    <3>4. Dealt(k) => Dealt(k)' BY <1>1, <3>1, <3>2, <3>3 DEF Dealt
    <3> QED BY <1>1, <2>1, <3>1, <3>2, <3>3, <3>4 DEF Walking, Lists
  <2> QED BY <2>2, <2>3
<1>10. Stored' /\ HostIntact' BY <1>1, <1>2, KeepStored DEF IInv, HostIntact
<1>11. ASSUME NEW x \in Workers, x # w PROVE Caller(x)'
  <2>1. Caller(x) /\ Results(x) BY DEF IInv, Caller
  <2>2. \A k \in Threads : k[1] = x => k # h BY <1>3, <1>11
  <2>3. pc[x] \in InCall => \A r \in resHost'[x] : r.line # 0
    BY <1>1, <1>11, <2>1 DEF Results
  <2>4. clock <= clock' BY <1>1, <1>2 DEF TypeOK
  <2> QED BY <1>1, <1>2, <1>6, <1>11, <2>1, <2>2, <2>3, <2>4, KeepCaller
<1>12. Caller(w)'
  <2>1. quest[w] \in Nat /\ \A k \in Threads : k[2] \in Nat
    BY <1>2, ThreadType DEF TypeOK
  <2>2. Calls(w)'
    BY <1>1, <1>2, <1>3, <1>4, <1>6, <2>1 DEF Caller, Calls
  <2>3. Results(w)' BY <1>1, <1>2 DEF Caller, Results
  <2>4. Complete(w)' BY <1>1 DEF Complete
  <2>5. Settled(w)' BY <1>1 DEF Settled
  <2>6. Loaded(w)' BY <1>1, <1>2 DEF Caller, Loaded
  <2> QED BY <2>2, <2>3, <2>4, <2>5, <2>6 DEF Caller
<1>13. StrayCause' BY <1>1 DEF StrayCause
<1> QED BY <1>8, <1>9, <1>10, <1>11, <1>12, <1>13 DEF IInv

\* A remainder is no more than what is divided.
LEMMA Wrap ==
  ASSUME NEW x \in Nat, NEW m \in Nat \ {0}
  PROVE  x % m \in Nat /\ x % m <= x
<1>1. x % m \in 0 .. m - 1
  <2>1. \A n \in Nat \ {0} : \A a \in Nat : a % n \in 0 .. n - 1 OBVIOUS
  <2> QED BY <2>1
<1>2. CASE x < m
  <2>1. \A n \in Nat \ {0} : \A a \in 0 .. n - 1 : a % n = a OBVIOUS
  <2>2. x \in 0 .. m - 1 BY <1>2
  <2>3. x % m = x BY <2>1, <2>2
  <2> QED BY <2>3
<1>3. CASE x >= m BY <1>1, <1>3
<1> QED BY <1>2, <1>3

\* The answers are loaded, and the worker goes on to the next question.
LEMMA LoadInv ==
  ASSUME IInv, TypeOK', NEW w \in Workers, Load(w)
  PROVE  IInv'
<1> DEFINE new == {[quest |-> quest[w], rec |-> r, seen |-> seen[w],
                    TTL |-> (r.expires - clock) % TtlMod] : r \in result[w]}
<1>1. /\ ~ stray /\ found[w] > 0 /\ pc[w] = "load"
      /\ pc' = [pc EXCEPT ![w] = pc'[w]]
      /\ pc'[w] = IF quest[w] = Len(Packet[w]) THEN "answered" ELSE "search"
      /\ quest'[w] = IF quest[w] = Len(Packet[w]) THEN quest[w] ELSE quest[w] + 1
      /\ \A x \in Workers : x # w => pc'[x] = pc[x] /\ quest'[x] = quest[x]
      /\ ANS'[w] = ANS[w] \cup new
      /\ hostFreed' = (hostFreed \/ (resource[w] = "cache" /\ \E r \in result[w] : r.line # 0))
      /\ UNCHANGED <<clock, hostExists, stray, cached, thread, frame, detached>>
      /\ UNCHANGED <<found, result, resource, seen>>
  BY DEF Load, Goto, back, IInv, TypeOK
<1>2. Aside(w) BY <1>1 DEF Aside, Load, IInv, TypeOK
<1> HIDE DEF new
<1>3. TypeOK /\ Frames /\ Walks /\ Stored /\ Caller(w) BY DEF IInv
<1>4. Frames' /\ Walks'
  <2>1. pc'[w] \notin InCall /\ pc[w] \notin InCall BY <1>1 DEF InCall
  <2>2. \A h \in Threads : FrameLive(h)' <=> FrameLive(h)
    <3> SUFFICES ASSUME NEW h \in Threads PROVE FrameLive(h)' <=> FrameLive(h)
      OBVIOUS
    <3>1. h[1] \in Workers BY ThreadType
    <3> QED BY <1>1, <2>1, <3>1 DEF FrameLive
  <2> QED BY <1>1, <1>3, <2>2, KeepThreads
<1>5. Stored' BY <1>1, <1>3, KeepStored
<1>6. HostIntact' BY <1>1, <1>3 DEF IInv, HostIntact, Caller, Results
<1>7. quest[w] \in 1 .. Len(Packet[w]) /\ Len(Packet[w]) \in Nat \ {0}
  BY <1>3, PacketType DEF TypeOK
<1>8. Calls(w)'
  <2>1. pc'[w] \notin InCall BY <1>1 DEF InCall
  <2>2. ~ hostExists' => resource'[w] = "unset" BY <1>1, <1>3 DEF Caller, Calls
  <2>3. ASSUME NEW h \in Threads, h[1] = w,
               h[2] > quest'[w] \/ (h[2] = quest'[w] /\ pc'[w] = "search")
        PROVE  hpc'[h] = "none"
    <3>1. h[2] \in Nat BY ThreadType
    <3>2. h[2] > quest[w] BY <1>1, <1>7, <2>3, <3>1
    <3> QED BY <1>1, <1>3, <2>3, <3>2 DEF Caller, Calls, thread
  <2> QED BY <2>1, <2>2, <2>3 DEF Calls
<1>9. Results(w)'
  <2>1. pc'[w] \notin InCall \cup {"detach", "load"} BY <1>1 DEF InCall
  <2> QED BY <1>1, <1>3, <2>1 DEF Caller, Results
<1>10. Complete(w)' BY <1>1 DEF Complete
<1>11. Settled(w)' BY <1>1 DEF Settled
<1>12. Loaded(w)'
  <2>1. ASSUME NEW a \in ANS'[w]
        PROVE  /\ hostExists /\ Blocked(Packet[w][a.quest]) => a.rec.line = 0
               /\ a.rec.line = 0 =>
                    /\ a.rec.expires >= a.seen
                    /\ a.TTL <= a.rec.expires - a.seen \/ a.rec.expires < clock
    <3>1. CASE a \in ANS[w] BY <1>3, <3>1 DEF Caller, Loaded
    <3>2. CASE a \in new
      <4>1. PICK r \in result[w] :
              a = [quest |-> quest[w], rec |-> r, seen |-> seen[w],
                   TTL |-> (r.expires - clock) % TtlMod]
        BY <3>2 DEF new
      <4>2. r.line = 0 => r.expires >= seen[w] BY <1>1, <1>3 DEF Caller, Results
      <4>5. hostExists /\ Blocked(Quest(w)) => r.line = 0
        <5>1. resource[w] = "host" => ~ Blocked(Quest(w))
          BY <1>1, <1>3 DEF Caller, Complete
        <5>2. resource[w] = "cache" => r.line = 0 BY <1>1, <1>3 DEF Caller, Results
        <5>3. hostExists => resource[w] # "unset" BY <1>1, <1>3 DEF Caller, Settled
        <5>4. resource[w] \in {"unset", "cache", "host"} BY <1>3 DEF TypeOK
        <5> QED BY <5>1, <5>2, <5>3, <5>4
      <4>3. /\ r.expires \in Nat /\ clock \in Nat /\ seen[w] \in Nat
            /\ seen[w] <= clock
        BY <1>3 DEF TypeOK, RecordSet, Caller, Results
      <4>4. a.TTL <= r.expires - seen[w] \/ r.expires < clock
        <5>1. CASE r.expires < clock BY <5>1
        <5>2. CASE r.expires >= clock
          <6>1. r.expires - clock \in Nat /\ TtlMod \in Nat \ {0}
            BY <4>3, <5>2, UrlQueryAssumption DEF UrlQueryAssumption
          <6> DEFINE d == r.expires - clock
          <6>2. d % TtlMod \in Nat /\ d % TtlMod <= d BY <6>1, Wrap
          <6>3. d <= r.expires - seen[w] BY <4>3
          <6>4. a.TTL = d % TtlMod BY <4>1
          <6> QED BY <4>3, <6>1, <6>2, <6>3, <6>4
        <5> QED BY <4>3, <5>1, <5>2
      <4>6. a.quest = quest[w] /\ a.rec = r /\ a.seen = seen[w] BY <4>1
      <4> QED BY <4>2, <4>4, <4>5, <4>6 DEF Quest
    <3> QED BY <1>1, <3>1, <3>2
  <2>2. hostExists' = hostExists /\ clock' = clock BY <1>1
  <2> QED BY <2>1, <2>2 DEF Loaded, Blocked, Listed
<1>13. Caller(w)' BY <1>8, <1>9, <1>10, <1>11, <1>12 DEF Caller
<1> QED BY <1>2, <1>4, <1>5, <1>6, <1>13, AsideInv
----------------------------------------------------------------------------
(* The steps of the cache, of the clock, and the stray write *)

\* The workers and the host threads, when only the cache or the clock moves.
LEMMA Still ==
  ASSUME IInv, TypeOK', clock <= clock',
         UNCHANGED <<hostExists, pc, quest, frame, back, seen, ANS, thread, detached>>
  PROVE  Frames' /\ Walks' /\ \A w \in Workers : Caller(w)'
<1>1. TypeOK /\ Frames /\ Walks BY DEF IInv
<1>2. \A h \in Threads : FrameLive(h)' <=> FrameLive(h) BY DEF FrameLive
<1>3. Frames' /\ Walks' BY <1>1, <1>2, KeepThreads
<1>4. ASSUME NEW w \in Workers PROVE Caller(w)'
  <2>1. /\ pc'[w] = pc[w] /\ quest'[w] = quest[w] /\ found'[w] = found[w]
        /\ result'[w] = result[w] /\ resource'[w] = resource[w] /\ seen'[w] = seen[w]
        /\ ANS'[w] = ANS[w] /\ hpc' = hpc /\ resHost' = resHost
    BY DEF back, thread, frame
  <2>2. Caller(w) /\ Results(w) BY DEF IInv, Caller
  <2>3. pc[w] \in InCall => \A r \in resHost'[w] : r.line # 0
    BY <2>1, <2>2 DEF Results
  <2> QED BY <1>1, <2>1, <2>2, <2>3, KeepCaller
<1> QED BY <1>3, <1>4

\* A reply brings a record that no line of the file gave.
LEMMA StoreInv ==
  ASSUME IInv, TypeOK', Store
  PROVE  IInv'
<1>1. PICK q \in Heard, ttl \in Lifetimes :
        cached' = cached \cup {Record(q.name, Narrow(q.qtype), clock + ttl, 0)}
  BY DEF Store
<1> DEFINE new == Record(q.name, Narrow(q.qtype), clock + ttl, 0)
<1>2. /\ ~ stray
      /\ UNCHANGED <<clock, hostExists, stray, hostFreed>>
      /\ UNCHANGED <<hostExists, pc, quest, frame, back, seen, ANS, thread, detached>>
  BY DEF Store
<1>3. TypeOK /\ Stored BY DEF IInv
<1>4. clock <= clock' BY <1>2, <1>3 DEF TypeOK
<1>5. Frames' /\ Walks' /\ \A w \in Workers : Caller(w)' BY <1>2, <1>4, Still
<1>6. Stored'
  <2>1. new.line = 0 BY DEF Record
  <2>2. cached' = cached \cup {new} BY <1>1
  <2> HIDE DEF new
  <2>3. IsFiniteSet(cached') BY <1>3, <2>2, FS_AddElement DEF Stored
  <2> QED BY <1>3, <2>1, <2>2, <2>3 DEF Stored
<1>7. HostIntact' /\ StrayCause' BY <1>2 DEF IInv, HostIntact, StrayCause
<1> QED BY <1>5, <1>6, <1>7 DEF IInv

\* Records are lost, time passes.
LEMMA LoseTickInv ==
  ASSUME IInv, TypeOK', Lose \/ Tick
  PROVE  IInv'
<1>1. /\ ~ stray /\ UNCHANGED <<hostExists, stray, hostFreed>>
      /\ UNCHANGED <<hostExists, pc, quest, frame, back, seen, ANS, thread, detached>>
      /\ cached' \subseteq cached
      /\ clock' = clock \/ clock' = clock + 1
  BY DEF Lose, Tick
<1>2. TypeOK /\ Stored BY DEF IInv
<1>3. clock <= clock' BY <1>1, <1>2 DEF TypeOK
<1>4. Frames' /\ Walks' /\ \A w \in Workers : Caller(w)' BY <1>1, <1>3, Still
<1>5. Stored' BY <1>1, <1>2, KeepStored
<1>6. HostIntact' /\ StrayCause' BY <1>1 DEF IInv, HostIntact, StrayCause
<1> QED BY <1>4, <1>5, <1>6 DEF IInv

\* A thread without a frame was detached.
LEMMA StrayInv ==
  ASSUME IInv, TypeOK', NEW h \in Threads, Stray(h)
  PROVE  IInv'
<1>1. /\ ~ FrameLive(h) /\ hpc[h] \in {"lookup", "loop"}
      /\ UNCHANGED <<clock, cached, hostFreed>>
      /\ UNCHANGED <<hostExists, pc, quest, frame, back, seen, ANS, thread, detached>>
  BY DEF Stray
<1>2. TypeOK /\ Stored /\ Frames BY DEF IInv
<1>3. clock <= clock' BY <1>1, <1>2 DEF TypeOK
<1>4. Frames' /\ Walks' /\ \A w \in Workers : Caller(w)' BY <1>1, <1>3, Still
<1>5. Stored' BY <1>1, <1>2, KeepStored
<1>6. HostIntact' BY <1>1 DEF IInv, HostIntact
<1>7. StrayCause'
  <2>1. h \in detached BY <1>1, <1>2 DEF Frames
  <2> QED BY <1>1, <2>1 DEF StrayCause, thread
<1> QED BY <1>4, <1>5, <1>6, <1>7 DEF IInv
----------------------------------------------------------------------------
(* The steps of a host thread *)

\* Only what concerns the thread and its frame is left to be shown.
LEMMA ThreadInv ==
  ASSUME IInv, TypeOK', NEW h \in Threads, ~ stray,
         UNCHANGED <<clock, hostExists, cached, stray, hostFreed>>,
         UNCHANGED <<pc, quest, back, seen, ANS, detached>>,
         \A k \in Threads : k # h =>
           hpc'[k] = hpc[k] /\ todo'[k] = todo[k] /\ num'[k] = num[k],
         hpc[h] \in {"lookup", "loop"}, hpc'[h] # "none",
         \A x \in Workers : x # h[1] => resHost'[x] = resHost[x] /\ retHost'[x] = retHost[x],
         ~ FrameLive(h) => UNCHANGED frame,
         FrameLive(h) => \A r \in resHost'[h[1]] : r.line # 0,
         Walking(h)'
  PROVE  IInv'
<1>1. TypeOK /\ Frames /\ Walks /\ Stored BY DEF IInv
<1>2. \A k \in Threads : FrameLive(k)' <=> FrameLive(k) BY DEF FrameLive
<1>3. Frames'
  <2> SUFFICES ASSUME NEW k \in Threads, hpc'[k] \in {"lookup", "loop"}
               PROVE  k \in detached' \/ FrameLive(k)'
    BY DEF Frames
  <2>1. hpc[k] \in {"lookup", "loop"} OBVIOUS
  <2> QED BY <1>1, <1>2, <2>1 DEF Frames
<1>4. Walks'
  <2> SUFFICES ASSUME NEW k \in Threads PROVE Walking(k)' BY DEF Walks
  <2>1. CASE k = h BY <2>1
  <2>2. CASE k # h
    <3>1. Walking(k) BY <1>1 DEF Walks
    <3>2. Rest(k)' = Rest(k) BY <2>2 DEF Rest
    <3>3. FrameLive(k) =>
            resHost'[k[1]] = resHost[k[1]] /\ retHost'[k[1]] = retHost[k[1]]
      <4> SUFFICES ASSUME FrameLive(k)
                   PROVE  resHost'[k[1]] = resHost[k[1]] /\ retHost'[k[1]] = retHost[k[1]]
        OBVIOUS
      <4>1. k[1] \in Workers /\ k = <<k[1], k[2]>> /\ h = <<h[1], h[2]>> BY ThreadType
      <4>2. CASE k[1] # h[1] BY <4>1, <4>2
      <4>3. CASE k[1] = h[1]
        <5>1. ~ FrameLive(h) BY <2>2, <4>1, <4>3 DEF FrameLive
        <5> QED BY <5>1 DEF frame
      <4> QED BY <4>2, <4>3
    <3>4. hpc'[k] = hpc[k] /\ todo'[k] = todo[k] /\ num'[k] = num[k] BY <2>2
    <3>5. Dealt(k) => Dealt(k)' BY <1>2, <3>2, <3>3, <3>4 DEF Dealt
    <3> QED BY <1>2, <3>1, <3>2, <3>3, <3>4, <3>5 DEF Walking, Lists
  <2> QED BY <2>1, <2>2
<1>5. Stored' BY <1>1, KeepStored
<1>6. HostIntact' /\ StrayCause' BY DEF IInv, HostIntact, StrayCause
<1>7. ASSUME NEW w \in Workers PROVE Caller(w)'
  <2>1. Caller(w) /\ Results(w) BY DEF IInv, Caller
  <2>2. /\ pc'[w] = pc[w] /\ quest'[w] = quest[w] /\ found'[w] = found[w]
        /\ result'[w] = result[w] /\ resource'[w] = resource[w] /\ seen'[w] = seen[w]
        /\ ANS'[w] = ANS[w]
    BY DEF back
  <2>3. clock <= clock' BY <1>1 DEF TypeOK
  <2>4. \A k \in Threads : k[1] = w => (hpc'[k] = "none" <=> hpc[k] = "none")
    OBVIOUS
  <2>5. pc[w] \in InCall => \A r \in resHost'[w] : r.line # 0
    <3> SUFFICES ASSUME pc[w] \in InCall
                 PROVE  \A r \in resHost'[w] : r.line # 0
      OBVIOUS
    <3>1. CASE w = h[1] /\ FrameLive(h)
      <4>1. QuestOf(h) = Quest(w) BY <3>1 DEF FrameLive, QuestOf, Quest
      <4> QED BY <3>1, <4>1
    <3>2. CASE ~ (w = h[1] /\ FrameLive(h))
      <4>1. resHost'[w] = resHost[w] BY <3>2 DEF frame
      <4> QED BY <2>1, <4>1 DEF Results
    <3> QED BY <3>1, <3>2
  <2> QED BY <1>1, <2>1, <2>2, <2>3, <2>4, <2>5, KeepCaller
<1> QED BY <1>3, <1>4, <1>5, <1>6, <1>7 DEF IInv

\* The head of a list is the record of a line that the tail does not have.
LEMMA ListsLess ==
  ASSUME NEW list, NEW S, Lists(list, S), list # <<>>
  PROVE  /\ Head(list) \in HostRecord /\ Head(list).line \in S
         /\ Head(list) = EntryOf(Head(list).line)
         /\ Lists(Tail(list), S \ {Head(list).line})
<1> DEFINE r == Head(list)
           l == Tail(list)
<1>1. list \in Seq(HostRecord) BY DEF Lists
<1>2. /\ Len(list) \in Nat \ {0} /\ DOMAIN list = 1 .. Len(list)
      /\ r = list[1] /\ r \in HostRecord
      /\ l \in Seq(HostRecord) /\ DOMAIN l = 1 .. Len(list) - 1
      /\ \A k \in 1 .. Len(list) - 1 : l[k] = list[k + 1]
  BY <1>1
<1> HIDE DEF r, l
<1>3. 1 \in DOMAIN list BY <1>2
<1>4. r.line \in S /\ r = EntryOf(r.line) BY <1>2, <1>3 DEF Lists
<1>5. \A k \in DOMAIN l : k + 1 \in DOMAIN list /\ k + 1 # 1 /\ l[k] = list[k + 1]
  BY <1>2
<1>6. \A k \in DOMAIN l : l[k].line \in S \ {r.line} /\ l[k] = EntryOf(l[k].line)
  BY <1>2, <1>3, <1>5 DEF Lists
<1>7. \A i \in S \ {r.line} : \E k \in DOMAIN l : l[k].line = i
  <2> SUFFICES ASSUME NEW i \in S \ {r.line} PROVE \E k \in DOMAIN l : l[k].line = i
    OBVIOUS
  <2>1. PICK k \in DOMAIN list : list[k].line = i BY DEF Lists
  <2>2. k # 1 BY <1>2, <2>1
  <2>3. k - 1 \in DOMAIN l /\ (k - 1) + 1 = k BY <1>2, <2>2
  <2> QED BY <1>5, <2>1, <2>3
<1>8. \A j, k \in DOMAIN l : l[j].line = l[k].line => j = k
  <2> SUFFICES ASSUME NEW j \in DOMAIN l, NEW k \in DOMAIN l, l[j].line = l[k].line
               PROVE  j = k
    OBVIOUS
  <2>1. j + 1 = k + 1 BY <1>5 DEF Lists
  <2> QED BY <1>2, <2>1
<1> QED BY <1>2, <1>4, <1>6, <1>7, <1>8 DEF Lists, r, l

\* The lines of a list are those it was made of.
LEMMA ListsRest ==
  ASSUME NEW h \in Threads, NEW S, Lists(todo[h], S) PROVE Rest(h) = S
  BY DEF Lists, Rest

\* The thread finds the list of its name, or no name, and nothing copied yet.
LEMMA HostLookupInv ==
  ASSUME IInv, TypeOK', NEW h \in Threads, HostLookup(h)
  PROVE  IInv'
<1> DEFINE q == QuestOf(h)
<1>1. /\ ~ stray /\ hpc[h] = "lookup"
      /\ hpc' = [hpc EXCEPT ![h] = "loop"]
      /\ UNCHANGED <<clock, hostExists, cached, stray, hostFreed>>
      /\ UNCHANGED <<pc, quest, back, seen, ANS, detached>>
      /\ UNCHANGED <<retHost, num>>
  BY DEF HostLookup, Begin, global
<1>2. \/ /\ q.name \in DOMAIN Host /\ FrameLive(h)
         /\ todo' = [todo EXCEPT ![h] = Host[q.name]]
         /\ resHost' = [resHost EXCEPT ![h[1]] = {}]
      \/ /\ q.name \notin DOMAIN Host
         /\ UNCHANGED <<todo, resHost>>
  BY DEF HostLookup
<1>3. TypeOK /\ Walking(h) BY DEF IInv, Walks
<1>4. h[1] \in Workers /\ q \in Question /\ q.name \in Names BY ThreadType
<1>5. QuestOf(h)' = q BY DEF QuestOf
<1> HIDE DEF q
<1>6. /\ hpc'[h] = "loop"
      /\ \A k \in Threads : k # h =>
           hpc'[k] = hpc[k] /\ todo'[k] = todo[k] /\ num'[k] = num[k]
      /\ \A x \in Workers : x # h[1] => resHost'[x] = resHost[x] /\ retHost'[x] = retHost[x]
  BY <1>1, <1>2, <1>3 DEF TypeOK
<1>7. num'[h] = 0 /\ (FrameLive(h) => resHost'[h[1]] = {})
  BY <1>1, <1>2, <1>3, <1>4 DEF Walking, TypeOK
<1>8. Lists(todo'[h], Listed(q.name))
  <2>1. CASE q.name \in DOMAIN Host
    <3>1. todo'[h] = Host[q.name] BY <1>2, <1>3, <2>1 DEF TypeOK
    <3> QED BY <2>1, <3>1, HostType
  <2>2. CASE q.name \notin DOMAIN Host
    <3>1. todo'[h] = <<>> BY <1>1, <1>2, <1>3, <2>2 DEF Walking
    <3>2. q.name # Blank BY <1>4, UrlQueryAssumption DEF UrlQueryAssumption
    <3>3. About(LinesRead, q.name) = {} BY <2>2, <3>2, HostIs DEF Holds, About
    <3>4. Listed(q.name) = {} BY <3>3, ListedRead
    <3> QED BY <3>1, <3>4 DEF Lists
  <2> QED BY <2>1, <2>2
<1>9. Rest(h)' = Listed(q.name) BY <1>8 DEF Rest, Lists
<1>10. FrameLive(h)' <=> FrameLive(h) BY <1>1 DEF FrameLive
<1>11. Walking(h)'
  <2>1. Listed(q.name)' = Listed(q.name) /\ HostLines(q) \ Listed(q.name) = {}
    BY LinesOf DEF Listed
  <2>2. Dealt(h)'
    <3> SUFFICES /\ num'[h] = Cardinality(HostLines(q) \ Rest(h)')
                 /\ Blocked(q) => \A i \in Listed(q.name) \ Rest(h)' : File[i].ip # "0.0.0.0"
                 /\ FrameLive(h)' =>
                      {r.line : r \in resHost'[h[1]]} = HostLines(q) \ Rest(h)'
      BY DEF Dealt, QuestOf, q
    <3>1. Cardinality({}) = 0 BY FS_EmptySet
    <3> QED BY <1>7, <1>9, <1>10, <2>1, <3>1
  <2>3. Lists(todo'[h], Rest(h)') BY <1>8, <1>9
  <2> QED BY <1>6, <1>9, <2>2, <2>3 DEF Walking, QuestOf, Listed, Lists, q
<1>12. ~ FrameLive(h) => UNCHANGED frame BY <1>1, <1>2 DEF frame
<1>13. FrameLive(h) => \A r \in resHost'[h[1]] : r.line # 0
  BY <1>7
<1> QED BY <1>1, <1>6, <1>11, <1>12, <1>13, ThreadInv

\* One line of the list is dealt with.
LEMMA HostVisitInv ==
  ASSUME IInv, TypeOK', NEW h \in Threads, HostVisit(h)
  PROVE  IInv'
<1> DEFINE q == QuestOf(h)
           r == Head(todo[h])
           R == Rest(h)
           T == R \ {r.line}
           L == HostLines(q)
<1>1. /\ ~ stray /\ hpc[h] = "loop" /\ todo[h] # <<>>
      /\ UNCHANGED <<clock, hostExists, cached, stray, hostFreed>>
      /\ UNCHANGED <<pc, quest, back, seen, ANS, detached>>
      /\ UNCHANGED <<retHost, hpc>>
  BY DEF HostVisit, Begin, global
<1>2. TypeOK /\ Walking(h) BY DEF IInv, Walks
<1>3. /\ h[1] \in Workers /\ q \in Question /\ q.name \in Names /\ q.qtype \in Nat
  BY ThreadType
<1>4. R \subseteq Listed(q.name) /\ Lists(todo[h], R) BY <1>1, <1>2 DEF Walking
<1>5. Dealt(h) BY <1>1, <1>2 DEF Walking
<1>6. /\ num[h] = Cardinality(L \ R)
      /\ Blocked(q) => \A i \in Listed(q.name) \ R : File[i].ip # "0.0.0.0"
      /\ FrameLive(h) => {x.line : x \in resHost[h[1]]} = L \ R
  BY <1>5 DEF Dealt
<1>7. /\ r \in HostRecord /\ r.line \in R /\ r = EntryOf(r.line)
      /\ Lists(Tail(todo[h]), T)
  BY <1>1, <1>4, ListsLess
<1>8. /\ r.type = IF File[r.line].ip = "v6" THEN AAAA ELSE A
      /\ r.blocked <=> File[r.line].ip = "0.0.0.0"
      /\ r.line \in Listed(q.name)
  <2> HIDE DEF r, R
  <2>1. r.line \in Listed(q.name) BY <1>4, <1>7
  <2> DEFINE i == r.line
  <2>2. r = EntryOf(i) BY <1>7
  <2> HIDE DEF i
  <2>3. r.type = IF File[i].ip = "v6" THEN AAAA ELSE A BY <2>2 DEF EntryOf
  <2>4. r.blocked = (File[i].ip = "0.0.0.0") BY <2>2 DEF EntryOf
  <2> QED BY <2>1, <2>3, <2>4 DEF i
<1>9. /\ Wanted(h, r) <=> r.line \in L
      /\ Refuses(h, r) <=> (Narrow(q.qtype) = A /\ File[r.line].ip = "0.0.0.0")
  BY <1>8 DEF Wanted, Refuses, HostLines
<1>10. q' = q /\ L' = L /\ (FrameLive(h)' <=> FrameLive(h))
       /\ Listed(q.name)' = Listed(q.name) /\ Blocked(q)' = Blocked(q)
  BY <1>1 DEF QuestOf, HostLines, Listed, FrameLive, Blocked
<1> DEFINE c == Copy(h, r)
<1>11. c.line = r.line /\ r.line # 0 BY <1>2, <1>7, CopyType
<1>12. /\ \/ /\ Refuses(h, r) /\ num'[h] = -1 /\ todo'[h] = <<>> /\ resHost' = resHost
          \/ /\ ~ Refuses(h, r) /\ Wanted(h, r) /\ FrameLive(h)
             /\ num'[h] = num[h] + 1 /\ todo'[h] = Tail(todo[h])
             /\ resHost' = [resHost EXCEPT ![h[1]] = @ \cup {c}]
             /\ resHost'[h[1]] = resHost[h[1]] \cup {c}
          \/ /\ ~ Refuses(h, r) /\ ~ Wanted(h, r)
             /\ num'[h] = num[h] /\ todo'[h] = Tail(todo[h]) /\ resHost' = resHost
       /\ \A k \in Threads : k # h => todo'[k] = todo[k] /\ num'[k] = num[k]
  <2>1. /\ DOMAIN num = Threads /\ DOMAIN todo = Threads /\ DOMAIN resHost = Workers
        /\ num = [k \in Threads |-> num[k]] /\ todo = [k \in Threads |-> todo[k]]
        /\ resHost = [w \in Workers |-> resHost[w]]
    BY <1>2 DEF TypeOK
  <2>2. \/ /\ Refuses(h, r)
           /\ num' = [num EXCEPT ![h] = -1]
           /\ todo' = [todo EXCEPT ![h] = <<>>]
           /\ resHost' = resHost
        \/ /\ ~ Refuses(h, r) /\ Wanted(h, r) /\ FrameLive(h)
           /\ num' = [num EXCEPT ![h] = @ + 1]
           /\ todo' = [todo EXCEPT ![h] = Tail(@)]
           /\ resHost' = [resHost EXCEPT ![h[1]] = @ \cup {c}]
        \/ /\ ~ Refuses(h, r) /\ ~ Wanted(h, r)
           /\ num' = num
           /\ todo' = [todo EXCEPT ![h] = Tail(@)]
           /\ resHost' = resHost
    BY VisitCases
  <2> HIDE DEF c, r
  <2> QED BY ONLY <2>1, <2>2, <1>3, h \in Threads
<1>13. FrameLive(h) => \A x \in resHost[h[1]] : x.line # 0
  <2> SUFFICES ASSUME FrameLive(h), NEW x \in resHost[h[1]]
               PROVE  x.line # 0
    OBVIOUS
  <2>1. Results(h[1]) /\ pc[h[1]] \in InCall /\ Quest(h[1]) = q
    BY <1>3 DEF IInv, Caller, FrameLive, Quest, QuestOf
  <2> QED BY <2>1 DEF Results
<1> HIDE DEF q, r, R, T, L, c
<1>14. Rest(h)' = IF todo'[h] = <<>> THEN {} ELSE Rest(h)'
  BY DEF Rest
<1>15. todo'[h] = Tail(todo[h]) => Lists(todo'[h], T) /\ Rest(h)' = T
  BY <1>7 DEF Lists, Rest
<1>16. L \subseteq Listed(q.name) /\ IsFiniteSet(L \ R)
  BY LinesOf, FS_Difference DEF L
\* A name on the black list ends the loop.
<1>17. ASSUME Refuses(h, r), num'[h] = -1, todo'[h] = <<>> PROVE Walking(h)'
  <2>1. Blocked(q) BY <1>8, <1>9, <1>17 DEF Blocked
  <2>2. Blocked(QuestOf(h))' BY <2>1 DEF q, Blocked, QuestOf, Listed
  <2>3. Rest(h)' = {} /\ Lists(<<>>, {}) BY <1>14, <1>17 DEF Lists
  <2> QED BY <1>1, <1>17, <2>2, <2>3 DEF Walking, Lists
\* The rest of the list is gone through.
<1>18. ASSUME todo'[h] = Tail(todo[h]), num'[h] = Cardinality(L \ T),
              Blocked(q) => File[r.line].ip # "0.0.0.0",
              FrameLive(h) => {x.line : x \in resHost'[h[1]]} = L \ T
       PROVE  Walking(h)'
  <2>1. Blocked(q) => \A i \in Listed(q.name) \ T : File[i].ip # "0.0.0.0"
    BY <1>6, <1>18 DEF T
  <2>2. Rest(h)' = T /\ Lists(todo'[h], T) BY <1>15, <1>18
  <2>3. Dealt(h)'
    BY <1>10, <1>18, <2>1, <2>2 DEF Dealt, q, L
  <2>4. Rest(h)' \subseteq Listed(QuestOf(h).name)' BY <1>4, <1>10, <2>2 DEF T, q
  <2> QED BY <1>1, <2>2, <2>3, <2>4 DEF Walking, Lists
<1>19. Blocked(q) => Narrow(q.qtype) = A BY DEF Blocked
<1>20. Walking(h)'
  <2>1. CASE Refuses(h, r) BY <1>12, <1>17, <2>1
  <2>2. CASE ~ Refuses(h, r) /\ Wanted(h, r)
    <3>1. r.line \in L /\ L \ T = (L \ R) \cup {r.line} /\ r.line \notin L \ R
      BY <1>7, <1>9, <2>2 DEF T
    <3>2. Cardinality(L \ T) = Cardinality(L \ R) + 1
      BY <1>16, <3>1, FS_AddElement
    <3>3. FrameLive(h) /\ resHost'[h[1]] = resHost[h[1]] \cup {c} BY <1>12, <2>2
    <3>4. {x.line : x \in resHost'[h[1]]} = {x.line : x \in resHost[h[1]]} \cup {c.line}
      BY <3>3
    <3>5. {x.line : x \in resHost'[h[1]]} = L \ T BY <1>6, <1>11, <3>1, <3>3, <3>4
    <3> QED BY <1>6, <1>9, <1>12, <1>18, <1>19, <2>2, <3>2, <3>5
  <2>3. CASE ~ Refuses(h, r) /\ ~ Wanted(h, r)
    <3>1. L \ T = L \ R BY <1>9, <2>3 DEF T
    <3> QED BY <1>6, <1>9, <1>12, <1>18, <1>19, <2>3, <3>1
  <2> QED BY <2>1, <2>2, <2>3
<1>21. FrameLive(h) => \A x \in resHost'[h[1]] : x.line # 0
  BY <1>11, <1>12, <1>13 DEF q
<1>22. ~ FrameLive(h) => UNCHANGED frame BY <1>1, <1>12 DEF frame
<1>23. \A x \in Workers : x # h[1] => resHost'[x] = resHost[x] /\ retHost'[x] = retHost[x]
  BY <1>1, <1>2, <1>12 DEF TypeOK
<1> QED BY <1>1, <1>12, <1>20, <1>21, <1>22, <1>23, ThreadInv

\* The count is what the thread has counted, and its frame is still there.
LEMMA HostReportInv ==
  ASSUME IInv, TypeOK', NEW h \in Threads, HostReport(h)
  PROVE  IInv'
<1>1. /\ ~ stray /\ hpc[h] = "loop" /\ todo[h] = <<>> /\ FrameLive(h)
      /\ retHost' = [retHost EXCEPT ![h[1]] = num[h]]
      /\ hpc' = [hpc EXCEPT ![h] = "exited"]
      /\ UNCHANGED <<clock, hostExists, cached, stray, hostFreed>>
      /\ UNCHANGED <<pc, quest, back, seen, ANS, detached>>
      /\ UNCHANGED <<resHost, todo, num>>
  BY DEF HostReport, Begin, global
<1>2. TypeOK /\ Walking(h) BY DEF IInv, Walks
<1>3. h[1] \in Workers BY ThreadType
<1>4. /\ hpc'[h] = "exited" /\ retHost'[h[1]] = num[h]
      /\ \A k \in Threads : k # h => hpc'[k] = hpc[k]
      /\ \A x \in Workers : x # h[1] => retHost'[x] = retHost[x]
  BY <1>1, <1>2, <1>3 DEF TypeOK
<1>5. Rest(h)' = Rest(h) /\ (FrameLive(h)' <=> FrameLive(h))
  BY <1>1 DEF Rest, FrameLive
<1>6. Dealt(h) => Dealt(h)' BY <1>1, <1>5 DEF Dealt
<1>7. Walking(h)' BY <1>1, <1>2, <1>4, <1>5, <1>6 DEF Walking
<1>8. \A r \in resHost'[h[1]] : r.line # 0
  <2>1. Results(h[1]) /\ pc[h[1]] \in InCall /\ Quest(h[1]) = QuestOf(h)
    BY <1>1, <1>3 DEF IInv, Caller, FrameLive, Quest, QuestOf
  <2> QED BY <1>1, <2>1 DEF Results
<1> QED BY <1>1, <1>4, <1>7, <1>8, ThreadInv
----------------------------------------------------------------------------
(* The invariance, and what follows from it *)

\* It holds at the start.
LEMMA InitInv == Init => IInv
<1> SUFFICES ASSUME Init PROVE IInv OBVIOUS
<1>1. TypeOK BY TypeInit
<1>2. \A w \in Workers : /\ pc[w] = "search" /\ quest[w] = 1 /\ seen[w] = 0
                         /\ ANS[w] = {} /\ resource[w] = "unset"
  BY DEF Init
<1>3. \A h \in Threads : /\ hpc[h] = "none" /\ num[h] = 0 /\ todo[h] = <<>>
                         /\ ~ FrameLive(h)
  <2> SUFFICES ASSUME NEW h \in Threads
               PROVE  hpc[h] = "none" /\ num[h] = 0 /\ todo[h] = <<>> /\ ~ FrameLive(h)
    OBVIOUS
  <2>1. h[1] \in Workers BY ThreadType
  <2> QED BY <1>2, <2>1 DEF Init, FrameLive, InCall
<1>4. Frames /\ Walks BY <1>3 DEF Frames, Walks, Walking
<1>5. Stored BY FS_EmptySet DEF Init, Stored
<1>6. ASSUME NEW w \in Workers PROVE Caller(w)
  <2>1. Calls(w) BY <1>2, <1>3, <1>6 DEF Calls, InCall
  <2>2. Results(w) BY <1>2, <1>6 DEF Results, InCall, Init
  <2>3. Complete(w) BY <1>2, <1>6 DEF Complete
  <2>4. Settled(w) BY <1>2, <1>6 DEF Settled
  <2>5. Loaded(w) BY <1>2, <1>6 DEF Loaded
  <2> QED BY <2>1, <2>2, <2>3, <2>4, <2>5 DEF Caller
<1>7. HostIntact /\ StrayCause BY DEF Init, HostIntact, StrayCause
<1> QED BY <1>1, <1>4, <1>5, <1>6, <1>7 DEF IInv

\* A step that changes nothing keeps it.
LEMMA StutterInv ==
  ASSUME IInv, TypeOK', UNCHANGED vars
  PROVE  IInv'
<1>1. /\ UNCHANGED <<clock, cached, stray, hostFreed>>
      /\ UNCHANGED <<hostExists, pc, quest, frame, back, seen, ANS, thread, detached>>
  BY DEF vars, global
<1>2. TypeOK /\ Stored BY DEF IInv
<1>3. clock <= clock' BY <1>1, <1>2 DEF TypeOK
<1>4. Frames' /\ Walks' /\ \A w \in Workers : Caller(w)' BY <1>1, <1>3, Still
<1>5. Stored' BY <1>1, <1>2, KeepStored
<1>6. HostIntact' /\ StrayCause' BY <1>1 DEF IInv, HostIntact, StrayCause, thread
<1> QED BY <1>4, <1>5, <1>6 DEF IInv

\* Every step keeps it.
LEMMA StepInv == IInv /\ [Next]_vars => IInv'
<1> SUFFICES ASSUME IInv, [Next]_vars PROVE IInv' OBVIOUS
<1>1. TypeOK' BY TypeStep DEF IInv
<1>2. ASSUME NEW w \in Workers, urlQuery(w) PROVE IInv'
  BY <1>1, <1>2, CacheOnlyInv, SpawnInv, CacheQueryInv, JoinInv, DetachInv,
     RefuseInv, LoadInv
  DEF urlQuery, qnameSearch
<1>3. CASE Store BY <1>1, <1>3, StoreInv
<1>4. ASSUME NEW h \in Threads, host_query_handle(h) PROVE IInv'
  BY <1>1, <1>4, HostLookupInv, HostVisitInv, HostReportInv, StrayInv
  DEF host_query_handle
<1>5. CASE Lose \/ Tick BY <1>1, <1>5, LoseTickInv
<1>6. CASE UNCHANGED vars BY <1>1, <1>6, StutterInv
<1> QED BY <1>2, <1>3, <1>4, <1>5, <1>6 DEF Next

\* The inductive invariant of the query flow holds in every state, for any
\* number of workers and questions, and any host file.
THEOREM Invariance == Spec => []IInv
<1>1. Init => IInv BY InitInv
<1>2. IInv /\ [Next]_vars => IInv' BY StepInv
<1> QED BY <1>1, <1>2, PTL DEF Spec

\* Every variable of the query flow stays in its type.
THEOREM TypeCorrect == Spec => []TypeOK
<1>1. IInv => TypeOK BY DEF IInv
<1> QED BY <1>1, Invariance, PTL

\* Only a thread that urlQuery detached writes to a frame that is gone: the join
\* waits until the thread it is for has exited.
THEOREM StrayByDetach == Spec => []StrayCause
<1>1. IInv => StrayCause BY DEF IInv
<1> QED BY <1>1, Invariance, PTL

\* What is joined is all that the host file says, however the worker and its
\* thread were interleaved, and wherever in the list of the name a blocked
\* address is.
THEOREM JoinedIsComplete == Spec => []HostComplete
<1>1. IInv => HostComplete BY DEF IInv, Caller, Complete, HostComplete
<1> QED BY <1>1, Invariance, PTL

\* With a host file read, an answer about a blocked name comes from the cache,
\* whatever has filled it; the packet is relayed on account of no such question
\* and refused on account of no other.
THEOREM BlacklistKept == Spec => []BlacklistHolds
<1>1. IInv => BlacklistHolds
  BY DEF IInv, Caller, Settled, Loaded, BlacklistHolds
<1> QED BY <1>1, Invariance, PTL

\* The TTL of an answer from the cache is no more than it had left, unless the
\* record expired between the walk and the loading.
THEOREM TtlsHonest == Spec => []TtlHonest
<1>1. IInv => TtlHonest BY DEF IInv, Caller, Loaded, TtlHonest
<1> QED BY <1>1, Invariance, PTL

\* urlQuery frees no string of the host table: `resource' says "cache" only when
\* the results are those of the cache.
THEOREM HostStringsKept == Spec => []HostIntact
<1>1. IInv => HostIntact BY DEF IInv
<1> QED BY <1>1, Invariance, PTL
=============================================================================
