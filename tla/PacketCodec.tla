---------------------------- MODULE PacketCodec ----------------------------
(***************************************************************************)
(* Packets and the names in them: responseFormat and packetParse of        *)
(* src/Service/packet.c, urlFormat and urlParse of src/Service/url.c, the  *)
(* domain names of inetFormat and inetParse in src/Utils/inet.c.           *)
(*                                                                         *)
(* A message starts as a query.  Either the relay appends its answers to   *)
(* it, compressing each name against the question (AddAnswer), or an       *)
(* upstream server does, compressing against any name before               *)
(* (UpstreamAnswer).  Then the message is parsed, as a relay does with a   *)
(* reply.  ReadName is what RFC 1035 makes of a name, and what any other   *)
(* program reads.  A byte is a number, and so is a character of a name.    *)
(*                                                                         *)
(* A query ends after its questions.  responseFormat copies whatever else  *)
(* a request holds, an OPT record say, and appends the answers behind it,  *)
(* where no reader takes them for answers: such requests are left out.     *)
(***************************************************************************)
EXTENDS Integers, Sequences, FiniteSets

CONSTANTS
  QNames,      \* names asked for
  Targets,     \* names that answers hold
  Types,       \* the answer types that occur, out of A and NameTypes
  MaxQuests,   \* bounds on the questions ...
  MaxAnswers,  \* ... and answers of a message
  BUFFER_SIZE, \* and on its bytes
  Addition     \* the preference of an MX answer

VARIABLES
  quests,   \* QUESTS of the query, as text
  wanted,   \* history: the answers that were put in, and where
  relay,    \* who answers: this program, or an upstream server
  msg,      \* the bytes of the message
  step,     \* of the parser
  bufPos,   \* its buf_pos
  temp,     \* the locals temp and zip_name of urlParse
  zip,
  names,    \* the question names it has parsed
  parsed    \* and the answers

made == <<quests, wanted, relay>>
vars == <<made, msg, step, bufPos, temp, zip, names, parsed>>
----------------------------------------------------------------------------
A == 1
NS == 2
CNAME == 5
MX == 15
NameTypes == {NS, CNAME, MX}
HeaderLen == 12
DOT == 46
WordMod == 256 * 256      \* two bytes
OffsetMod == 64 * 256     \* and without the two bits that mark a pointer

MinOf(S) == CHOOSE x \in S : \A y \in S : x <= y
MaxOf(S) == CHOOSE x \in S : \A y \in S : x >= y

\* The byte at an offset, two bytes as a number, and two as a name pointer.
At(o) == msg[o + 1]
Word(o) == 256 * At(o) + At(o + 1)
Bytes(n) == <<n \div 256, n % 256>>
PointerTo(o) == Bytes(3 * OffsetMod + o)
IsPointer(o) == At(o) >= 192
Target(o) == Word(o) % OffsetMod    \* GET_QNAME_PTR
----------------------------------------------------------------------------
(* Names, as text and on the wire *)

LabelLen(text, k) ==
  MinOf({j \in k .. Len(text) + 1 : j = Len(text) + 1 \/ text[j] = DOT}) - k

\* inetFormat: each character moves by one, each dot becomes a length.  The
\* length it returns leaves out the final 0.
inetFormat(text) ==
  [k \in 1 .. Len(text) + 2 |->
     CASE k = Len(text) + 2 -> 0
       [] k = 1 -> LabelLen(text, 1)
       [] OTHER -> IF text[k - 1] = DOT THEN LabelLen(text, k) ELSE text[k - 1]]

\* From one label of a name to the next.  A label has at most 64 bytes, and a
\* name ends at a 0 or at a pointer.
NextLabel(bytes, o) ==
  IF o >= Len(bytes) \/ bytes[o + 1] = 0 \/ bytes[o + 1] >= 192 THEN o
  ELSE o + 1 + MinOf({64, bytes[o + 1]})

\* The offsets at which the labels of a name start, its end included.
Labels(bytes, from) ==
  LET upto[n \in 0 .. Len(bytes)] ==
        IF n = 0 THEN {from}
        ELSE LET before == upto[n - 1]
             IN  before \cup {NextLabel(bytes, o) : o \in before}
  IN  upto[Len(bytes)]

\* inetParse: each byte moves back by one, each length becomes a dot.  The last
\* of them is the end of the text.
inetParse(wire) ==
  LET starts == Labels(wire, 0)
  IN  [k \in 1 .. MaxOf(starts) - 1 |-> IF k \in starts THEN DOT ELSE wire[k + 1]]

\* The names there are: no label is empty or longer than 63, and no character
\* looks like a pointer.
IsName(text) ==
  /\ text \in Seq(1 .. 191)
  /\ \A k \in 1 .. Len(text) + 1 :
       k = 1 \/ text[k - 1] = DOT => LabelLen(text, k) \in 1 .. 63

ASSUME PacketCodecAssumption ==
  /\ \A text \in QNames \cup Targets : IsName(text)
  /\ Types \subseteq {A} \cup NameTypes
  /\ MaxQuests \in Nat /\ MaxAnswers \in Nat
  /\ BUFFER_SIZE \in 0 .. OffsetMod
  /\ Addition \in 0 .. WordMod - 1

\* The longest common end of two names.
Common(url, name) ==
  MaxOf({m \in 0 .. Len(name) : m <= Len(url) /\
           SubSeq(url, Len(url) - m + 1, Len(url))
             = SubSeq(name, Len(name) - m + 1, Len(name))})

MutRepeated(url, name) ==       \* mutant: the dot is taken for the label
  LET dots == {j \in Len(name) - Common(url, name) + 1 .. Len(name) : name[j] = DOT}
  IN  IF Common(url, name) = Len(name) THEN 0
      ELSE IF dots = {} THEN -1 ELSE MinOf(dots) - 1
\* urlFormat's pos: where in the question name the repeated labels start.  A
\* whole name counts as repeated, whatever precedes it in url.
Repeated(url, name) ==
  LET dots == {j \in Len(name) - Common(url, name) + 1 .. Len(name) : name[j] = DOT}
  IN  IF Common(url, name) = Len(name) THEN 0
      ELSE IF dots = {} THEN -1 ELSE MinOf(dots)

Address == <<10, 0, 0, 1>>
Data(type) == IF type = A THEN {Address} ELSE Targets

Preference(type) == IF type = MX THEN Bytes(Addition) ELSE <<>>

\* RDATA: what urlFormat writes, cut to the length it returns.  The two bytes of
\* the preference are counted only when the name is compressed.
urlFormat(url, type, name, pointer) ==
  LET pos == Repeated(url, name)
      cut == Len(url) - (Len(name) - pos)
  IN  CASE type = A -> url            \* inet_pton and back
        [] type # A /\ pos = -1 ->
             SubSeq(Preference(type) \o inetFormat(url), 1, Len(url) + 2)
        [] type # A /\ pos # -1 ->
             Preference(type) \o SubSeq(inetFormat(url), 1, cut)
               \o PointerTo(pointer + pos)

\* names[i] of responseFormat: one byte per earlier question is missing.
NamePointer(q) ==
  LET to[k \in 0 .. q - 1] == IF k = 0 THEN HeaderLen
                              ELSE to[k - 1] + Len(quests[k]) + 1 + 4
  IN  to[q - 1]

\* A resource record, and a question
Resource(type, name, rdata) ==
  PointerTo(name) \o Bytes(type) \o Bytes(1) \o <<0, 0, 0, 0>>
    \o Bytes(Len(rdata)) \o rdata
QuestBytes(q) == inetFormat(q) \o <<0, 1, 0, 1>>

\* A query: its first n questions, and the whole of it.
Section(qs) ==
  LET upto[n \in 0 .. Len(qs)] ==
        IF n = 0 THEN <<>> ELSE upto[n - 1] \o QuestBytes(qs[n])
  IN  upto
Query(qs) == [k \in 1 .. HeaderLen |-> 0] \o Section(qs)[Len(qs)]

Init ==
  /\ quests \in UNION {[1 .. n -> QNames] : n \in 1 .. MaxQuests}
  /\ relay \in BOOLEAN
  /\ wanted = <<>>
  /\ msg = Query(quests) /\ Len(msg) <= BUFFER_SIZE
  /\ step = "answer"
  /\ bufPos = HeaderLen
  /\ temp = <<>>
  /\ zip = 0
  /\ names = <<>>
  /\ parsed = <<>>
----------------------------------------------------------------------------
(* Which answers of the relay can be read: those that are not compressed,    *)
(* unless it is an MX, and those that are, unless the question is not the     *)
(* first or its whole name is the end of a longer label.                      *)

Compressed(w) == Repeated(w.text, quests[w.quest]) # -1
Glued(w) ==
  LET extra == Len(w.text) - Len(quests[w.quest]) IN
  Repeated(w.text, quests[w.quest]) = 0 /\ extra > 0 /\ w.text[extra] # DOT
Sound(w) ==
  \/ ~relay \/ w.type = A
  \/ Compressed(w) /\ w.quest = 1 /\ ~Glued(w)
  \/ ~Compressed(w) /\ w.type # MX
----------------------------------------------------------------------------
(* The two that answer *)

Want(q, type, text) ==
  /\ step = "answer" /\ Len(wanted) < MaxAnswers
  /\ wanted' = Append(wanted, [quest |-> q, type |-> type, text |-> text,
                               at |-> Len(msg)])

\* One round of the loops of responseFormat.
AddAnswer(q, type, url) ==
  /\ relay /\ Want(q, type, url)
  /\ msg' = msg \o Resource(type, NamePointer(q),
                            urlFormat(url, type, quests[q], NamePointer(q)))
  /\ Len(msg') <= BUFFER_SIZE
  /\ UNCHANGED <<quests, relay, step, bufPos, temp, zip, names, parsed>>

\* What RFC 1035 reads at an offset, in at most n labels and pointers; -1
\* stands for a name that has no end.
ReadName(from) ==
  LET Read[n \in 0 .. Len(msg)] == [o \in Nat |->
        IF n = 0 \/ o >= Len(msg) THEN <<-1>>
        ELSE IF At(o) = 0 THEN <<>>
        ELSE IF o + 1 >= Len(msg) THEN <<-1>>
        ELSE IF IsPointer(o) THEN Read[n - 1][Target(o)]
        ELSE LET end == o + 1 + At(o)
                 rest == Read[n - 1][end] IN
             IF end > Len(msg) THEN <<-1>>
             ELSE SubSeq(msg, o + 2, end)
                    \o (IF rest = <<>> THEN <<>> ELSE <<DOT>> \o rest)]
  IN  Read[Len(msg)][from]

\* The offset behind a name that can be read
AfterName(from) ==
  LET end == MaxOf(Labels(msg, from))
  IN  IF At(end) = 0 THEN end + 1 ELSE end + 2

\* Offsets in a question or in an earlier answer at which a name may start.
QuestAt(q) == HeaderLen + Len(Section(quests)[q - 1])
QuestStarts == UNION {Labels(msg, QuestAt(q)) : q \in DOMAIN quests}
AnswerStarts ==
  UNION {Labels(msg, wanted[w].at + 12 + Len(Preference(wanted[w].type))) :
         w \in {k \in 1 .. Len(wanted) : wanted[k].type \in NameTypes}}
Starts == {o \in QuestStarts \cup AnswerStarts : At(o) > 0}

\* The first `cut' characters of a name as labels, and then a pointer to a name
\* that is the rest of it, or the end.
Form(type, url) == IF type = A THEN url ELSE Preference(type) \o inetFormat(url)
UpstreamAnswer(type, url) ==
  /\ ~relay /\ Want(1, type, url)
  /\ \/ msg' = msg \o Resource(type, HeaderLen, Form(type, url))
     \/ \E o \in Starts, cut \in {0} \cup {k \in DOMAIN url : url[k] = DOT} :
          /\ type \in NameTypes
          /\ ReadName(o) = SubSeq(url, cut + 1, Len(url))
          /\ msg' = msg \o Resource(type, HeaderLen, Preference(type)
                             \o SubSeq(inetFormat(url), 1, cut) \o PointerTo(o))
  /\ Len(msg') <= BUFFER_SIZE
  /\ UNCHANGED <<quests, relay, step, bufPos, temp, zip, names, parsed>>

\* A message with an answer that cannot be read is not parsed any further.
Deliver ==
  /\ step = "answer" /\ step' = "quest"
  /\ \A k \in DOMAIN wanted : Sound(wanted[k])
  /\ UNCHANGED <<made, msg, bufPos, temp, zip, names, parsed>>
----------------------------------------------------------------------------
(* packetParse *)

\* One question; strlen of its name gives its end.
ParseQuest ==
  LET qLen == MinOf({n \in 0 .. Len(msg) - bufPos - 1 : At(bufPos + n) = 0}) IN
  /\ step = "quest" /\ Len(names) < Len(quests)
  /\ names' = Append(names, inetParse(SubSeq(msg, bufPos + 1, bufPos + qLen + 1)))
  /\ bufPos' = bufPos + qLen + 1 + 4
  /\ UNCHANGED <<made, msg, step, temp, zip, parsed>>

Type == Word(bufPos + 2)
RDLen == Word(bufPos + 10)
RData == SubSeq(msg, bufPos + 13, bufPos + 12 + RDLen)

MutParsed(text) ==              \* mutant: the fixed part has 13 bytes
  /\ parsed' = Append(parsed, [type |-> Type, text |-> text])
  /\ bufPos' = bufPos + 13 + RDLen
Parsed(text) ==
  /\ parsed' = Append(parsed, [type |-> Type, text |-> text])
  /\ bufPos' = bufPos + 12 + RDLen

\* The start of an answer; urlParse looks at the last two bytes of a name.
ParseAnswer ==
  LET src == SubSeq(RData, Len(Preference(Type)) + 1, RDLen)
      last == bufPos + 12 + RDLen - 2
  IN
  /\ step = "quest" /\ Len(names) = Len(quests) /\ Len(parsed) < Len(wanted)
  /\ \/ Type = A /\ Parsed(RData) /\ UNCHANGED <<step, temp, zip>>
     \/ /\ Type \in NameTypes /\ IsPointer(last)
        /\ temp' = SubSeq(src, 1, Len(src) - 2)
        /\ zip' = Target(last)
        /\ step' = "expand"
        /\ UNCHANGED <<bufPos, parsed>>
     \/ /\ Type \in NameTypes /\ ~IsPointer(last)
        /\ temp' = src
        /\ step' = "read"
        /\ UNCHANGED <<bufPos, zip, parsed>>
  /\ UNCHANGED <<made, msg, names>>

ExpandEnd ==
  /\ step = "expand" /\ At(zip) = 0
  /\ temp' = Append(temp, 0) /\ step' = "read"
  /\ UNCHANGED <<made, msg, bufPos, zip, names, parsed>>

ExpandLabel ==
  /\ step = "expand" /\ At(zip) # 0 /\ ~IsPointer(zip)
  /\ temp' = temp \o SubSeq(msg, zip + 1, zip + 1 + At(zip))
  /\ zip' = zip + At(zip) + 1
  /\ UNCHANGED <<made, msg, step, bufPos, names, parsed>>

MutExpandPointer ==             \* mutant: a second pointer ends the name
  /\ step = "expand" /\ IsPointer(zip)
  /\ temp' = Append(temp, 0) /\ step' = "read"
  /\ UNCHANGED <<made, msg, bufPos, zip, names, parsed>>
\* A pointer is followed only if another one comes after it; otherwise the name
\* ends here.  After a name of an answer comes the owner of the next answer.
ExpandPointer ==
  /\ step = "expand" /\ IsPointer(zip)
  /\ IF IsPointer(zip + 2)
       THEN zip' = Target(zip) /\ UNCHANGED <<temp, step>>
       ELSE temp' = Append(temp, 0) /\ step' = "read" /\ UNCHANGED zip
  /\ UNCHANGED <<made, msg, bufPos, names, parsed>>

ReadText ==
  /\ step = "read" /\ step' = "quest"
  /\ Parsed(inetParse(temp))
  /\ UNCHANGED <<made, msg, temp, zip, names>>

ParseDone ==
  /\ step = "quest" /\ Len(names) = Len(quests) /\ Len(parsed) = Len(wanted)
  /\ step' = "done"
  /\ UNCHANGED <<made, msg, bufPos, temp, zip, names, parsed>>

packetParse ==
  \/ ParseQuest \/ ParseAnswer \/ ExpandEnd \/ ExpandLabel \/ ExpandPointer
  \/ ReadText \/ ParseDone

Next ==
  \/ \E q \in DOMAIN quests, type \in Types : \E url \in Data(type) :
       AddAnswer(q, type, url)
  \/ \E type \in Types : \E url \in Data(type) : UpstreamAnswer(type, url)
  \/ Deliver
  \/ packetParse

Spec == Init /\ [][Next]_vars
----------------------------------------------------------------------------
(* Types *)

Byte == 0 .. 255
Text == Seq(Byte)

\* Every byte fits its width and every offset lies within the message; the sizes
\* of the buffers on the stack (temp[255] and the like) are not bounded here.
TypeOK ==
  /\ quests \in Seq(Text)
  /\ \A k \in DOMAIN wanted :
       /\ wanted[k].quest \in DOMAIN quests
       /\ wanted[k].at \in 0 .. Len(msg) - 1
  /\ relay \in BOOLEAN
  /\ msg \in Seq(Byte)
  /\ step \in {"answer", "quest", "expand", "read", "done"}
  /\ bufPos \in 0 .. Len(msg)
  /\ temp \in Text
  /\ zip \in 0 .. Len(msg) - 1
  /\ names \in Seq(Text)
  /\ \A k \in DOMAIN parsed : parsed[k].text \in Text
----------------------------------------------------------------------------
(* Safety *)

\* Where the name and the length of an answer's data are in the message
DataAt(w) == w.at + 12 + Len(Preference(w.type))
EndOf(w) == w.at + 12 + Word(w.at + 10)

\* The name in an answer of the relay reads as the name the cache or the host
\* table gave, and takes as many bytes as the record says, however much of it
\* was replaced by a pointer to the question; and the answer belongs to the name
\* that was asked for, if that is the first question: the pointers to later ones
\* miss them by the 0 of each name before.
AnswersReadable ==
  \A k \in DOMAIN wanted :
    LET w == wanted[k] IN
    relay =>
      /\ w.quest = 1 => ReadName(w.at) = quests[1]
      /\ w.type \in NameTypes /\ Sound(w) =>
           /\ ReadName(DataAt(w)) = w.text
           /\ AfterName(DataAt(w)) = EndOf(w)

\* packetParse takes a message apart as it was put together: the questions, and
\* every answer of an upstream server, whatever it was compressed against, or
\* of a relay like this one.
ParsesBack ==
  step = "done" =>
    /\ names = quests
    /\ bufPos = Len(msg)
    /\ \A k \in DOMAIN wanted :
         parsed[k] = [type |-> wanted[k].type, text |-> wanted[k].text]

\* An MX record of a host that has no part of its name in common with the
\* question is among the record types the README lists as supported.
MxSupported ==
  \A k \in DOMAIN wanted :
    wanted[k].type = MX => ReadName(DataAt(wanted[k])) = wanted[k].text

=============================================================================
