--------------------------- MODULE HistoriesProofs --------------------------
(***************************************************************************)
(* Proofs about Histories, for any chats: requests that exclude each other *)
(* are never sent together, and none of the requests, entries and readings *)
(* of a chat is forgotten.  IInv does not need the bounds; Bounded says    *)
(* with them that every request known or dropped was given a number.       *)
(***************************************************************************)
EXTENDS Histories, TLAPS

AnyIds == [n : Nat, chat : Chats, type : Types, till : Nat]

Queues == [sent : [Chats -> SUBSET AnyIds], postponed : [Chats -> SUBSET AnyIds],
           alive : SUBSET AnyIds, entry : SUBSET Chats, pending : SUBSET Chats,
           requested : SUBSET Chats, call : BOOLEAN]

\* A postponed History waits for a Delete, and none is sent beside it.
Ordered(q) ==
  \A c \in Chats :
    /\ \A id \in q.sent[c] \union q.postponed[c] : id.chat = c
    /\ \A id \in q.postponed[c] : id.type = "History"
    /\ PostponeHistory(q.sent[c]) => OfType(q.sent[c], "History") = {}
    /\ q.postponed[c] # {} => PostponeHistory(q.sent[c])

\* An entry is pending, or requested, and then perhaps put off by what is sent.
EntriesOrdered(q) ==
  /\ q.requested \intersect q.pending = {} /\ q.entry \subseteq q.requested
  /\ q.pending # {} => q.call
  /\ \A c \in q.entry : PostponeEntry(q.sent[c])

Sound(q) == q \in Queues /\ Ordered(q) /\ EntriesOrdered(q)

\* Identifiers are those given up to n.
UpToId(q, n) ==
  /\ \A id \in q.alive : id.n =< n
  /\ \A c \in Chats : \A id \in q.sent[c] \union q.postponed[c] : id.n =< n

\* What is sent is in the hands of the server, or among X.
SentIn(q, X) == \A c \in Chats : q.sent[c] \subseteq q.alive \union X

\* What is wanted: in the hands of the server, postponed or forgotten.
WantedComes ==
  \A id \in wanted : /\ id \in AnyIds /\ id.type = "History"
                     /\ \/ id \in queue.alive \/ id \in queue.postponed[id.chat] \/ id \in forgotten

RequestedComes ==
  \A c \in queue.requested :
    c \in orphans \/ c \in queue.entry \/ \E i \in 1..MaxEntries : c \in entries[i]

\* Readings: types, and how the numbers of one chat follow each other.
ReadTypes ==
  /\ willRead \in [Chats -> Nat] /\ sentRead \in [Chats -> Nat] /\ readTill \in [Chats -> Nat]
  /\ sentDone \subseteq Chats /\ timer \in BOOLEAN /\ sendReads \in BOOLEAN /\ cleared \in BOOLEAN
  /\ entries \in [1..MaxEntries -> SUBSET Chats] /\ lastId \in Nat

\* What is sent and not ended is in the hands of the server, or its end was asked for.
Comes(alive, sent, done, asked) ==
  \A c \in Chats : sent[c] # 0 =>
    \/ \E id \in OfType(alive, "ReadInbox") : id.chat = c /\ id.till = sent[c]
    \/ c \in done /\ c \in asked

\* Nothing is read that was sent to be read already.
NewReads(alive, will, sent, till) ==
  \A id \in OfType(alive, "ReadInbox") :
    /\ sent[id.chat] # 0 => sent[id.chat] >= id.till
    /\ sent[id.chat] = 0 => till[id.chat] >= id.till
    /\ will[id.chat] # 0 => will[id.chat] > id.till

Later(will, sent) == \A c \in Chats : will[c] # 0 => will[c] > sent[c]

Asked == queue.pending \union queue.requested

Reading ==
  /\ timer \/ \A c \in Chats : willRead[c] = 0
  /\ Comes(queue.alive, sentRead, sentDone, Asked)
  /\ Later(willRead, sentRead)
  /\ cleared \/ NewReads(queue.alive, willRead, sentRead, readTill)

IInv ==
  /\ Sound(queue) /\ UpToId(queue, lastId) /\ SentIn(queue, endless)
  /\ WantedComes /\ RequestedComes /\ ReadTypes /\ Reading
-----------------------------------------------------------------------------
(* The queue after each of its functions, field by field *)

LEMMA ArrivedFields ==
  ASSUME NEW q \in Queues, NEW id
  PROVE  LET a == [q EXCEPT !.alive = @ \ {id}] IN
         /\ a \in Queues /\ a.alive = q.alive \ {id} /\ a.sent = q.sent /\ a.postponed = q.postponed
         /\ a.entry = q.entry /\ a.pending = q.pending /\ a.requested = q.requested /\ a.call = q.call
  BY DEF Queues

LEMMA AskedForFields ==
  ASSUME NEW q \in Queues, NEW c \in Chats
  PROVE  LET a == AskedFor(q, c) IN
         /\ a \in Queues /\ a.alive = q.alive /\ a.sent = q.sent /\ a.postponed = q.postponed
         /\ a.entry = q.entry /\ a.requested = q.requested
         /\ a.pending = q.pending \union ({c} \ q.requested)
         /\ a.call = (q.call \/ (c \notin q.requested /\ q.pending = {}))
  BY DEF Queues, AskedFor

Back(q, id) ==
  LET sent == q.sent[id.chat] \union {id} IN IF PostponeHistory(sent) THEN OfType(sent, "History") ELSE {}

LEMMA PostponedFields ==
  ASSUME NEW q \in Queues, NEW id \in AnyIds, id.type = "History", PostponeHistory(q.sent[id.chat])
  PROVE  LET a == Added(q, id) IN
         /\ a \in Queues /\ a.sent = q.sent /\ a.alive = q.alive
         /\ a.postponed = [q.postponed EXCEPT ![id.chat] = @ \union {id}]
         /\ a.entry = q.entry /\ a.pending = q.pending /\ a.requested = q.requested /\ a.call = q.call
  BY DEF Queues, Added, AnyIds

LEMMA AddedFields ==
  ASSUME NEW q \in Queues, NEW id \in AnyIds, ~(id.type = "History" /\ PostponeHistory(q.sent[id.chat]))
  PROVE  LET a == Added(q, id)  sent == q.sent[id.chat] \union {id} IN
         /\ a \in Queues /\ a.sent = [q.sent EXCEPT ![id.chat] = sent \ Back(q, id)]
         /\ a.alive = (q.alive \union {id}) \ Back(q, id)
         /\ a.postponed = [q.postponed EXCEPT ![id.chat] = @ \union Back(q, id)]
         /\ a.entry = IF PostponeEntry(sent) THEN q.entry \union ({id.chat} \intersect q.requested) ELSE q.entry
         /\ a.pending = q.pending /\ a.requested = q.requested /\ a.call = q.call
<1> DEFINE sent == q.sent[id.chat] \union {id}
           entry == IF PostponeEntry(sent) THEN q.entry \union ({id.chat} \intersect q.requested) ELSE q.entry
<1>1. sent \in SUBSET AnyIds /\ Back(q, id) \in SUBSET AnyIds /\ entry \in SUBSET Chats /\ id.chat \in Chats
  BY DEF Queues, Back, OfType, AnyIds
<1>2. q.sent \in [Chats -> SUBSET AnyIds] /\ q.postponed \in [Chats -> SUBSET AnyIds]
      /\ q.alive \in SUBSET AnyIds /\ q.pending \in SUBSET Chats /\ q.requested \in SUBSET Chats /\ q.call \in BOOLEAN
  BY DEF Queues
<1> DEFINE s == [q.sent EXCEPT ![id.chat] = sent \ Back(q, id)]
           p == [q.postponed EXCEPT ![id.chat] = @ \union Back(q, id)]
           a == (q.alive \union {id}) \ Back(q, id)
<1>3. s \in [Chats -> SUBSET AnyIds] /\ p \in [Chats -> SUBSET AnyIds] /\ a \in SUBSET AnyIds
  BY <1>1, <1>2
<1>4. Added(q, id) = [q EXCEPT !.sent = s, !.postponed = p, !.alive = a, !.entry = entry]
  BY DEF Added, Back
<1>5. Added(q, id) = [q EXCEPT !.sent = s, !.postponed = p, !.alive = a, !.entry = entry,
                               !.requested = q.requested, !.pending = q.pending, !.call = q.call]
  <2> HIDE DEF s, p, a, entry, sent
  <2> QED
    BY <1>4 DEF Queues
<1> QED
  <2> HIDE DEF s, p, a, entry
  <2>1. LET f == Added(q, id) IN
        /\ f \in Queues /\ f.sent = s /\ f.postponed = p /\ f.alive = a /\ f.entry = entry
        /\ f.requested = q.requested /\ f.pending = q.pending /\ f.call = q.call
    BY <1>1, <1>2, <1>3, <1>5 DEF Queues
  <2>2. s = [q.sent EXCEPT ![id.chat] = sent \ Back(q, id)]
        /\ p = [q.postponed EXCEPT ![id.chat] = @ \union Back(q, id)]
        /\ a = (q.alive \union {id}) \ Back(q, id)
        /\ entry = IF PostponeEntry(sent) THEN q.entry \union ({id.chat} \intersect q.requested) ELSE q.entry
    BY DEF s, p, a, entry
  <2> QED
    BY <2>1, <2>2, Zenon

\* Of finishSentRequest: what stays sent, what is sent again, whether it asks for the entry.
Rest(q, id) == q.sent[id.chat] \ {id}
Again(q, id) == IF PostponeHistory(Rest(q, id)) THEN {} ELSE q.postponed[id.chat]
Asks(q, id) == id.chat \in q.entry /\ ~PostponeEntry(Rest(q, id) \union Again(q, id))

LEMMA FinishedFields ==
  ASSUME NEW q \in Queues, NEW id \in AnyIds
  PROVE  LET f == Finished(q, id)  c == id.chat IN
         /\ f \in Queues /\ f.sent = [q.sent EXCEPT ![c] = Rest(q, id) \union Again(q, id)]
         /\ f.postponed = [q.postponed EXCEPT ![c] = @ \ Again(q, id)]
         /\ f.alive = (q.alive \ (q.sent[c] \intersect {id})) \union Again(q, id)
         /\ Asks(q, id) => /\ f.entry = q.entry \ {c} /\ f.requested = q.requested \ {c}
                           /\ f.pending = q.pending \union {c} /\ f.call = (q.call \/ q.pending = {})
         /\ ~Asks(q, id) => /\ f.entry = q.entry /\ f.requested = q.requested
                            /\ f.pending = q.pending /\ f.call = q.call
<1> DEFINE c == id.chat
<1>1. /\ Rest(q, id) \in SUBSET AnyIds /\ Again(q, id) \in SUBSET AnyIds /\ c \in Chats
      /\ q.sent[c] \in SUBSET AnyIds /\ q.postponed[c] \in SUBSET AnyIds
  BY DEF Queues, Rest, Again, AnyIds
<1>2. q.sent \in [Chats -> SUBSET AnyIds] /\ q.postponed \in [Chats -> SUBSET AnyIds]
      /\ q.alive \in SUBSET AnyIds /\ q.pending \in SUBSET Chats /\ q.requested \in SUBSET Chats
      /\ q.call \in BOOLEAN /\ q.entry \in SUBSET Chats
  BY DEF Queues
<1> DEFINE s == [q.sent EXCEPT ![c] = Rest(q, id) \union Again(q, id)]
           p == [q.postponed EXCEPT ![c] = @ \ Again(q, id)]
           a == (q.alive \ (q.sent[c] \intersect {id})) \union Again(q, id)
           e == IF Asks(q, id) THEN q.entry \ {c} ELSE q.entry
           r == IF Asks(q, id) THEN q.requested \ {c} ELSE q.requested
           n == IF Asks(q, id) THEN q.pending \union {c} ELSE q.pending
           b == q.call \/ (Asks(q, id) /\ q.pending = {})
<1>3. /\ s \in [Chats -> SUBSET AnyIds] /\ p \in [Chats -> SUBSET AnyIds] /\ a \in SUBSET AnyIds
      /\ e \in SUBSET Chats /\ r \in SUBSET Chats /\ n \in SUBSET Chats /\ b \in BOOLEAN
  BY <1>1, <1>2
<1>4. Finished(q, id) = [q EXCEPT !.sent = s, !.postponed = p, !.alive = a, !.entry = e, !.requested = r,
                                  !.pending = n, !.call = b]
  BY DEF Finished, Rest, Again, Asks
<1> HIDE DEF s, p, a, e, r, n, b
<1>5. LET f == Finished(q, id) IN
      /\ f \in Queues /\ f.sent = s /\ f.postponed = p /\ f.alive = a /\ f.entry = e
      /\ f.requested = r /\ f.pending = n /\ f.call = b
  BY <1>3, <1>4 DEF Queues
<1>6. Asks(q, id) \in BOOLEAN
  BY DEF Asks
<1>7. b = IF Asks(q, id) THEN (q.call \/ q.pending = {}) ELSE q.call
  BY <1>2, <1>6 DEF b
<1>8. /\ s = [q.sent EXCEPT ![c] = Rest(q, id) \union Again(q, id)]
      /\ p = [q.postponed EXCEPT ![c] = @ \ Again(q, id)]
      /\ a = (q.alive \ (q.sent[c] \intersect {id})) \union Again(q, id)
  BY DEF s, p, a
<1>9. CASE Asks(q, id)
  <2>1. e = q.entry \ {c} /\ r = q.requested \ {c} /\ n = q.pending \union {c}
    BY <1>9 DEF e, r, n
  <2> QED
    BY <1>5, <1>7, <1>8, <1>9, <2>1, Zenon
<1>10. CASE ~Asks(q, id)
  <2>1. e = q.entry /\ r = q.requested /\ n = q.pending
    BY <1>10 DEF e, r, n
  <2> QED
    BY <1>5, <1>7, <1>8, <1>10, <2>1, Zenon
<1> QED
  BY <1>9, <1>10

-----------------------------------------------------------------------------
(* What the functions of the queue keep *)

LEMMA AskedForKeeps ==
  ASSUME NEW q, Sound(q), NEW c \in Chats
  PROVE  Sound(AskedFor(q, c)) /\ c \in AskedFor(q, c).pending \union AskedFor(q, c).requested
<1> DEFINE a == AskedFor(q, c)
<1>0. q \in Queues /\ Ordered(q) /\ EntriesOrdered(q)
  BY DEF Sound
<1>1. /\ a \in Queues /\ a.alive = q.alive /\ a.sent = q.sent /\ a.postponed = q.postponed
      /\ a.entry = q.entry /\ a.requested = q.requested
      /\ a.pending = q.pending \union ({c} \ q.requested)
      /\ a.call = (q.call \/ (c \notin q.requested /\ q.pending = {}))
  BY <1>0, AskedForFields
<1> HIDE DEF a
<1>2. Ordered(a)
  BY <1>0, <1>1 DEF Ordered
<1>3. EntriesOrdered(a)
  BY <1>0, <1>1 DEF EntriesOrdered
<1>4. Sound(a) /\ c \in a.pending \union a.requested
  BY <1>1, <1>2, <1>3 DEF Sound
<1> QED
  BY <1>4 DEF a

LEMMA AddedKeeps ==
  ASSUME NEW q, Sound(q), NEW id \in AnyIds
  PROVE  LET a == Added(q, id) IN
         /\ Sound(a) /\ a.pending = q.pending /\ a.requested = q.requested /\ q.entry \subseteq a.entry
         /\ \A n \in Nat : UpToId(q, n) /\ id.n =< n => UpToId(a, n)
         /\ \A X : SentIn(q, X) => SentIn(a, X)
         /\ \A x \in q.alive : x \in a.alive \/ (x.type = "History" /\ x \in a.postponed[x.chat])
         /\ \A c \in Chats : q.postponed[c] \subseteq a.postponed[c]
         /\ a.alive \subseteq q.alive \union {id}
         /\ id.type = "History" => id \in a.alive \/ id \in a.postponed[id.chat]
<1> DEFINE a == Added(q, id)
<1>0. q \in Queues /\ Ordered(q) /\ EntriesOrdered(q) /\ id.chat \in Chats
  BY DEF Sound, AnyIds
<1>1. CASE id.type = "History" /\ PostponeHistory(q.sent[id.chat])
  <2>1. /\ a \in Queues /\ a.sent = q.sent /\ a.alive = q.alive
        /\ a.postponed = [q.postponed EXCEPT ![id.chat] = @ \union {id}]
        /\ a.entry = q.entry /\ a.pending = q.pending /\ a.requested = q.requested /\ a.call = q.call
    BY <1>0, <1>1, PostponedFields
  <2> HIDE DEF a
  <2>2. q.postponed \in [Chats -> SUBSET AnyIds]
    BY <1>0 DEF Queues
  <2>3. Ordered(a)
    BY <1>0, <1>1, <2>1, <2>2 DEF Ordered
  <2>4. EntriesOrdered(a)
    BY <1>0, <2>1 DEF EntriesOrdered
  <2>5. /\ \A n \in Nat : UpToId(q, n) /\ id.n =< n => UpToId(a, n)
        /\ \A X : SentIn(q, X) => SentIn(a, X)
        /\ \A c \in Chats : q.postponed[c] \subseteq a.postponed[c]
        /\ id \in a.postponed[id.chat]
    BY <1>0, <2>1, <2>2 DEF UpToId, SentIn
  <2>6. Sound(a)
    BY <2>1, <2>3, <2>4 DEF Sound
  <2> QED
    BY <2>1, <2>5, <2>6 DEF a
<1>2. CASE ~(id.type = "History" /\ PostponeHistory(q.sent[id.chat]))
  <2> DEFINE c == id.chat  sent == q.sent[c] \union {id}  back == Back(q, id)
  <2>1. /\ a \in Queues /\ a.sent = [q.sent EXCEPT ![c] = sent \ back]
        /\ a.alive = (q.alive \union {id}) \ back
        /\ a.postponed = [q.postponed EXCEPT ![c] = @ \union back]
        /\ a.entry = IF PostponeEntry(sent) THEN q.entry \union ({c} \intersect q.requested) ELSE q.entry
        /\ a.pending = q.pending /\ a.requested = q.requested /\ a.call = q.call
    BY <1>0, <1>2, AddedFields
  <2>2. /\ q.sent \in [Chats -> SUBSET AnyIds] /\ q.postponed \in [Chats -> SUBSET AnyIds]
        /\ q.alive \subseteq AnyIds /\ c \in Chats
    BY <1>0 DEF Queues
  <2>3. /\ back \subseteq sent /\ \A x \in back : x.type = "History" /\ x.chat = c
        /\ back # {} => PostponeHistory(sent)
        /\ PostponeHistory(sent) => back = OfType(sent, "History")
    BY <1>0, <2>2 DEF Back, OfType, Ordered
  <2> HIDE DEF a, back
  <2>4. PostponeHistory(sent) => /\ OfType(sent \ back, "History") = {} /\ PostponeHistory(sent \ back)
    BY <2>3 DEF OfType, PostponeHistory
  <2>5. ~PostponeHistory(sent) => back = {} /\ ~PostponeHistory(q.sent[c])
    BY <2>3 DEF OfType, PostponeHistory
  <2>6. Ordered(a)
    <3>1. ASSUME NEW x \in Chats, x # c
          PROVE  a.sent[x] = q.sent[x] /\ a.postponed[x] = q.postponed[x]
      BY <2>1, <2>2, <3>1
    <3>2. a.sent[c] = sent \ back /\ a.postponed[c] = q.postponed[c] \union back
      BY <2>1, <2>2
    <3>3. /\ \A x \in a.sent[c] \union a.postponed[c] : x.chat = c
          /\ \A x \in a.postponed[c] : x.type = "History"
          /\ PostponeHistory(a.sent[c]) => OfType(a.sent[c], "History") = {}
          /\ a.postponed[c] # {} => PostponeHistory(a.sent[c])
      <4>0. /\ \A x \in a.sent[c] \union a.postponed[c] : x.chat = c
            /\ \A x \in a.postponed[c] : x.type = "History"
        BY <1>0, <2>2, <2>3, <3>2 DEF Ordered
      <4>1. CASE PostponeHistory(sent)
        BY <2>4, <3>2, <4>0, <4>1, Zenon
      <4>2. CASE ~PostponeHistory(sent)
        <5>1. a.sent[c] = sent /\ a.postponed[c] = q.postponed[c]
          BY <2>5, <3>2, <4>2
        <5>2. q.postponed[c] = {}
          BY <1>0, <2>2, <2>5, <4>2 DEF Ordered
        <5> QED
          BY <4>0, <4>2, <5>1, <5>2
      <4> QED
        BY <4>1, <4>2
    <3> QED
      BY <1>0, <3>1, <3>3 DEF Ordered
  <2>7. EntriesOrdered(a)
    <3>1. ASSUME PostponeEntry(sent) PROVE PostponeEntry(sent \ back)
      BY <2>3, <3>1 DEF PostponeEntry, OfType
    <3>2. PostponeEntry(q.sent[c]) => PostponeEntry(sent)
      BY DEF PostponeEntry, OfType
    <3>3. ASSUME NEW x \in a.entry PROVE PostponeEntry(a.sent[x])
      <4>1. x \in Chats
        BY <2>1 DEF Queues
      <4>2. CASE x = c
        BY <1>0, <2>1, <2>2, <3>1, <3>2, <3>3, <4>2 DEF EntriesOrdered
      <4>3. CASE x # c
        BY <1>0, <2>1, <2>2, <3>3, <4>1, <4>3 DEF EntriesOrdered
      <4> QED
        BY <4>2, <4>3
    <3> QED
      BY <1>0, <2>1, <3>3 DEF EntriesOrdered
  <2>8. \A n \in Nat : UpToId(q, n) /\ id.n =< n => UpToId(a, n)
    BY <2>1, <2>2, <2>3 DEF UpToId
  <2>9. ASSUME NEW X, SentIn(q, X), NEW x \in Chats PROVE a.sent[x] \subseteq a.alive \union X
    <3>1. q.sent[x] \subseteq q.alive \union X
      BY <2>9 DEF SentIn
    <3>2. CASE x = c
      BY <2>1, <2>2, <3>1, <3>2
    <3>3. CASE x # c
      BY <1>0, <2>1, <2>2, <2>3, <3>1, <3>3 DEF Ordered
    <3> QED
      BY <3>2, <3>3
  <2>10. /\ \A x \in q.alive : x \in a.alive \/ (x.type = "History" /\ x \in a.postponed[x.chat])
         /\ \A x \in Chats : q.postponed[x] \subseteq a.postponed[x]
         /\ a.alive \subseteq q.alive \union {id} /\ q.entry \subseteq a.entry
         /\ id \in a.alive \/ id \in a.postponed[id.chat]
    BY <2>1, <2>2, <2>3
  <2>11. Sound(a)
    BY <2>1, <2>6, <2>7 DEF Sound
  <2>12. a.pending = q.pending /\ a.requested = q.requested
    BY <2>1
  <2> QED
    BY <2>8, <2>9, <2>10, <2>11, <2>12, Zenon DEF a, SentIn
<1> QED
  BY <1>1, <1>2

LEMMA FinishedKeeps ==
  ASSUME NEW q, Sound(q), NEW id \in AnyIds
  PROVE  LET f == Finished(q, id) IN
         /\ Sound(f) /\ f.pending \union f.requested = q.pending \union q.requested
         /\ \A c \in f.requested : c \in q.requested /\ (c \in q.entry => c \in f.entry)
         /\ \A n \in Nat : UpToId(q, n) => UpToId(f, n)
         /\ \A X : SentIn(q, X \union {id}) => SentIn(f, X)
         /\ \A x \in q.alive : x = id \/ x \in f.alive
         /\ \A x \in f.alive : x \in q.alive \/ x.type = "History"
         /\ \A c \in Chats : \A x \in q.postponed[c] : x \in f.postponed[c] \/ x \in f.alive
<1> DEFINE f == Finished(q, id)  c == id.chat  rest == Rest(q, id)  again == Again(q, id)
<1>0. q \in Queues /\ Ordered(q) /\ EntriesOrdered(q) /\ c \in Chats
  BY DEF Sound, AnyIds
<1>1. /\ f \in Queues /\ f.sent = [q.sent EXCEPT ![c] = rest \union again]
      /\ f.postponed = [q.postponed EXCEPT ![c] = @ \ again]
      /\ f.alive = (q.alive \ (q.sent[c] \intersect {id})) \union again
      /\ Asks(q, id) => /\ f.entry = q.entry \ {c} /\ f.requested = q.requested \ {c}
                        /\ f.pending = q.pending \union {c} /\ f.call = (q.call \/ q.pending = {})
      /\ ~Asks(q, id) => /\ f.entry = q.entry /\ f.requested = q.requested
                         /\ f.pending = q.pending /\ f.call = q.call
  BY <1>0, FinishedFields
<1>2. /\ q.sent \in [Chats -> SUBSET AnyIds] /\ q.postponed \in [Chats -> SUBSET AnyIds]
      /\ q.alive \subseteq AnyIds /\ q.entry \subseteq Chats
  BY <1>0 DEF Queues
<1>3. /\ rest = q.sent[c] \ {id} /\ again \subseteq q.postponed[c]
      /\ PostponeHistory(rest) => again = {}
      /\ ~PostponeHistory(rest) => again = q.postponed[c]
  BY DEF Rest, Again
<1>4. Asks(q, id) <=> c \in q.entry /\ ~PostponeEntry(rest \union again)
  BY DEF Asks
<1> HIDE DEF f, rest, again
<1>5. /\ f.sent[c] = rest \union again /\ f.postponed[c] = q.postponed[c] \ again
      /\ \A x \in Chats \ {c} : f.sent[x] = q.sent[x] /\ f.postponed[x] = q.postponed[x]
  BY <1>1, <1>2, <1>0
<1>6. \A x \in again : x.type = "History" /\ x.chat = c
  BY <1>0, <1>3 DEF Ordered
<1>7. Ordered(f)
  <2>1. \A x \in f.sent[c] \union f.postponed[c] : x.chat = c
    BY <1>0, <1>3, <1>5, <1>6 DEF Ordered
  <2>2. \A x \in f.postponed[c] : x.type = "History"
    BY <1>0, <1>5 DEF Ordered
  <2>3. CASE PostponeHistory(rest)
    <3>1. f.sent[c] = rest /\ f.postponed[c] = q.postponed[c]
      BY <1>3, <1>5, <2>3
    <3>2. PostponeHistory(q.sent[c])
      BY <1>3, <2>3 DEF PostponeHistory, OfType
    <3>3. OfType(rest, "History") = {}
      BY <1>0, <1>3, <3>2 DEF Ordered, OfType
    <3> QED
      BY <1>0, <1>5, <2>1, <2>2, <2>3, <3>1, <3>3 DEF Ordered
  <2>4. CASE ~PostponeHistory(rest)
    <3>1. f.postponed[c] = {}
      BY <1>3, <1>5, <2>4
    <3>2. ~PostponeHistory(f.sent[c])
      BY <1>5, <1>6, <2>4 DEF PostponeHistory, OfType
    <3> QED
      BY <1>0, <1>5, <2>1, <2>2, <3>1, <3>2 DEF Ordered
  <2> QED
    BY <2>3, <2>4
<1>8. EntriesOrdered(f)
  <2>1. ASSUME NEW x \in f.entry PROVE PostponeEntry(f.sent[x])
    <3>1. x \in q.entry /\ x \in Chats
      BY <1>1, <1>2
    <3>2. CASE x = c
      <4>1. ~Asks(q, id)
        BY <1>1, <2>1, <3>2
      <4> QED
        BY <1>4, <1>5, <3>1, <3>2, <4>1
    <3>3. CASE x # c
      BY <1>0, <1>5, <3>1, <3>3 DEF EntriesOrdered
    <3> QED
      BY <3>2, <3>3
  <2>2. CASE Asks(q, id)
    BY <1>0, <1>1, <2>1, <2>2 DEF EntriesOrdered
  <2>3. CASE ~Asks(q, id)
    BY <1>0, <1>1, <2>1, <2>3 DEF EntriesOrdered
  <2> QED
    BY <2>2, <2>3
<1>9. /\ f.pending \union f.requested = q.pending \union q.requested
      /\ \A x \in f.requested : x \in q.requested /\ (x \in q.entry => x \in f.entry)
  <2>1. CASE Asks(q, id)
    BY <1>0, <1>1, <1>4, <2>1 DEF EntriesOrdered
  <2>2. CASE ~Asks(q, id)
    BY <1>1, <2>2
  <2> QED
    BY <2>1, <2>2
<1>10. ASSUME NEW n \in Nat, UpToId(q, n) PROVE UpToId(f, n)
  <2>1. \A x \in f.alive : x.n =< n
    BY <1>0, <1>1, <1>3, <1>10 DEF UpToId
  <2>2. ASSUME NEW y \in Chats, NEW x \in f.sent[y] \union f.postponed[y] PROVE x.n =< n
    <3>1. x \in q.sent[y] \union q.postponed[y]
      BY <1>3, <1>5, <2>2
    <3> QED
      BY <1>10, <3>1 DEF UpToId
  <2> QED
    BY <2>1, <2>2 DEF UpToId
<1>11. ASSUME NEW X, SentIn(q, X \union {id}), NEW x \in Chats PROVE f.sent[x] \subseteq f.alive \union X
  <2>1. q.sent[x] \subseteq q.alive \union X \union {id}
    BY <1>11 DEF SentIn
  <2>2. CASE x = c
    BY <1>1, <1>3, <1>5, <2>1, <2>2
  <2>3. CASE x # c
    <3>1. id \notin q.sent[x]
      BY <1>0, <2>3 DEF Ordered
    <3> QED
      BY <1>1, <1>5, <2>1, <2>3, <3>1
  <2> QED
    BY <2>2, <2>3
<1>12. /\ \A x \in q.alive : x = id \/ x \in f.alive
       /\ \A x \in f.alive : x \in q.alive \/ x.type = "History"
       /\ \A y \in Chats : \A x \in q.postponed[y] : x \in f.postponed[y] \/ x \in f.alive
  BY <1>1, <1>5, <1>6
<1>13. Sound(f)
  BY <1>1, <1>7, <1>8 DEF Sound
<1> QED
  BY <1>9, <1>10, <1>11, <1>12, <1>13, Zenon DEF f, SentIn

-----------------------------------------------------------------------------
(* Readings *)

NewReadings(due, will) == {NewId(c, "ReadInbox", will[c]) : c \in due}

LEMMA ReadsAddedFields ==
  ASSUME NEW q \in Queues, ReadTypes, NEW due \in SUBSET Chats, NEW will \in [Chats -> Nat]
  PROVE  LET r == ReadsAdded(q, due, will) IN
         /\ r \in Queues /\ r.pending = q.pending /\ r.requested = q.requested /\ r.call = q.call
         /\ ~sendReads => /\ r.alive = q.alive /\ r.entry = {}
                          /\ \A c \in Chats : r.sent[c] = {} /\ r.postponed[c] = {}
         /\ sendReads => /\ r.alive = q.alive \union NewReadings(due, will)
                         /\ r.entry = q.entry \union (due \intersect q.requested) /\ r.postponed = q.postponed
                         /\ \A c \in Chats : r.sent[c] = q.sent[c] \union
                                                 {id \in NewReadings(due, will) : id.chat = c}
<1>1. NewReadings(due, will) \in SUBSET AnyIds
  BY DEF NewReadings, NewId, AnyIds, Types, ReadTypes
<1>2. /\ q.sent \in [Chats -> SUBSET AnyIds] /\ q.postponed \in [Chats -> SUBSET AnyIds]
      /\ q.alive \in SUBSET AnyIds /\ q.pending \in SUBSET Chats /\ q.requested \in SUBSET Chats
      /\ q.call \in BOOLEAN /\ q.entry \in SUBSET Chats
  BY DEF Queues
<1>3. CASE sendReads
  <2> DEFINE s == [c \in Chats |-> q.sent[c] \union {id \in NewReadings(due, will) : id.chat = c}]
             a == q.alive \union NewReadings(due, will)
             e == q.entry \union (due \intersect q.requested)
  <2>1. ReadsAdded(q, due, will) = [q EXCEPT !.sent = s, !.alive = a, !.entry = e]
    BY <1>3 DEF ReadsAdded, NewReadings
  <2>2. s \in [Chats -> SUBSET AnyIds] /\ a \in SUBSET AnyIds /\ e \in SUBSET Chats
    BY <1>1, <1>2
  <2>3. \A c \in Chats : s[c] = q.sent[c] \union {id \in NewReadings(due, will) : id.chat = c}
    OBVIOUS
  <2> HIDE DEF s, a, e
  <2>4. LET r == ReadsAdded(q, due, will) IN
        /\ r \in Queues /\ r.pending = q.pending /\ r.requested = q.requested /\ r.call = q.call
        /\ r.sent = s /\ r.postponed = q.postponed /\ r.alive = a /\ r.entry = e
    BY <2>1, <2>2 DEF Queues
  <2>5. a = q.alive \union NewReadings(due, will) /\ e = q.entry \union (due \intersect q.requested)
    BY DEF a, e
  <2> QED
    BY <1>3, <2>3, <2>4, <2>5, Zenon
<1>4. CASE ~sendReads
  <2>1. ReadsAdded(q, due, will) = [q EXCEPT !.sent = None, !.postponed = None, !.entry = {}]
    BY <1>4 DEF ReadsAdded
  <2>2. None \in [Chats -> SUBSET AnyIds] /\ \A c \in Chats : None[c] = {}
    BY DEF None
  <2>3. LET r == ReadsAdded(q, due, will) IN
        /\ r \in Queues /\ r.pending = q.pending /\ r.requested = q.requested /\ r.call = q.call
        /\ r.sent = None /\ r.postponed = None /\ r.alive = q.alive /\ r.entry = {}
    BY <2>1, <2>2 DEF Queues
  <2> QED
    BY <1>4, <2>2, <2>3, Zenon
<1> QED
  BY <1>3, <1>4

LEMMA ReadsAddedKeeps ==
  ASSUME NEW q, Sound(q), UpToId(q, lastId), ReadTypes, NEW due \in SUBSET Chats, NEW will \in [Chats -> Nat]
  PROVE  LET r == ReadsAdded(q, due, will) IN
         /\ Sound(r) /\ r.pending = q.pending /\ r.requested = q.requested
         /\ UpToId(r, IF due = {} THEN lastId ELSE lastId + 1)
         /\ \A X : SentIn(q, X) => SentIn(r, X)
         /\ q.alive \subseteq r.alive
         /\ ~sendReads => r.alive = q.alive
         /\ sendReads => /\ r.alive = q.alive \union NewReadings(due, will)
                         /\ r.postponed = q.postponed /\ q.entry \subseteq r.entry
<1> DEFINE r == ReadsAdded(q, due, will)  R == NewReadings(due, will)
<1>0. q \in Queues /\ Ordered(q) /\ EntriesOrdered(q) /\ lastId \in Nat /\ sendReads \in BOOLEAN
  BY DEF Sound, ReadTypes
<1>1. /\ r \in Queues /\ r.pending = q.pending /\ r.requested = q.requested /\ r.call = q.call
      /\ ~sendReads => /\ r.alive = q.alive /\ r.entry = {}
                       /\ \A c \in Chats : r.sent[c] = {} /\ r.postponed[c] = {}
      /\ sendReads => /\ r.alive = q.alive \union R
                      /\ r.entry = q.entry \union (due \intersect q.requested) /\ r.postponed = q.postponed
                      /\ \A c \in Chats : r.sent[c] = q.sent[c] \union {id \in R : id.chat = c}
  BY <1>0, ReadsAddedFields
<1>2. /\ \A id \in R : id.type = "ReadInbox" /\ id.n = lastId + 1
      /\ \A c \in due : \E id \in R : id.chat = c /\ id.type = "ReadInbox"
      /\ due = {} => R = {}
  <2>1. ASSUME NEW c \in due PROVE \E id \in R : id.chat = c /\ id.type = "ReadInbox"
    <3>1. NewId(c, "ReadInbox", will[c]) \in R
      BY DEF NewReadings
    <3> QED
      BY <3>1 DEF NewId
  <2> QED
    BY <2>1 DEF NewReadings, NewId
<1>3. q.alive \subseteq AnyIds /\ q.sent \in [Chats -> SUBSET AnyIds] /\ q.postponed \in [Chats -> SUBSET AnyIds]
  BY <1>0 DEF Queues
<1> HIDE DEF r, R
<1>4. CASE ~sendReads
  <2>1. Ordered(r)
    BY <1>1, <1>4 DEF Ordered, PostponeHistory, OfType
  <2>2. EntriesOrdered(r)
    BY <1>0, <1>1, <1>4 DEF EntriesOrdered
  <2>3. UpToId(r, IF due = {} THEN lastId ELSE lastId + 1)
    BY <1>0, <1>1, <1>3, <1>4 DEF UpToId, AnyIds
  <2>4. \A X : SentIn(r, X)
    BY <1>1, <1>4 DEF SentIn
  <2>5. Sound(r)
    BY <1>1, <2>1, <2>2 DEF Sound
  <2> QED
    BY <1>1, <1>4, <2>3, <2>4, <2>5 DEF r
<1>5. CASE sendReads
  <2>1. ASSUME NEW c \in Chats
        PROVE  /\ \A id \in r.sent[c] \union r.postponed[c] : id.chat = c
               /\ \A id \in r.postponed[c] : id.type = "History"
               /\ PostponeHistory(r.sent[c]) => OfType(r.sent[c], "History") = {}
               /\ r.postponed[c] # {} => PostponeHistory(r.sent[c])
    <3>1. OfType(r.sent[c], "Delete") = OfType(q.sent[c], "Delete")
          /\ OfType(r.sent[c], "History") = OfType(q.sent[c], "History")
      BY <1>1, <1>2, <1>5 DEF OfType
    <3> QED
      BY <1>0, <1>1, <1>5, <3>1 DEF Ordered, PostponeHistory
  <2>2. Ordered(r)
    BY <2>1 DEF Ordered
  <2>3. ASSUME NEW c \in r.entry PROVE PostponeEntry(r.sent[c])
    <3>1. c \in Chats
      BY <1>1 DEF Queues
    <3>2. CASE c \in q.entry
      <4>1. PostponeEntry(q.sent[c])
        BY <1>0, <3>2 DEF EntriesOrdered
      <4> QED
        BY <1>1, <1>5, <3>1, <4>1 DEF PostponeEntry, OfType
    <3>3. CASE c \in due
      <4>1. PICK id \in R : id.chat = c /\ id.type = "ReadInbox"
        BY <1>2, <3>3
      <4>2. id \in r.sent[c]
        BY <1>1, <1>5, <3>1, <4>1
      <4> QED
        BY <4>1, <4>2 DEF PostponeEntry, OfType
    <3> QED
      BY <1>1, <1>5, <2>3, <3>2, <3>3
  <2>4. EntriesOrdered(r)
    BY <1>0, <1>1, <1>5, <2>3 DEF EntriesOrdered
  <2>5. UpToId(r, IF due = {} THEN lastId ELSE lastId + 1)
    BY <1>0, <1>1, <1>2, <1>3, <1>5 DEF UpToId, AnyIds
  <2>6. \A X : SentIn(q, X) => SentIn(r, X)
    BY <1>1, <1>5 DEF SentIn
  <2>7. Sound(r)
    BY <1>1, <2>2, <2>4 DEF Sound
  <2> QED
    BY <1>1, <1>5, <2>5, <2>6, <2>7 DEF r, R
<1> QED
  BY <1>0, <1>4, <1>5

LEMMA SendReadsKeeps ==
  ASSUME NEW q, Sound(q), UpToId(q, lastId), ReadTypes, NEW due \in SUBSET Chats,
         NEW will \in [Chats -> Nat], NEW sent \in [Chats -> Nat], NEW done \in SUBSET Chats,
         NEW till \in [Chats -> Nat], Later(will, sent), SendReadRequests(q, due, will, sent, done)
  PROVE  LET r == ReadsAdded(q, due, will) IN
         /\ Sound(r) /\ r.pending = q.pending /\ r.requested = q.requested /\ UpToId(r, lastId')
         /\ \A X : SentIn(q, X) => SentIn(r, X)
         /\ q.alive \subseteq r.alive /\ endless' = endless /\ lastId' \in Nat
         /\ \A c \in Chats : q.postponed[c] \subseteq r.postponed[c] \union forgotten'
         /\ q.entry \subseteq r.entry \union orphans'
         /\ forgotten \subseteq forgotten' /\ orphans \subseteq orphans'
         /\ willRead' \in [Chats -> Nat] /\ sentRead' \in [Chats -> Nat] /\ sentDone' \subseteq Chats
         /\ timer' \in BOOLEAN /\ cleared' \in BOOLEAN
         /\ timer' \/ \A c \in Chats : willRead'[c] = 0
         /\ Later(willRead', sentRead')
         /\ \A asked : Comes(q.alive, sent, done, asked) => Comes(r.alive, sentRead', sentDone', asked)
         /\ cleared \/ NewReads(q.alive, will, sent, till)
              => cleared' \/ NewReads(r.alive, willRead', sentRead', till)
<1> DEFINE r == ReadsAdded(q, due, will)
<1>0. lastId \in Nat /\ sendReads \in BOOLEAN /\ q.alive \subseteq AnyIds /\ cleared \in BOOLEAN
  BY DEF ReadTypes, Sound, Queues
<1>1. /\ Sound(r) /\ r.pending = q.pending /\ r.requested = q.requested
      /\ UpToId(r, IF due = {} THEN lastId ELSE lastId + 1)
      /\ \A X : SentIn(q, X) => SentIn(r, X)
      /\ q.alive \subseteq r.alive
      /\ ~sendReads => r.alive = q.alive
      /\ sendReads => /\ r.alive = q.alive \union NewReadings(due, will)
                      /\ r.postponed = q.postponed /\ q.entry \subseteq r.entry
  BY ReadsAddedKeeps
<1> HIDE DEF r
<1>2. CASE sendReads
  <2> USE DEF SendReadRequests
  <2>1. /\ lastId' = (IF due = {} THEN lastId ELSE lastId + 1)
        /\ willRead' = [c \in Chats |-> IF c \in due THEN 0 ELSE will[c]]
        /\ sentRead' = [c \in Chats |-> IF c \in due THEN will[c] ELSE sent[c]]
        /\ sentDone' = done \ due /\ timer' = ReadLater(due, will) /\ \A c \in due : will[c] # 0
        /\ forgotten' = forgotten /\ orphans' = orphans /\ endless' = endless /\ cleared' = cleared
    BY <1>2 DEF historyVars
  <2> HIDE DEF SendReadRequests
  <2>2. willRead' \in [Chats -> Nat] /\ sentRead' \in [Chats -> Nat] /\ lastId' \in Nat
    BY <1>0, <2>1
  <2>3. timer' \in BOOLEAN /\ (timer' \/ \A c \in Chats : willRead'[c] = 0)
    BY <2>1 DEF ReadLater
  <2>4. Later(willRead', sentRead')
    BY <2>1 DEF Later
  <2>5. ASSUME NEW asked, Comes(q.alive, sent, done, asked), NEW c \in Chats, sentRead'[c] # 0
        PROVE  \/ \E id \in OfType(r.alive, "ReadInbox") : id.chat = c /\ id.till = sentRead'[c]
               \/ c \in sentDone' /\ c \in asked
    <3>1. CASE c \in due
      <4> DEFINE id == NewId(c, "ReadInbox", will[c])
      <4>1. id \in r.alive
        BY <1>1, <1>2, <3>1 DEF NewReadings
      <4>2. id.type = "ReadInbox" /\ id.chat = c /\ id.till = sentRead'[c]
        BY <2>1, <3>1 DEF NewId
      <4> QED
        BY <4>1, <4>2 DEF OfType
    <3>2. CASE c \notin due
      <4>1. sentRead'[c] = sent[c] /\ (c \in done => c \in sentDone')
        BY <2>1, <3>2
      <4>2. OfType(q.alive, "ReadInbox") \subseteq OfType(r.alive, "ReadInbox")
        BY <1>1 DEF OfType
      <4> QED
        BY <2>5, <4>1, <4>2 DEF Comes
    <3> QED
      BY <3>1, <3>2
  <2>6. ASSUME NewReads(q.alive, will, sent, till), NEW id \in OfType(r.alive, "ReadInbox")
        PROVE  /\ sentRead'[id.chat] # 0 => sentRead'[id.chat] >= id.till
               /\ sentRead'[id.chat] = 0 => till[id.chat] >= id.till
               /\ willRead'[id.chat] # 0 => willRead'[id.chat] > id.till
    <3>1. CASE id \in OfType(q.alive, "ReadInbox")
      <4>1. /\ id.chat \in Chats /\ id.till \in Nat
            /\ sent[id.chat] # 0 => sent[id.chat] >= id.till
            /\ sent[id.chat] = 0 => till[id.chat] >= id.till
            /\ will[id.chat] # 0 => will[id.chat] > id.till
        BY <1>0, <2>6, <3>1 DEF NewReads, OfType, AnyIds
      <4> QED
        BY <2>1, <4>1
    <3>2. CASE id \in NewReadings(due, will)
      <4>1. PICK c \in due : id = NewId(c, "ReadInbox", will[c])
        BY <3>2 DEF NewReadings
      <4>2. id.chat = c /\ id.till = will[c] /\ c \in Chats
        BY <4>1 DEF NewId
      <4> QED
        BY <2>1, <4>2
    <3> QED
      BY <1>1, <1>2, <2>6, <3>1, <3>2 DEF OfType
  <2>7. \A asked : Comes(q.alive, sent, done, asked) => Comes(r.alive, sentRead', sentDone', asked)
    BY <2>5 DEF Comes
  <2>8. cleared \/ NewReads(q.alive, will, sent, till) => cleared' \/ NewReads(r.alive, willRead', sentRead', till)
    BY <2>1, <2>6 DEF NewReads
  <2>9. UpToId(r, lastId') /\ sentDone' \subseteq Chats
    BY <1>1, <2>1
  <2> QED
    BY <1>0, <1>1, <1>2, <2>1, <2>2, <2>3, <2>4, <2>7, <2>8, <2>9, Zenon DEF r
<1>3. CASE ~sendReads
  <2>1. /\ due = {} /\ willRead' = Zero /\ sentRead' = Zero /\ sentDone' = {}
        /\ forgotten' = forgotten \union UNION {q.postponed[c] : c \in Chats}
        /\ orphans' = orphans \union q.entry /\ cleared' = TRUE
        /\ timer' = timer /\ lastId' = lastId /\ endless' = endless
    BY <1>3 DEF SendReadRequests
  <2>2. Zero \in [Chats -> Nat] /\ \A c \in Chats : Zero[c] = 0
    BY DEF Zero
  <2>3. \A c \in Chats : q.postponed[c] \subseteq forgotten'
    BY <2>1
  <2>4. Later(willRead', sentRead') /\ \A asked : Comes(r.alive, sentRead', sentDone', asked)
    BY <2>1, <2>2 DEF Later, Comes
  <2>5. UpToId(r, lastId') /\ timer' \in BOOLEAN
    BY <1>1, <2>1 DEF ReadTypes
  <2>6. /\ lastId' \in Nat /\ \A c \in Chats : q.postponed[c] \subseteq r.postponed[c] \union forgotten'
        /\ q.entry \subseteq r.entry \union orphans' /\ forgotten \subseteq forgotten' /\ orphans \subseteq orphans'
        /\ willRead' \in [Chats -> Nat] /\ sentRead' \in [Chats -> Nat] /\ sentDone' \subseteq Chats
        /\ cleared' \in BOOLEAN /\ cleared' /\ \A c \in Chats : willRead'[c] = 0
    BY <1>0, <2>1, <2>2, <2>3
  <2> QED
    BY <1>1, <2>1, <2>4, <2>5, <2>6, Zenon DEF r
<1> QED
  BY <1>0, <1>2, <1>3

-----------------------------------------------------------------------------
(* Actions *)

LEMMA ArrivedKeeps ==
  ASSUME IInv, NEW id
  PROVE  LET a == Arrived(id) IN
         /\ Sound(a) /\ UpToId(a, lastId) /\ SentIn(a, endless \union {id})
         /\ a.alive = queue.alive \ {id} /\ a.postponed = queue.postponed /\ a.entry = queue.entry
         /\ a.pending = queue.pending /\ a.requested = queue.requested
<1> DEFINE a == Arrived(id)
<1>1. /\ a \in Queues /\ a.alive = queue.alive \ {id} /\ a.sent = queue.sent /\ a.postponed = queue.postponed
      /\ a.entry = queue.entry /\ a.pending = queue.pending /\ a.requested = queue.requested /\ a.call = queue.call
  BY ArrivedFields DEF Arrived, IInv, Sound
<1> HIDE DEF a
<1>2. Ordered(a) /\ EntriesOrdered(a) /\ UpToId(a, lastId) /\ SentIn(a, endless \union {id})
  BY <1>1 DEF IInv, Sound, Ordered, EntriesOrdered, UpToId, SentIn
<1> QED
  BY <1>1, <1>2 DEF Sound, a

\* The readings, when an action neither reads nor answers a reading.
LEMMA ReadingKept ==
  ASSUME IInv, UNCHANGED <<willRead, sentRead, sentDone, timer, readTill, cleared>>,
         OfType(queue'.alive, "ReadInbox") = OfType(queue.alive, "ReadInbox"), Asked \subseteq Asked'
  PROVE  Reading'
  BY DEF IInv, Reading, Comes, NewReads, Later

LEMMA TypesKept ==
  ASSUME IInv, UNCHANGED <<willRead, sentRead, sentDone, timer, readTill, sendReads, cleared, entries>>,
         lastId' \in Nat
  PROVE  ReadTypes'
  BY DEF IInv, ReadTypes

LEMMA SendRequestKeeps ==
  ASSUME IInv, NEW c \in Chats, NEW type \in Types \ {"ReadInbox"}, SendRequest(c, type) PROVE IInv'
<1> DEFINE id == NewId(c, type, 0)
<1>0. Sound(queue) /\ lastId \in Nat /\ UpToId(queue, lastId) /\ SentIn(queue, endless)
  BY DEF IInv, ReadTypes
<1>1. id \in AnyIds /\ id.n = lastId + 1 /\ id.type = type /\ id.chat = c
  BY <1>0 DEF NewId, AnyIds
<1>2. /\ lastId' = lastId + 1 /\ queue' = Added(queue, id)
      /\ wanted' = IF type = "History" THEN wanted \union {id} ELSE wanted
      /\ UNCHANGED <<entries, willRead, sentRead, sentDone, timer, readTill, sendReads,
                     forgotten, orphans, endless, cleared>>
  BY DEF SendRequest, readVars, historyVars
<1> HIDE DEF id
<1>3. /\ Sound(queue') /\ queue'.pending = queue.pending /\ queue'.requested = queue.requested
      /\ queue.entry \subseteq queue'.entry
      /\ \A n \in Nat : UpToId(queue, n) /\ id.n =< n => UpToId(queue', n)
      /\ \A X : SentIn(queue, X) => SentIn(queue', X)
      /\ \A x \in queue.alive : x \in queue'.alive \/ (x.type = "History" /\ x \in queue'.postponed[x.chat])
      /\ \A e \in Chats : queue.postponed[e] \subseteq queue'.postponed[e]
      /\ queue'.alive \subseteq queue.alive \union {id}
      /\ id.type = "History" => id \in queue'.alive \/ id \in queue'.postponed[id.chat]
  BY <1>0, <1>1, <1>2, AddedKeeps
<1>4. UpToId(queue', lastId') /\ SentIn(queue', endless') /\ lastId' \in Nat
  <2>1. \A c1 \in Chats : \A x \in queue.sent[c1] \union queue.postponed[c1] \union queue.alive : x.n \in Nat
    BY <1>0 DEF Sound, Queues, AnyIds
  <2>2. UpToId(queue, lastId + 1)
    BY <1>0, <2>1 DEF UpToId, Sound, Queues, AnyIds
  <2> QED
    BY <1>0, <1>1, <1>2, <1>3, <2>2
<1>5. WantedComes'
  <2>1. ASSUME NEW x \in wanted'
        PROVE  /\ x \in AnyIds /\ x.type = "History"
               /\ \/ x \in queue'.alive \/ x \in queue'.postponed[x.chat] \/ x \in forgotten'
    <3>1. CASE x \in wanted
      BY <1>2, <1>3, <3>1 DEF IInv, WantedComes, AnyIds
    <3>2. CASE x \notin wanted
      BY <1>1, <1>2, <1>3, <2>1, <3>2
    <3> QED
      BY <3>1, <3>2
  <2> QED
    BY <2>1 DEF WantedComes
<1>6. RequestedComes'
  BY <1>2, <1>3 DEF IInv, RequestedComes
<1>7. Reading'
  <2>1. OfType(queue'.alive, "ReadInbox") = OfType(queue.alive, "ReadInbox")
    BY <1>1, <1>3 DEF OfType
  <2> QED
    BY <1>2, <1>3, <2>1, ReadingKept DEF Asked
<1> QED
  BY <1>2, <1>3, <1>4, <1>5, <1>6, <1>7, TypesKept DEF IInv

\* finishSentRequest at the end of an action, after which the entry may be asked for: q is
\* the queue before it, which may only have lost id.
LEMMA FinishKeeps ==
  ASSUME IInv, NEW q, Sound(q), UpToId(q, lastId'), lastId' \in Nat, NEW id \in AnyIds,
         SentIn(q, endless \union {id}), queue' \in {Finished(q, id), AskedFor(Finished(q, id), id.chat)},
         UNCHANGED <<entries, willRead, sentRead, sentDone, timer, readTill, sendReads,
                     forgotten, orphans, endless, cleared>>,
         q.requested = queue.requested, queue.entry \subseteq q.entry, queue.pending \subseteq q.pending,
         OfType(q.alive, "ReadInbox") = OfType(queue.alive, "ReadInbox"), id.type # "ReadInbox",
         wanted' \subseteq wanted \ {id},
         \A x \in wanted' : x \in queue.alive => x \in q.alive \/ x \in q.postponed[x.chat],
         \A x \in wanted' : x \in queue.postponed[x.chat] => x \in q.postponed[x.chat]
  PROVE  IInv'
<1> DEFINE f == Finished(q, id)
<1>1. /\ Sound(f) /\ f.pending \union f.requested = q.pending \union q.requested
      /\ \A c \in f.requested : c \in q.requested /\ (c \in q.entry => c \in f.entry)
      /\ \A n \in Nat : UpToId(q, n) => UpToId(f, n)
      /\ \A X : SentIn(q, X \union {id}) => SentIn(f, X)
      /\ \A x \in q.alive : x = id \/ x \in f.alive
      /\ \A x \in f.alive : x \in q.alive \/ x.type = "History"
      /\ \A c \in Chats : \A x \in q.postponed[c] : x \in f.postponed[c] \/ x \in f.alive
  BY FinishedKeeps
<1> HIDE DEF f
<1>2. UpToId(f, lastId') /\ SentIn(f, endless')
  BY <1>1
<1>3. /\ Sound(queue') /\ UpToId(queue', lastId') /\ SentIn(queue', endless')
      /\ queue'.alive = f.alive /\ queue'.postponed = f.postponed
      /\ queue'.entry = f.entry /\ queue'.requested = f.requested /\ f.pending \subseteq queue'.pending
  <2>1. CASE queue' = f
    BY <1>1, <1>2, <2>1
  <2>2. CASE queue' = AskedFor(f, id.chat)
    <3>1. id.chat \in Chats /\ f \in Queues
      BY <1>1 DEF AnyIds, Sound
    <3>2. /\ queue'.alive = f.alive /\ queue'.sent = f.sent /\ queue'.postponed = f.postponed
          /\ queue'.entry = f.entry /\ queue'.requested = f.requested /\ f.pending \subseteq queue'.pending
      BY <2>2, <3>1, AskedForFields
    <3>3. Sound(queue')
      BY <1>1, <2>2, <3>1, AskedForKeeps
    <3> QED
      BY <1>2, <3>2, <3>3 DEF UpToId, SentIn
  <2> QED
    BY <2>1, <2>2 DEF f
<1>4. WantedComes'
  <2>1. ASSUME NEW x \in wanted'
        PROVE  /\ x \in AnyIds /\ x.type = "History"
               /\ \/ x \in queue'.alive \/ x \in queue'.postponed[x.chat] \/ x \in forgotten'
    <3>1. /\ x \in AnyIds /\ x.type = "History" /\ x # id /\ x.chat \in Chats
          /\ \/ x \in queue.alive \/ x \in queue.postponed[x.chat] \/ x \in forgotten
      BY DEF IInv, WantedComes, AnyIds
    <3>2. x \in q.alive \/ x \in q.postponed[x.chat] \/ x \in forgotten
      BY <3>1
    <3> QED
      BY <1>1, <1>3, <3>1, <3>2
  <2> QED
    BY <2>1 DEF WantedComes
<1>5. RequestedComes'
  BY <1>1, <1>3 DEF IInv, RequestedComes
<1>6. Reading'
  <2>1. OfType(queue'.alive, "ReadInbox") = OfType(queue.alive, "ReadInbox")
    BY <1>1, <1>3 DEF OfType
  <2>2. Asked \subseteq Asked'
    BY <1>1, <1>3 DEF Asked
  <2> QED
    BY <2>1, <2>2, ReadingKept
<1> QED
  BY <1>3, <1>4, <1>5, <1>6, TypesKept DEF IInv

LEMMA CancelRequestKeeps ==
  ASSUME IInv, NEW id \in wanted, CancelRequest(id) PROVE IInv'
<1> DEFINE q == [queue EXCEPT !.postponed[id.chat] = @ \ {id}]
<1>0. /\ Sound(queue) /\ lastId \in Nat /\ UpToId(queue, lastId) /\ SentIn(queue, endless)
      /\ id \in AnyIds /\ id.type = "History" /\ id.chat \in Chats
  BY DEF IInv, ReadTypes, WantedComes, AnyIds
<1>1. /\ q \in Queues /\ q.alive = queue.alive /\ q.sent = queue.sent /\ q.entry = queue.entry
      /\ q.postponed = [queue.postponed EXCEPT ![id.chat] = @ \ {id}]
      /\ q.pending = queue.pending /\ q.requested = queue.requested /\ q.call = queue.call
  BY <1>0 DEF Sound, Queues
<1>2. queue' = Finished(q, id) /\ wanted' = wanted \ {id} /\ lastId' = lastId
      /\ UNCHANGED <<entries, willRead, sentRead, sentDone, timer, readTill, sendReads,
                     forgotten, orphans, endless, cleared>>
  BY DEF CancelRequest, readVars, historyVars
<1> HIDE DEF q
<1>3. queue.postponed \in [Chats -> SUBSET AnyIds]
  BY <1>0 DEF Sound, Queues
<1>4. Ordered(q) /\ EntriesOrdered(q)
  BY <1>0, <1>1, <1>3 DEF Sound, Ordered, EntriesOrdered
<1>5. UpToId(q, lastId') /\ SentIn(q, endless \union {id})
  BY <1>0, <1>1, <1>2, <1>3 DEF UpToId, SentIn
<1>6. \A x \in wanted' : x \in queue.postponed[x.chat] => x \in q.postponed[x.chat]
  <2>1. \A x \in wanted' : x.chat \in Chats /\ x # id
    BY <1>2 DEF IInv, WantedComes, AnyIds
  <2> QED
    BY <1>0, <1>1, <1>3, <2>1
<1> QED
  BY <1>0, <1>1, <1>2, <1>4, <1>5, <1>6, FinishKeeps DEF Sound

LEMMA AnsweredKeeps ==
  ASSUME IInv, NEW id \in queue.alive, Answered(id) \/ Deleted(id) PROVE IInv'
<1> DEFINE q == Arrived(id)
<1>0. lastId \in Nat /\ id \in AnyIds
  BY DEF IInv, ReadTypes, Sound, Queues
<1>1. /\ Sound(q) /\ UpToId(q, lastId) /\ SentIn(q, endless \union {id})
      /\ q.alive = queue.alive \ {id} /\ q.postponed = queue.postponed /\ q.entry = queue.entry
      /\ q.pending = queue.pending /\ q.requested = queue.requested
  BY ArrivedKeeps
<1> HIDE DEF q
<1>2. /\ queue' \in {Finished(q, id), AskedFor(Finished(q, id), id.chat)} /\ lastId' = lastId
      /\ UNCHANGED <<entries, willRead, sentRead, sentDone, timer, readTill, sendReads,
                     forgotten, orphans, endless, cleared>>
  BY DEF Answered, Deleted, readVars, historyVars, q
<1>3. wanted' \subseteq wanted \ {id} /\ id.type # "ReadInbox"
  BY DEF Answered, Deleted, IInv, WantedComes
<1>4. OfType(q.alive, "ReadInbox") = OfType(queue.alive, "ReadInbox")
  BY <1>1, <1>3 DEF OfType
<1>5. \A x \in wanted' : x \in queue.alive => x \in q.alive \/ x \in q.postponed[x.chat]
  BY <1>1, <1>3
<1> QED
  BY <1>0, <1>1, <1>2, <1>3, <1>4, <1>5, FinishKeeps

LEMMA DeletedSomeKeeps ==
  ASSUME IInv, NEW id \in queue.alive, DeletedSome(id) PROVE IInv'
<1> DEFINE a == Arrived(id)  new == NewId(id.chat, "Delete", 0)  q == Added(a, new)
<1>0. lastId \in Nat /\ id \in AnyIds /\ id.chat \in Chats
  BY DEF IInv, ReadTypes, Sound, Queues, AnyIds
<1>1. new \in AnyIds /\ new.n = lastId + 1 /\ new.type = "Delete"
  BY <1>0 DEF NewId, AnyIds, Types
<1>2. /\ Sound(a) /\ UpToId(a, lastId) /\ SentIn(a, endless \union {id})
      /\ a.alive = queue.alive \ {id} /\ a.postponed = queue.postponed /\ a.entry = queue.entry
      /\ a.pending = queue.pending /\ a.requested = queue.requested
  BY ArrivedKeeps
<1>3. /\ queue' = Finished(q, id) /\ lastId' = lastId + 1 /\ wanted' = wanted /\ id.type = "Delete"
      /\ UNCHANGED <<entries, willRead, sentRead, sentDone, timer, readTill, sendReads,
                     forgotten, orphans, endless, cleared>>
  BY DEF DeletedSome, readVars, historyVars
<1> HIDE DEF a, new
<1>4. /\ Sound(q) /\ q.pending = a.pending /\ q.requested = a.requested /\ a.entry \subseteq q.entry
      /\ \A n \in Nat : UpToId(a, n) /\ new.n =< n => UpToId(q, n)
      /\ \A X : SentIn(a, X) => SentIn(q, X)
      /\ \A x \in a.alive : x \in q.alive \/ (x.type = "History" /\ x \in q.postponed[x.chat])
      /\ \A c \in Chats : a.postponed[c] \subseteq q.postponed[c]
      /\ q.alive \subseteq a.alive \union {new}
  BY <1>1, <1>2, AddedKeeps
<1> HIDE DEF q
<1>5. UpToId(q, lastId') /\ SentIn(q, endless \union {id}) /\ lastId' \in Nat
  <2>1. UpToId(a, lastId + 1)
    BY <1>0, <1>2 DEF UpToId, Sound, Queues, AnyIds
  <2> QED
    BY <1>0, <1>1, <1>2, <1>3, <1>4, <2>1
<1>6. OfType(q.alive, "ReadInbox") = OfType(queue.alive, "ReadInbox")
  BY <1>1, <1>2, <1>3, <1>4 DEF OfType
<1>7. \A x \in wanted' : x \in AnyIds /\ x.type = "History" /\ x.chat \in Chats /\ x # id
  BY <1>3 DEF IInv, WantedComes, AnyIds
<1>8. \A x \in wanted' : /\ x \in queue.alive => x \in q.alive \/ x \in q.postponed[x.chat]
                         /\ x \in queue.postponed[x.chat] => x \in q.postponed[x.chat]
  BY <1>2, <1>4, <1>7
<1>9. wanted' \subseteq wanted \ {id}
  BY <1>3, <1>7
<1> QED
  BY <1>0, <1>2, <1>3, <1>4, <1>5, <1>6, <1>8, <1>9, FinishKeeps

LEMMA ChannelDeletedKeeps ==
  ASSUME IInv, NEW id \in queue.alive, ChannelDeleted(id) PROVE IInv'
<1>1. /\ Sound(queue') /\ UpToId(queue', lastId) /\ SentIn(queue', endless \union {id})
      /\ queue'.alive = queue.alive \ {id} /\ queue'.postponed = queue.postponed /\ queue'.entry = queue.entry
      /\ queue'.pending = queue.pending /\ queue'.requested = queue.requested
  BY ArrivedKeeps DEF ChannelDeleted
<1>2. /\ endless' = endless \union {id} /\ lastId' = lastId /\ wanted' = wanted /\ id.type = "Delete"
      /\ UNCHANGED <<entries, willRead, sentRead, sentDone, timer, readTill, sendReads,
                     forgotten, orphans, cleared>>
  BY DEF ChannelDeleted, readVars
<1>3. WantedComes' /\ RequestedComes'
  BY <1>1, <1>2 DEF IInv, WantedComes, RequestedComes
<1>4. Reading'
  <2>1. OfType(queue'.alive, "ReadInbox") = OfType(queue.alive, "ReadInbox")
    BY <1>1, <1>2 DEF OfType
  <2> QED
    BY <1>1, <1>2, <2>1, ReadingKept DEF Asked
<1>5. lastId \in Nat
  BY DEF IInv, ReadTypes
<1> QED
  BY <1>1, <1>2, <1>3, <1>4, <1>5, TypesKept DEF IInv

LEMMA RequestDialogEntryKeeps ==
  ASSUME IInv, NEW c \in Chats, RequestDialogEntry(c) PROVE IInv'
<1>1. queue \in Queues /\ Sound(queue) /\ lastId \in Nat
  BY DEF IInv, Sound, ReadTypes
<1>2. /\ queue' = AskedFor(queue, c) /\ lastId' = lastId /\ wanted' = wanted
      /\ UNCHANGED <<entries, willRead, sentRead, sentDone, timer, readTill, sendReads,
                     forgotten, orphans, endless, cleared>>
  BY DEF RequestDialogEntry, readVars, historyVars
<1>3. /\ queue'.alive = queue.alive /\ queue'.sent = queue.sent /\ queue'.postponed = queue.postponed
      /\ queue'.entry = queue.entry /\ queue'.requested = queue.requested /\ queue.pending \subseteq queue'.pending
  BY <1>1, <1>2, AskedForFields
<1>4. Sound(queue')
  BY <1>1, <1>2, AskedForKeeps
<1>5. /\ UpToId(queue', lastId') /\ SentIn(queue', endless') /\ WantedComes' /\ RequestedComes'
  BY <1>2, <1>3 DEF IInv, UpToId, SentIn, WantedComes, RequestedComes
<1>6. Reading'
  BY <1>2, <1>3, ReadingKept DEF Asked
<1> QED
  BY <1>1, <1>2, <1>4, <1>5, <1>6, TypesKept DEF IInv

LEMMA SendDialogRequestsKeeps ==
  ASSUME IInv, SendDialogRequests PROVE IInv'
<1> DEFINE put == {c \in queue.pending : PostponeEntry(queue.sent[c])}
           peers == {c \in queue.pending : ~PostponeEntry(queue.sent[c])}
<1>0. queue \in Queues /\ Ordered(queue) /\ EntriesOrdered(queue) /\ lastId \in Nat
      /\ entries \in [1..MaxEntries -> SUBSET Chats]
  BY DEF IInv, Sound, ReadTypes
<1>1. /\ queue' \in Queues /\ queue'.alive = queue.alive /\ queue'.sent = queue.sent
      /\ queue'.postponed = queue.postponed /\ queue'.entry = queue.entry \union put
      /\ queue'.requested = queue.requested \union queue.pending /\ queue'.pending = {}
  <2>1. /\ put \in SUBSET Chats /\ queue.entry \union put \in SUBSET Chats
        /\ queue.requested \union queue.pending \in SUBSET Chats
    BY <1>0 DEF Queues
  <2>2. queue' = [queue EXCEPT !.entry = @ \union put, !.requested = @ \union queue.pending,
                               !.pending = {}, !.call = FALSE]
    BY DEF SendDialogRequests, EntriesSent
  <2> HIDE DEF put
  <2> QED
    BY <1>0, <2>1, <2>2 DEF Queues
<1>2. /\ wanted' = wanted /\ lastId' = lastId
      /\ UNCHANGED <<willRead, sentRead, sentDone, timer, readTill, sendReads,
                     forgotten, orphans, endless, cleared>>
  BY DEF SendDialogRequests, readVars, historyVars
<1>3. /\ entries' \in [1..MaxEntries -> SUBSET Chats]
      /\ \A i \in 1..MaxEntries : entries[i] \subseteq entries'[i]
      /\ \A c \in peers : \E i \in 1..MaxEntries : c \in entries'[i]
  <2>1. CASE peers = {}
    BY <1>0, <2>1 DEF SendDialogRequests
  <2>2. CASE peers # {}
    <3>1. PICK i \in 1..MaxEntries : entries[i] = {} /\ entries' = [entries EXCEPT ![i] = peers]
      BY <2>2 DEF SendDialogRequests
    <3>2. peers \in SUBSET Chats
      BY <1>0 DEF Queues
    <3> QED
      BY <1>0, <3>1, <3>2
  <2> QED
    BY <2>1, <2>2
<1>4. EntriesOrdered(queue')
  <2>1. \A c \in put : PostponeEntry(queue.sent[c]) /\ c \in queue.pending
    OBVIOUS
  <2> HIDE DEF put
  <2> QED
    BY <1>0, <1>1, <2>1 DEF EntriesOrdered
<1>5. /\ Ordered(queue') /\ UpToId(queue', lastId') /\ SentIn(queue', endless') /\ WantedComes'
  BY <1>0, <1>1, <1>2 DEF IInv, Ordered, UpToId, SentIn, WantedComes
<1>6. RequestedComes'
  <2>1. ASSUME NEW c \in queue'.requested
        PROVE  c \in orphans' \/ c \in queue'.entry \/ \E i \in 1..MaxEntries : c \in entries'[i]
    <3>1. CASE c \in queue.requested
      BY <1>1, <1>2, <1>3, <3>1 DEF IInv, RequestedComes
    <3>2. CASE c \in queue.pending
      BY <1>1, <1>3, <3>2
    <3> QED
      BY <1>1, <2>1, <3>1, <3>2
  <2> QED
    BY <2>1 DEF RequestedComes
<1>7. Reading'
  <2>1. Asked \subseteq Asked'
    BY <1>1 DEF Asked
  <2> QED
    BY <1>1, <1>2, <2>1, ReadingKept
<1>8. ReadTypes'
  BY <1>2, <1>3 DEF IInv, ReadTypes
<1> QED
  BY <1>1, <1>4, <1>5, <1>6, <1>7, <1>8 DEF IInv, Sound

LEMMA EntriesAppliedKeeps ==
  ASSUME IInv, NEW i \in 1..MaxEntries, NEW r \in entries[i], NEW x \in 0..MaxTill[r], EntriesApplied(i, r, x)
  PROVE  IInv'
<1> DEFINE P == Appliable(entries[i])
           R == {c \in P \intersect sentDone : sentRead[c] # 0}
           At(c) == IF c \in R /\ sentRead[c] > readTill[c] THEN sentRead[c] ELSE readTill[c]
<1>0. queue \in Queues /\ Ordered(queue) /\ EntriesOrdered(queue) /\ ReadTypes
  BY DEF IInv, Sound
<1>1. /\ queue' \in Queues /\ queue'.alive = queue.alive /\ queue'.sent = queue.sent
      /\ queue'.postponed = queue.postponed /\ queue'.entry = queue.entry /\ queue'.call = queue.call
      /\ queue'.requested = queue.requested \ P /\ queue'.pending = queue.pending \ P
  BY <1>0 DEF EntriesApplied, Queues
<1>2. /\ entries' = [entries EXCEPT ![i] = {}]
      /\ readTill' = [c \in Chats |-> IF c = r /\ x > At(c) THEN x ELSE At(c)]
      /\ sentRead' = [c \in Chats |-> IF c \in R THEN 0 ELSE sentRead[c]]
      /\ wanted' = wanted /\ lastId' = lastId
      /\ UNCHANGED <<willRead, sentDone, timer, sendReads, forgotten, orphans, endless, cleared>>
  BY DEF EntriesApplied, historyVars
<1>3. P = entries[i] \ queue.entry
  BY DEF Appliable
<1> HIDE DEF P
<1>4. \A c \in Chats : At(c) \in Nat /\ At(c) >= readTill[c] /\ (c \in R => At(c) >= sentRead[c])
  BY <1>0 DEF ReadTypes
<1>5. \A c \in Chats : c \in R <=> c \in P /\ c \in sentDone /\ sentRead[c] # 0
  OBVIOUS
<1> HIDE DEF R, At
<1>6. /\ readTill' \in [Chats -> Nat] /\ sentRead' \in [Chats -> Nat]
      /\ \A c \in Chats : readTill'[c] >= At(c)
  BY <1>0, <1>2, <1>4 DEF ReadTypes
<1>7. ReadTypes'
  BY <1>0, <1>2, <1>6 DEF ReadTypes
<1>8. Sound(queue') /\ UpToId(queue', lastId') /\ SentIn(queue', endless') /\ WantedComes'
  <2>1. EntriesOrdered(queue')
    BY <1>0, <1>1, <1>3 DEF EntriesOrdered
  <2> QED
    BY <1>0, <1>1, <1>2, <2>1 DEF IInv, Sound, Ordered, UpToId, SentIn, WantedComes
<1>9. RequestedComes'
  <2>1. ASSUME NEW c \in queue'.requested
        PROVE  c \in orphans' \/ c \in queue'.entry \/ \E j \in 1..MaxEntries : c \in entries'[j]
    <3>1. c \in orphans \/ c \in queue.entry \/ \E j \in 1..MaxEntries : c \in entries[j]
      BY <1>1 DEF IInv, RequestedComes
    <3>2. ASSUME NEW j \in 1..MaxEntries, c \in entries[j], c \notin queue.entry PROVE c \in entries'[j]
      BY <1>0, <1>1, <1>2, <1>3, <3>2 DEF ReadTypes
    <3> QED
      BY <1>1, <1>2, <3>1, <3>2
  <2> QED
    BY <2>1 DEF RequestedComes
<1>10. Reading'
  <2>1. Comes(queue'.alive, sentRead', sentDone', Asked')
    <3>1. ASSUME NEW c \in Chats, sentRead'[c] # 0
          PROVE  \/ \E id \in OfType(queue'.alive, "ReadInbox") : id.chat = c /\ id.till = sentRead'[c]
                 \/ c \in sentDone' /\ c \in Asked'
      <4>1. c \notin R /\ sentRead'[c] = sentRead[c] /\ sentRead[c] # 0
        BY <1>2, <3>1
      <4>2. \/ \E id \in OfType(queue.alive, "ReadInbox") : id.chat = c /\ id.till = sentRead[c]
            \/ c \in sentDone /\ c \in Asked
        BY <4>1 DEF IInv, Reading, Comes
      <4>3. c \in sentDone => c \notin P
        BY <1>5, <4>1
      <4> QED
        BY <1>1, <1>2, <4>1, <4>2, <4>3 DEF Asked
    <3> QED
      BY <3>1 DEF Comes
  <2>2. Later(willRead', sentRead')
    <3>1. ASSUME NEW c \in Chats, willRead[c] # 0 PROVE willRead[c] > sentRead'[c]
      BY <1>0, <1>2, <3>1 DEF IInv, Reading, Later, ReadTypes
    <3> QED
      BY <1>2, <3>1 DEF Later
  <2>3. ASSUME NewReads(queue.alive, willRead, sentRead, readTill), NEW id \in OfType(queue.alive, "ReadInbox")
        PROVE  /\ sentRead'[id.chat] # 0 => sentRead'[id.chat] >= id.till
               /\ sentRead'[id.chat] = 0 => readTill'[id.chat] >= id.till
               /\ willRead[id.chat] # 0 => willRead[id.chat] > id.till
    <3> DEFINE c == id.chat
    <3>1. /\ c \in Chats /\ id.till \in Nat
          /\ sentRead[c] # 0 => sentRead[c] >= id.till
          /\ sentRead[c] = 0 => readTill[c] >= id.till
          /\ willRead[c] # 0 => willRead[c] > id.till
      BY <1>0, <2>3 DEF NewReads, OfType, Queues, AnyIds
    <3>2. sentRead[c] \in Nat /\ readTill[c] \in Nat /\ readTill'[c] \in Nat
      BY <1>0, <1>6, <3>1 DEF ReadTypes
    <3>3. CASE c \in R
      BY <1>2, <1>4, <1>5, <1>6, <3>1, <3>2, <3>3
    <3>4. CASE c \notin R
      BY <1>2, <1>4, <1>6, <3>1, <3>2, <3>4
    <3> QED
      BY <3>3, <3>4
  <2>4. cleared' \/ NewReads(queue'.alive, willRead', sentRead', readTill')
    BY <1>1, <1>2, <2>3 DEF IInv, Reading, NewReads
  <2> QED
    BY <1>2, <2>1, <2>2, <2>4 DEF IInv, Reading
<1> QED
  BY <1>7, <1>8, <1>9, <1>10 DEF IInv

\* ReadNow and ReadDue.
LEMMA ReadsSentKeeps ==
  ASSUME IInv, NEW due \in SUBSET Chats, NEW will \in [Chats -> Nat], Later(will, sentRead),
         SendReadRequests(queue, due, will, sentRead, sentDone), queue' = ReadsAdded(queue, due, will),
         readTill' \in [Chats -> Nat], cleared \/ NewReads(queue.alive, will, sentRead, readTill'),
         UNCHANGED <<entries, sendReads, wanted>>
  PROVE  IInv'
<1>0. /\ Sound(queue) /\ UpToId(queue, lastId) /\ ReadTypes
      /\ sentRead \in [Chats -> Nat] /\ sentDone \in SUBSET Chats
  BY DEF IInv, ReadTypes
<1> DEFINE till == readTill'
<1>1. till \in [Chats -> Nat] /\ (cleared \/ NewReads(queue.alive, will, sentRead, till)) /\ till = readTill'
  OBVIOUS
<1> HIDE DEF till
<1>2. /\ Sound(queue') /\ queue'.pending = queue.pending /\ queue'.requested = queue.requested
      /\ UpToId(queue', lastId') /\ \A X : SentIn(queue, X) => SentIn(queue', X)
      /\ queue.alive \subseteq queue'.alive /\ endless' = endless /\ lastId' \in Nat
      /\ \A c \in Chats : queue.postponed[c] \subseteq queue'.postponed[c] \union forgotten'
      /\ queue.entry \subseteq queue'.entry \union orphans'
      /\ forgotten \subseteq forgotten' /\ orphans \subseteq orphans'
      /\ willRead' \in [Chats -> Nat] /\ sentRead' \in [Chats -> Nat] /\ sentDone' \subseteq Chats
      /\ timer' \in BOOLEAN /\ cleared' \in BOOLEAN
      /\ timer' \/ \A c \in Chats : willRead'[c] = 0
      /\ Later(willRead', sentRead')
      /\ \A asked : Comes(queue.alive, sentRead, sentDone, asked) => Comes(queue'.alive, sentRead', sentDone', asked)
      /\ cleared \/ NewReads(queue.alive, will, sentRead, till)
           => cleared' \/ NewReads(queue'.alive, willRead', sentRead', till)
  BY <1>0, <1>1, SendReadsKeeps, ZenonT(60)
<1>3. SentIn(queue', endless') /\ ReadTypes'
  BY <1>1, <1>2 DEF IInv, ReadTypes
<1>4. WantedComes'
  <2>1. ASSUME NEW id \in wanted
        PROVE  /\ id \in AnyIds /\ id.type = "History"
               /\ \/ id \in queue'.alive \/ id \in queue'.postponed[id.chat] \/ id \in forgotten'
    BY <1>2 DEF IInv, WantedComes, AnyIds
  <2> QED
    BY <2>1 DEF WantedComes
<1>5. RequestedComes'
  BY <1>2 DEF IInv, RequestedComes
<1>6. Reading'
  <2>1. Comes(queue'.alive, sentRead', sentDone', Asked)
    BY <1>2 DEF IInv, Reading
  <2>2. Asked' = Asked
    BY <1>2 DEF Asked
  <2> QED
    BY <1>1, <1>2, <2>1, <2>2 DEF Reading
<1> QED
  BY <1>2, <1>3, <1>4, <1>5, <1>6 DEF IInv

LEMMA ReadNowKeeps ==
  ASSUME IInv, NEW c \in Chats, NEW till \in 1..MaxTill[c], NEW unknown \in BOOLEAN, ReadNow(c, till, unknown)
  PROVE  IInv'
<1> DEFINE will == [willRead EXCEPT ![c] = till]
<1>0. /\ ReadTypes /\ till \in Nat /\ till > sentRead[c] /\ till > willRead[c]
      /\ till > readTill[c] \/ willRead[c] # 0
      /\ readTill' = IF unknown \/ till =< readTill[c] THEN readTill ELSE [readTill EXCEPT ![c] = till]
      /\ UNCHANGED <<entries, sendReads, wanted>>
  BY DEF ReadNow, IInv
<1>1. will \in [Chats -> Nat] /\ readTill' \in [Chats -> Nat] /\ \A e \in Chats : readTill'[e] >= readTill[e]
  BY <1>0 DEF ReadTypes
<1>2. Later(will, sentRead)
  BY <1>0 DEF IInv, Reading, Later, ReadTypes
<1>3. ASSUME NewReads(queue.alive, willRead, sentRead, readTill), NEW id \in OfType(queue.alive, "ReadInbox")
      PROVE  /\ sentRead[id.chat] # 0 => sentRead[id.chat] >= id.till
             /\ sentRead[id.chat] = 0 => readTill'[id.chat] >= id.till
             /\ will[id.chat] # 0 => will[id.chat] > id.till
  <2>1. /\ id.chat \in Chats /\ id.till \in Nat
        /\ sentRead[id.chat] # 0 => sentRead[id.chat] >= id.till
        /\ sentRead[id.chat] = 0 => readTill[id.chat] >= id.till
        /\ willRead[id.chat] # 0 => willRead[id.chat] > id.till
    BY <1>3 DEF NewReads, OfType, IInv, Sound, Queues, AnyIds
  <2>2. /\ sentRead[id.chat] \in Nat /\ readTill[id.chat] \in Nat /\ readTill'[id.chat] \in Nat
        /\ readTill'[id.chat] >= readTill[id.chat] /\ willRead[id.chat] \in Nat
    BY <1>0, <1>1, <2>1 DEF ReadTypes
  <2>3. CASE id.chat = c
    BY <1>0, <2>1, <2>2, <2>3 DEF ReadTypes
  <2>4. CASE id.chat # c
    BY <1>0, <2>1, <2>2, <2>4 DEF ReadTypes
  <2> QED
    BY <2>3, <2>4
<1>4. cleared \/ NewReads(queue.alive, will, sentRead, readTill')
  BY <1>3 DEF IInv, Reading, NewReads
<1>5. PICK due \in SUBSET Chats :
        SendReadRequests(queue, due, will, sentRead, sentDone) /\ queue' = ReadsAdded(queue, due, will)
  BY DEF ReadNow
<1> HIDE DEF will
<1> QED
  BY <1>0, <1>1, <1>2, <1>4, <1>5, ReadsSentKeeps

LEMMA ReadDueKeeps ==
  ASSUME IInv, ReadDue PROVE IInv'
<1>1. PICK due \in SUBSET Chats : /\ SendReadRequests(queue, due, willRead, sentRead, sentDone)
                                  /\ queue' = ReadsAdded(queue, due, willRead)
  BY DEF ReadDue
<1>2. /\ willRead \in [Chats -> Nat] /\ Later(willRead, sentRead) /\ readTill' = readTill
      /\ readTill' \in [Chats -> Nat] /\ UNCHANGED <<entries, sendReads, wanted>>
      /\ cleared \/ NewReads(queue.alive, willRead, sentRead, readTill')
  BY DEF ReadDue, IInv, Reading, ReadTypes
<1> QED
  BY <1>1, <1>2, ReadsSentKeeps

LEMMA ReadSoonKeeps ==
  ASSUME IInv, NEW c \in Chats, NEW till \in 1..MaxTill[c], NEW same \in BOOLEAN, ReadSoon(c, till, same)
  PROVE  IInv'
<1>0. /\ ReadTypes /\ till \in Nat /\ till > sentRead[c] /\ till > willRead[c] /\ till > readTill[c]
      /\ readTill' = [readTill EXCEPT ![c] = till]
      /\ UNCHANGED <<queue, entries, sentRead, sentDone, sendReads, wanted, forgotten, orphans, endless,
                     cleared, lastId>>
      /\ \/ willRead' = willRead /\ timer' = timer
         \/ willRead' = [willRead EXCEPT ![c] = till] /\ timer' = TRUE
  BY DEF ReadSoon, IInv, historyVars
<1>1. ReadTypes'
  BY <1>0 DEF ReadTypes
<1>2. Later(willRead', sentRead') /\ (timer' \/ \A e \in Chats : willRead'[e] = 0)
  BY <1>0 DEF IInv, Reading, Later, ReadTypes
<1>3. ASSUME NewReads(queue.alive, willRead, sentRead, readTill), NEW id \in OfType(queue.alive, "ReadInbox")
      PROVE  /\ sentRead[id.chat] # 0 => sentRead[id.chat] >= id.till
             /\ sentRead[id.chat] = 0 => readTill'[id.chat] >= id.till
             /\ willRead'[id.chat] # 0 => willRead'[id.chat] > id.till
  <2>1. /\ id.chat \in Chats /\ id.till \in Nat
        /\ sentRead[id.chat] # 0 => sentRead[id.chat] >= id.till
        /\ sentRead[id.chat] = 0 => readTill[id.chat] >= id.till
        /\ willRead[id.chat] # 0 => willRead[id.chat] > id.till
    BY <1>3 DEF NewReads, OfType, IInv, Sound, Queues, AnyIds
  <2> QED
    BY <1>0, <2>1 DEF ReadTypes
<1>4. Reading'
  BY <1>0, <1>2, <1>3 DEF IInv, Reading, Comes, NewReads, Asked
<1> QED
  BY <1>0, <1>1, <1>4 DEF IInv, WantedComes, RequestedComes

LEMMA ReadDoneKeeps ==
  ASSUME IInv, NEW id \in queue.alive, ReadDone(id) PROVE IInv'
<1> DEFINE c == id.chat
           mine == sentRead[c] = id.till
           refresh == mine /\ id.till > readTill[c]
           a == Arrived(id)
           q == IF refresh THEN AskedFor(a, c) ELSE a
           sent == IF mine /\ ~refresh THEN [sentRead EXCEPT ![c] = 0] ELSE sentRead
           done == IF mine THEN sentDone \union {c} ELSE sentDone
<1>0. /\ Sound(queue) /\ UpToId(queue, lastId) /\ ReadTypes /\ lastId \in Nat
      /\ id \in AnyIds /\ c \in Chats /\ id.n \in Nat /\ id.till \in Nat /\ id.n =< lastId
      /\ queue.alive \subseteq AnyIds
  BY DEF IInv, ReadTypes, Sound, Queues, AnyIds, UpToId
<1>1. /\ id.type = "ReadInbox" /\ readTill' = readTill /\ UNCHANGED <<entries, sendReads, wanted>>
      /\ \E due \in SUBSET Chats : /\ SendReadRequests(q, due, willRead, sent, done)
                                   /\ queue' = Finished(ReadsAdded(q, due, willRead), id)
  BY DEF ReadDone
<1>2. PICK due \in SUBSET Chats : /\ SendReadRequests(q, due, willRead, sent, done)
                                  /\ queue' = Finished(ReadsAdded(q, due, willRead), id)
  BY <1>1
<1> DEFINE r == ReadsAdded(q, due, willRead)
<1>3. /\ Sound(a) /\ UpToId(a, lastId) /\ SentIn(a, endless \union {id})
      /\ a.alive = queue.alive \ {id} /\ a.postponed = queue.postponed /\ a.entry = queue.entry
      /\ a.pending = queue.pending /\ a.requested = queue.requested
  BY ArrivedKeeps
<1> HIDE DEF a
<1>4. /\ Sound(q) /\ UpToId(q, lastId) /\ SentIn(q, endless \union {id})
      /\ q.alive = queue.alive \ {id} /\ q.postponed = queue.postponed /\ q.entry = queue.entry
      /\ queue.pending \subseteq q.pending /\ q.requested = queue.requested
      /\ refresh => c \in q.pending \union q.requested
  <2>1. CASE refresh
    <3>1. a \in Queues /\ q = AskedFor(a, c)
      BY <1>3, <2>1 DEF Sound
    <3> HIDE DEF q
    <3>2. /\ q.alive = a.alive /\ q.sent = a.sent /\ q.postponed = a.postponed
          /\ q.entry = a.entry /\ q.requested = a.requested /\ a.pending \subseteq q.pending
      BY <1>0, <3>1, AskedForFields
    <3>3. Sound(q) /\ c \in q.pending \union q.requested
      BY <1>0, <1>3, <3>1, AskedForKeeps
    <3> QED
      BY <1>3, <3>2, <3>3 DEF UpToId, SentIn
  <2>2. CASE ~refresh
    BY <1>3, <2>2
  <2> QED
    BY <2>1, <2>2
<1>5. /\ sent \in [Chats -> Nat] /\ done \in SUBSET Chats /\ sentDone \subseteq done
      /\ \A e \in Chats : sent[e] # 0 => sent[e] = sentRead[e]
      /\ \A e \in Chats : sent[e] # sentRead[e] => readTill[e] >= sentRead[e]
      /\ sentRead[c] = id.till /\ sent[c] # 0 => c \in done /\ refresh
  BY <1>0 DEF ReadTypes
<1> HIDE DEF q, sent, done
<1>6. willRead \in [Chats -> Nat] /\ sentRead \in [Chats -> Nat] /\ readTill \in [Chats -> Nat]
  BY <1>0 DEF ReadTypes
<1>7. Later(willRead, sent)
  BY <1>5, <1>6 DEF IInv, Reading, Later
<1>8. Comes(q.alive, sent, done, q.pending \union q.requested)
  <2>1. ASSUME NEW e \in Chats, sent[e] # 0
        PROVE  \/ \E x \in OfType(q.alive, "ReadInbox") : x.chat = e /\ x.till = sent[e]
               \/ e \in done /\ e \in q.pending \union q.requested
    <3>1. \/ \E x \in OfType(queue.alive, "ReadInbox") : x.chat = e /\ x.till = sent[e]
          \/ e \in sentDone /\ e \in Asked
      BY <1>5, <2>1 DEF IInv, Reading, Comes
    <3>2. ASSUME NEW x \in OfType(queue.alive, "ReadInbox"), x.chat = e, x.till = sent[e], x = id
          PROVE  e \in done /\ e \in q.pending \union q.requested
      <4>1. e = c /\ sentRead[c] = id.till
        BY <1>5, <2>1, <3>2
      <4> HIDE DEF refresh
      <4> QED
        BY <1>4, <1>5, <2>1, <4>1
    <3> QED
      BY <1>4, <1>5, <3>1, <3>2 DEF Asked, OfType
  <2> QED
    BY <2>1 DEF Comes
<1>9. cleared \/ NewReads(q.alive, willRead, sent, readTill)
  <2>1. ASSUME NewReads(queue.alive, willRead, sentRead, readTill), NEW x \in OfType(q.alive, "ReadInbox")
        PROVE  /\ sent[x.chat] # 0 => sent[x.chat] >= x.till
               /\ sent[x.chat] = 0 => readTill[x.chat] >= x.till
               /\ willRead[x.chat] # 0 => willRead[x.chat] > x.till
    <3>1. /\ x.chat \in Chats /\ x.till \in Nat
          /\ sentRead[x.chat] # 0 => sentRead[x.chat] >= x.till
          /\ sentRead[x.chat] = 0 => readTill[x.chat] >= x.till
          /\ willRead[x.chat] # 0 => willRead[x.chat] > x.till
      BY <1>0, <1>4, <2>1 DEF NewReads, OfType, AnyIds
    <3>2. sentRead[x.chat] \in Nat /\ readTill[x.chat] \in Nat
      BY <1>6, <3>1
    <3> QED
      BY <1>5, <3>1, <3>2
  <2> QED
    BY <2>1 DEF IInv, Reading, NewReads
<1>10. /\ Sound(r) /\ r.pending = q.pending /\ r.requested = q.requested /\ UpToId(r, lastId')
       /\ \A X : SentIn(q, X) => SentIn(r, X)
       /\ q.alive \subseteq r.alive /\ endless' = endless /\ lastId' \in Nat
       /\ \A e \in Chats : q.postponed[e] \subseteq r.postponed[e] \union forgotten'
       /\ q.entry \subseteq r.entry \union orphans'
       /\ forgotten \subseteq forgotten' /\ orphans \subseteq orphans'
       /\ willRead' \in [Chats -> Nat] /\ sentRead' \in [Chats -> Nat] /\ sentDone' \subseteq Chats
       /\ timer' \in BOOLEAN /\ cleared' \in BOOLEAN
       /\ timer' \/ \A e \in Chats : willRead'[e] = 0
       /\ Later(willRead', sentRead')
       /\ \A asked : Comes(q.alive, sent, done, asked) => Comes(r.alive, sentRead', sentDone', asked)
       /\ cleared \/ NewReads(q.alive, willRead, sent, readTill)
            => cleared' \/ NewReads(r.alive, willRead', sentRead', readTill)
  BY <1>0, <1>2, <1>4, <1>5, <1>6, <1>7, SendReadsKeeps, ZenonT(60)
<1>11. id \notin r.alive
  <2>1. /\ ~sendReads => r.alive = q.alive
        /\ sendReads => r.alive = q.alive \union NewReadings(due, willRead)
    BY <1>0, <1>4, <1>6, ReadsAddedKeeps
  <2>2. id \notin NewReadings(due, willRead)
    BY <1>0 DEF NewReadings, NewId
  <2> QED
    BY <1>4, <2>1, <2>2
<1> HIDE DEF r
<1>12. /\ Sound(queue') /\ queue'.pending \union queue'.requested = r.pending \union r.requested
       /\ \A e \in queue'.requested : e \in r.requested /\ (e \in r.entry => e \in queue'.entry)
       /\ \A n \in Nat : UpToId(r, n) => UpToId(queue', n)
       /\ \A X : SentIn(r, X \union {id}) => SentIn(queue', X)
       /\ \A x \in r.alive : x = id \/ x \in queue'.alive
       /\ \A x \in queue'.alive : x \in r.alive \/ x.type = "History"
       /\ \A e \in Chats : \A x \in r.postponed[e] : x \in queue'.postponed[e] \/ x \in queue'.alive
  BY <1>0, <1>2, <1>10, FinishedKeeps DEF r
<1>13. UpToId(queue', lastId') /\ SentIn(queue', endless') /\ ReadTypes'
  <2>1. SentIn(queue', endless)
    BY <1>4, <1>10, <1>12
  <2> QED
    BY <1>1, <1>0, <1>10, <1>12, <2>1 DEF ReadTypes
<1>14. WantedComes'
  <2>1. ASSUME NEW x \in wanted
        PROVE  /\ x \in AnyIds /\ x.type = "History"
               /\ \/ x \in queue'.alive \/ x \in queue'.postponed[x.chat] \/ x \in forgotten'
    <3>1. /\ x \in AnyIds /\ x.type = "History" /\ x.chat \in Chats /\ x # id
          /\ \/ x \in queue.alive \/ x \in queue.postponed[x.chat] \/ x \in forgotten
      BY <1>1 DEF IInv, WantedComes, AnyIds
    <3> QED
      BY <1>4, <1>10, <1>12, <3>1
  <2> QED
    BY <1>1, <2>1 DEF WantedComes
<1>15. RequestedComes'
  BY <1>1, <1>4, <1>10, <1>12 DEF IInv, RequestedComes
<1>16. OfType(queue'.alive, "ReadInbox") = OfType(r.alive, "ReadInbox")
  BY <1>11, <1>12 DEF OfType
<1>17. Reading'
  <2>1. Asked' = q.pending \union q.requested
    BY <1>10, <1>12 DEF Asked
  <2>2. Comes(r.alive, sentRead', sentDone', Asked')
    BY <1>8, <1>10, <2>1
  <2>3. Comes(queue'.alive, sentRead', sentDone', Asked')
    BY <1>16, <2>2 DEF Comes
  <2>4. cleared' \/ NewReads(queue'.alive, willRead', sentRead', readTill')
    BY <1>1, <1>9, <1>10, <1>16 DEF NewReads
  <2> QED
    BY <1>10, <2>3, <2>4 DEF Reading
<1> QED
  BY <1>12, <1>13, <1>14, <1>15, <1>17 DEF IInv

-----------------------------------------------------------------------------
(* The invariant *)

LEMMA InitIInv == Init => IInv
<1> SUFFICES ASSUME Init PROVE IInv
  OBVIOUS
<1>1. /\ queue = [sent |-> None, postponed |-> None, alive |-> {}, entry |-> {},
                  pending |-> {}, requested |-> {}, call |-> FALSE]
      /\ None \in [Chats -> SUBSET AnyIds] /\ \A c \in Chats : None[c] = {}
      /\ Zero \in [Chats -> Nat] /\ \A c \in Chats : Zero[c] = 0
  BY DEF Init, None, Zero
<1>2. queue \in Queues
  BY <1>1 DEF Queues
<1>3. Ordered(queue) /\ EntriesOrdered(queue) /\ UpToId(queue, lastId) /\ SentIn(queue, endless)
  BY <1>1 DEF Ordered, EntriesOrdered, UpToId, SentIn, PostponeHistory, OfType
<1>4. WantedComes /\ RequestedComes
  BY <1>1 DEF Init, WantedComes, RequestedComes
<1>5. ReadTypes
  BY <1>1 DEF Init, ReadTypes
<1>6. Reading
  BY <1>1 DEF Init, Reading, Comes, Later, NewReads, OfType
<1> QED
  BY <1>2, <1>3, <1>4, <1>5, <1>6 DEF IInv, Sound

LEMMA StepIInv == IInv /\ [Next]_vars => IInv'
<1> SUFFICES ASSUME IInv, [Next]_vars PROVE IInv'
  OBVIOUS
<1>1. ASSUME NEW c \in Chats, NEW type \in Types \ {"ReadInbox"}, SendRequest(c, type) PROVE IInv'
  BY <1>1, SendRequestKeeps
<1>2. ASSUME NEW c \in Chats, RequestDialogEntry(c) PROVE IInv'
  BY <1>2, RequestDialogEntryKeeps
<1>3. ASSUME NEW c \in Chats, NEW till \in 1..MaxTill[c], NEW b \in BOOLEAN,
             ReadNow(c, till, b) \/ ReadSoon(c, till, b)
      PROVE  IInv'
  BY <1>3, ReadNowKeeps, ReadSoonKeeps
<1>4. ASSUME NEW id \in wanted, CancelRequest(id) PROVE IInv'
  BY <1>4, CancelRequestKeeps
<1>5. ASSUME NEW id \in queue.alive,
             Answered(id) \/ Deleted(id) \/ DeletedSome(id) \/ ChannelDeleted(id) \/ ReadDone(id)
      PROVE  IInv'
  BY <1>5, AnsweredKeeps, DeletedSomeKeeps, ChannelDeletedKeeps, ReadDoneKeeps
<1>6. CASE SendDialogRequests \/ ReadDue
  BY <1>6, SendDialogRequestsKeeps, ReadDueKeeps
<1>7. ASSUME NEW i \in 1..MaxEntries, NEW c \in entries[i], NEW x \in 0..MaxTill[c], EntriesApplied(i, c, x)
      PROVE  IInv'
  BY <1>7, EntriesAppliedKeeps
<1>8. CASE Toggle
  <2>1. /\ UNCHANGED <<queue, entries, willRead, sentRead, sentDone, timer, readTill, wanted,
                       forgotten, orphans, endless, cleared, lastId>>
        /\ sendReads' \in BOOLEAN
    BY <1>8 DEF Toggle, readVars, historyVars
  <2> QED
    BY <2>1 DEF IInv, WantedComes, RequestedComes, ReadTypes, Reading, Asked
<1>9. CASE UNCHANGED vars
  BY <1>9 DEF vars, readVars, historyVars, IInv, WantedComes, RequestedComes, ReadTypes, Reading, Asked
<1> QED
  BY <1>1, <1>2, <1>3, <1>4, <1>5, <1>6, <1>7, <1>8, <1>9 DEF Next

\* The invariant from which the properties of the requests of a chat follow.
THEOREM HistoriesInvariant == Spec => []IInv
<1>1. QED
  BY InitIInv, StepIInv, PTL DEF Spec

\* No messages of a chat are asked for while its messages are being deleted: neither is
\* sent beside the other, whatever is cancelled, answered or sent in between.
THEOREM ExcludedByDelete == Spec => []HistoryWaitsForDelete
<1>1. IInv => HistoryWaitsForDelete
  BY DEF IInv, Sound, Ordered, HistoryWaitsForDelete
<1> QED
  BY <1>1, HistoriesInvariant, PTL

LEMMA SentEnds ==
  ASSUME IInv, NEW c \in Chats, NEW S, S \subseteq queue.sent[c], S # {} PROVE Ends(S)
  BY DEF IInv, SentIn, Ends

\* A request for messages is forgotten only when the states of all chats are dropped:
\* else it is at the server, or it waits for a deletion, which is at the server or is
\* one that was answered and whose handler does not call finish (endless).  Behind such
\* a deletion it stays.
THEOREM RequestsAreKept == Spec => []HistoryComes
<1>1. ASSUME IInv PROVE HistoryComes
  <2>1. ASSUME NEW c \in Chats, queue.postponed[c] # {} PROVE Ends(OfType(queue.sent[c], "Delete"))
    <3>1. OfType(queue.sent[c], "Delete") # {}
      BY <1>1, <2>1 DEF IInv, Sound, Ordered, PostponeHistory
    <3>2. OfType(queue.sent[c], "Delete") \subseteq queue.sent[c]
      BY DEF OfType
    <3> QED
      BY <1>1, <3>1, <3>2, SentEnds
  <2>2. wanted \subseteq queue.alive \union (UNION {queue.postponed[c] : c \in Chats}) \union forgotten
    <3>1. ASSUME NEW id \in wanted
          PROVE  id \in queue.alive \union (UNION {queue.postponed[c] : c \in Chats}) \union forgotten
      <4>1. /\ id.chat \in Chats
            /\ id \in queue.alive \/ id \in queue.postponed[id.chat] \/ id \in forgotten
        BY <1>1 DEF IInv, WantedComes, AnyIds
      <4> QED
        BY <4>1
    <3> QED
      BY <3>1
  <2> QED
    BY <2>1, <2>2 DEF HistoryComes
<1> QED
  BY <1>1, HistoriesInvariant, PTL

\* An entry of the list that was asked for comes, or is asked for again by whatever put
\* it off: requests of entries and requests of the chat cannot leave each other waiting.
\* Two kinds are exempt: entries whose chat lost its state while they were put off
\* (orphans), and those put off by a deletion that never calls finish (endless).
THEOREM EntriesAreKept == Spec => []EntryComes
<1>1. ASSUME IInv PROVE EntryComes
  <2>1. ASSUME NEW c \in queue.entry PROVE Ends(queue.sent[c] \ OfType(queue.sent[c], "History"))
    <3>1. c \in Chats /\ PostponeEntry(queue.sent[c])
      BY <1>1 DEF IInv, Sound, Queues, EntriesOrdered
    <3>2. queue.sent[c] \ OfType(queue.sent[c], "History") # {}
      BY <3>1 DEF PostponeEntry, OfType
    <3> QED
      BY <1>1, <3>1, <3>2, SentEnds
  <2>2. queue.pending # {} => queue.call
    BY <1>1 DEF IInv, Sound, EntriesOrdered
  <2> QED
    BY <1>1, <2>1, <2>2 DEF IInv, RequestedComes, EntryComes
<1> QED
  BY <1>1, HistoriesInvariant, PTL

\* What was read is told to the server and ends: no reading stays unsent without a timer
\* or sent without an answer or an entry to come.
THEOREM ReadingsAreKept == Spec => []ReadingComes
<1>1. IInv => ReadingComes
  BY DEF IInv, Reading, Comes, Asked, ReadingComes
<1> QED
  BY <1>1, HistoriesInvariant, PTL

\* The assertions that this code makes of the entries and of the readings are true: those
\* of data_histories.cpp:663, 688 and 1223, the second one as long as the states of all chats
\* were not dropped (cleared), after which the answer to an older reading can fail it.
THEOREM AssertionsAreTrue == Spec => []AssertionsHold
<1>1. IInv => AssertionsHold
  BY DEF IInv, Sound, EntriesOrdered, Reading, Later, NewReads, AssertionsHold
<1> QED
  BY <1>1, HistoriesInvariant, PTL

-----------------------------------------------------------------------------
(* The types with the bounds *)

\* Every request the queue knows has a number that was given.
Positive(q) ==
  /\ \A id \in q.alive : 1 =< id.n
  /\ \A c \in Chats : \A id \in q.sent[c] \union q.postponed[c] : 1 =< id.n

Given == {id \in AnyIds : 1 =< id.n /\ id.n =< lastId}

UpToTill(f) == \A c \in Chats : f[c] =< MaxTill[c]

Bounded ==
  /\ Positive(queue) /\ forgotten \subseteq Given /\ endless \subseteq Given /\ orphans \subseteq Chats
  /\ UpToTill(willRead) /\ UpToTill(sentRead) /\ UpToTill(readTill)
  /\ lastId =< MaxRequests /\ asks \in 0..MaxAsks /\ toggles \in 0..MaxToggles

LEMMA Bounds == MaxRequests \in Nat /\ MaxAsks \in Nat /\ MaxToggles \in Nat /\ MaxTill \in [Chats -> Nat]
  BY BoundsAssumption

LEMMA SamePositive ==
  ASSUME NEW q, NEW a, Positive(q), a.alive \subseteq q.alive, a.sent = q.sent, a.postponed = q.postponed
  PROVE  Positive(a)
  BY DEF Positive

LEMMA AddedPositive ==
  ASSUME NEW q \in Queues, NEW id \in AnyIds, 1 =< id.n, Positive(q) PROVE Positive(Added(q, id))
<1> DEFINE a == Added(q, id)
<1>0. /\ q.sent \in [Chats -> SUBSET AnyIds] /\ q.postponed \in [Chats -> SUBSET AnyIds]
      /\ id.chat \in Chats
  BY DEF Queues, AnyIds
<1>1. CASE id.type = "History" /\ PostponeHistory(q.sent[id.chat])
  <2>1. /\ a.sent = q.sent /\ a.alive = q.alive
        /\ a.postponed = [q.postponed EXCEPT ![id.chat] = @ \union {id}]
    BY <1>1, PostponedFields
  <2> HIDE DEF a
  <2>2. Positive(a)
    BY <1>0, <2>1 DEF Positive
  <2> QED
    BY <2>2 DEF a
<1>2. CASE ~(id.type = "History" /\ PostponeHistory(q.sent[id.chat]))
  <2> DEFINE c == id.chat  back == Back(q, id)
  <2>1. /\ a.sent = [q.sent EXCEPT ![c] = (q.sent[c] \union {id}) \ back]
        /\ a.alive = (q.alive \union {id}) \ back
        /\ a.postponed = [q.postponed EXCEPT ![c] = @ \union back]
    BY <1>2, AddedFields
  <2>2. back \subseteq q.sent[c] \union {id}
    BY DEF Back, OfType
  <2> HIDE DEF a, back
  <2>3. \A x \in back : 1 =< x.n
    BY <1>0, <2>2 DEF Positive
  <2>4. ASSUME NEW x \in Chats, NEW y \in a.sent[x] \union a.postponed[x] PROVE 1 =< y.n
    <3>1. CASE x = c
      BY <1>0, <2>1, <2>3, <2>4, <3>1 DEF Positive
    <3>2. CASE x # c
      BY <1>0, <2>1, <2>4, <3>2 DEF Positive
    <3> QED
      BY <3>1, <3>2
  <2>5. \A y \in a.alive : 1 =< y.n
    BY <2>1 DEF Positive
  <2>6. Positive(a)
    BY <2>4, <2>5 DEF Positive
  <2> QED
    BY <2>6 DEF a
<1> QED
  BY <1>1, <1>2

LEMMA FinishedPositive ==
  ASSUME NEW q \in Queues, NEW id \in AnyIds, Positive(q) PROVE Positive(Finished(q, id))
<1> DEFINE f == Finished(q, id)  c == id.chat
<1>0. /\ q.sent \in [Chats -> SUBSET AnyIds] /\ q.postponed \in [Chats -> SUBSET AnyIds] /\ c \in Chats
  BY DEF Queues, AnyIds
<1>1. /\ f.sent = [q.sent EXCEPT ![c] = Rest(q, id) \union Again(q, id)]
      /\ f.postponed = [q.postponed EXCEPT ![c] = @ \ Again(q, id)]
      /\ f.alive = (q.alive \ (q.sent[c] \intersect {id})) \union Again(q, id)
  BY FinishedFields
<1>2. Rest(q, id) \subseteq q.sent[c] /\ Again(q, id) \subseteq q.postponed[c]
  BY DEF Rest, Again
<1> HIDE DEF f
<1>3. ASSUME NEW x \in Chats, NEW y \in f.sent[x] \union f.postponed[x] PROVE 1 =< y.n
  <2>1. CASE x = c
    BY <1>0, <1>1, <1>2, <1>3, <2>1 DEF Positive
  <2>2. CASE x # c
    BY <1>0, <1>1, <1>3, <2>2 DEF Positive
  <2> QED
    BY <2>1, <2>2
<1>4. \A y \in f.alive : 1 =< y.n
  BY <1>0, <1>1, <1>2 DEF Positive
<1>5. Positive(f)
  BY <1>3, <1>4 DEF Positive
<1> QED
  BY <1>5 DEF f

\* sendReadRequests: the readings get the next number, and what is read is below the bound.
LEMMA ReadsBounded ==
  ASSUME NEW q \in Queues, Positive(q), UpToId(q, lastId), ReadTypes, Bounded, q.entry \subseteq Chats,
         NEW due \in SUBSET Chats, NEW will \in [Chats -> Nat], NEW sent \in [Chats -> Nat], NEW done,
         UpToTill(will), UpToTill(sent), SendReadRequests(q, due, will, sent, done)
  PROVE  LET r == ReadsAdded(q, due, will) IN
         /\ r \in Queues /\ Positive(r) /\ lastId' =< MaxRequests /\ lastId =< lastId' /\ lastId' \in Nat
         /\ forgotten' \subseteq Given' /\ endless' \subseteq Given' /\ orphans' \subseteq Chats
         /\ UpToTill(willRead') /\ UpToTill(sentRead')
<1> DEFINE r == ReadsAdded(q, due, will)  R == NewReadings(due, will)
<1>0. lastId \in Nat /\ sendReads \in BOOLEAN /\ MaxRequests \in Nat /\ MaxTill \in [Chats -> Nat]
  BY Bounds DEF ReadTypes
<1>1. /\ r \in Queues /\ r.pending = q.pending /\ r.requested = q.requested /\ r.call = q.call
      /\ ~sendReads => /\ r.alive = q.alive /\ r.entry = {}
                       /\ \A c \in Chats : r.sent[c] = {} /\ r.postponed[c] = {}
      /\ sendReads => /\ r.alive = q.alive \union R
                      /\ r.entry = q.entry \union (due \intersect q.requested) /\ r.postponed = q.postponed
                      /\ \A c \in Chats : r.sent[c] = q.sent[c] \union {id \in R : id.chat = c}
  BY ReadsAddedFields
<1>2. \A id \in R : id.n = lastId + 1
  BY DEF NewReadings, NewId
<1> HIDE DEF r, R
<1>3. Positive(r)
  <2>1. CASE sendReads
    BY <1>0, <1>1, <1>2, <2>1 DEF Positive
  <2>2. CASE ~sendReads
    BY <1>1, <2>2 DEF Positive
  <2> QED
    BY <2>1, <2>2
<1>4. CASE sendReads
  <2>1. /\ due # {} => lastId < MaxRequests
        /\ lastId' = (IF due = {} THEN lastId ELSE lastId + 1)
        /\ willRead' = [c \in Chats |-> IF c \in due THEN 0 ELSE will[c]]
        /\ sentRead' = [c \in Chats |-> IF c \in due THEN will[c] ELSE sent[c]]
        /\ forgotten' = forgotten /\ endless' = endless /\ orphans' = orphans
    BY <1>4 DEF SendReadRequests, historyVars
  <2>2. lastId' =< MaxRequests /\ lastId =< lastId' /\ lastId' \in Nat
    BY <1>0, <2>1 DEF Bounded
  <2>3. Given \subseteq Given'
    BY <1>0, <2>2 DEF Given, AnyIds
  <2>4. UpToTill(willRead') /\ UpToTill(sentRead')
    BY <1>0, <2>1 DEF UpToTill
  <2>5. forgotten' \subseteq Given' /\ endless' \subseteq Given' /\ orphans' \subseteq Chats
    BY <2>1, <2>3 DEF Bounded
  <2> QED
    BY <1>1, <1>3, <2>2, <2>4, <2>5 DEF r
<1>5. CASE ~sendReads
  <2>1. /\ willRead' = Zero /\ sentRead' = Zero /\ lastId' = lastId /\ endless' = endless
        /\ forgotten' = forgotten \union UNION {q.postponed[c] : c \in Chats}
        /\ orphans' = orphans \union q.entry
    BY <1>5 DEF SendReadRequests
  <2>2. Given' = Given
    BY <2>1 DEF Given
  <2>3. UNION {q.postponed[c] : c \in Chats} \subseteq Given
    <3>1. ASSUME NEW c \in Chats, NEW id \in q.postponed[c] PROVE id \in Given
      BY <3>1 DEF Positive, UpToId, Queues, Given
    <3> QED
      BY <3>1
  <2>4. UpToTill(willRead') /\ UpToTill(sentRead')
    BY <1>0, <2>1 DEF UpToTill, Zero
  <2>5. lastId' =< MaxRequests /\ lastId =< lastId' /\ lastId' \in Nat
    BY <1>0, <2>1 DEF Bounded
  <2>6. forgotten' \subseteq Given' /\ endless' \subseteq Given' /\ orphans' \subseteq Chats
    BY <2>1, <2>2, <2>3 DEF Bounded
  <2> QED
    BY <1>1, <1>3, <2>4, <2>5, <2>6 DEF r
<1> QED
  BY <1>0, <1>4, <1>5

\* A step that neither reads nor drops anything.
LEMMA BoundedQueue ==
  ASSUME Bounded, ReadTypes, Positive(queue'), lastId' \in {lastId, lastId + 1}, lastId' =< MaxRequests,
         UNCHANGED <<forgotten, orphans, willRead, sentRead, readTill, toggles>>,
         endless' \subseteq Given, asks' \in 0..MaxAsks
  PROVE  Bounded'
<1>1. Given \subseteq Given'
  BY DEF Given, AnyIds, ReadTypes
<1> QED
  BY <1>1 DEF Bounded, UpToTill

LEMMA RequestsBounded ==
  ASSUME IInv, Bounded, NEW c \in Chats, NEW type \in Types, SendRequest(c, type) PROVE Bounded'
<1> DEFINE id == NewId(c, type, 0)
<1>1. /\ lastId < MaxRequests /\ lastId' = lastId + 1 /\ queue' = Added(queue, id)
      /\ UNCHANGED <<forgotten, orphans, endless, willRead, sentRead, readTill, asks, toggles>>
  BY DEF SendRequest, readVars, historyVars
<1>2. /\ lastId \in Nat /\ MaxRequests \in Nat /\ queue \in Queues /\ ReadTypes
      /\ id \in AnyIds /\ 1 =< id.n
  BY Bounds DEF IInv, ReadTypes, Sound, NewId, AnyIds
<1>3. Positive(queue')
  <2> HIDE DEF id
  <2> QED
    BY <1>1, <1>2, AddedPositive DEF Bounded
<1> QED
  BY <1>1, <1>2, <1>3, BoundedQueue DEF Bounded

LEMMA CancelBounded == ASSUME IInv, Bounded, NEW id \in wanted, CancelRequest(id) PROVE Bounded'
<1> DEFINE p == [queue.postponed EXCEPT ![id.chat] = @ \ {id}]  q == [queue EXCEPT !.postponed = p]
<1>1. /\ queue' = Finished(q, id)
      /\ UNCHANGED <<forgotten, orphans, endless, willRead, sentRead, readTill, lastId, asks, toggles>>
  BY DEF CancelRequest, readVars, historyVars
<1>2. queue \in Queues /\ id \in AnyIds /\ ReadTypes /\ lastId \in Nat /\ id.chat \in Chats
  BY DEF IInv, Sound, WantedComes, ReadTypes, AnyIds
<1>3. p \in [Chats -> SUBSET AnyIds] /\ \A c \in Chats : p[c] \subseteq queue.postponed[c]
  BY <1>2 DEF Queues
<1> HIDE DEF p
<1>4. q \in Queues /\ q.alive = queue.alive /\ q.sent = queue.sent /\ q.postponed = p
  BY <1>2, <1>3 DEF Queues
<1> HIDE DEF q
<1>5. Positive(q)
  BY <1>3, <1>4 DEF Positive, Bounded
<1>6. Positive(queue')
  BY <1>1, <1>2, <1>4, <1>5, FinishedPositive
<1> QED
  BY <1>1, <1>2, <1>6, BoundedQueue DEF Bounded

LEMMA AnswersBounded ==
  ASSUME IInv, Bounded, NEW id \in queue.alive,
         Answered(id) \/ Deleted(id) \/ DeletedSome(id) \/ ChannelDeleted(id)
  PROVE  Bounded'
<1> DEFINE a == Arrived(id)
<1>0. /\ queue \in Queues /\ id \in AnyIds /\ id.chat \in Chats /\ ReadTypes /\ lastId \in Nat
      /\ MaxRequests \in Nat
  BY Bounds DEF IInv, Sound, Queues, AnyIds, ReadTypes
<1>1. a \in Queues /\ a.alive = queue.alive \ {id} /\ a.sent = queue.sent /\ a.postponed = queue.postponed
  BY <1>0, ArrivedFields DEF Arrived
<1>2. Positive(a)
  BY <1>1, SamePositive DEF Bounded
<1>3. UNCHANGED <<forgotten, orphans, willRead, sentRead, readTill, asks, toggles>>
  BY DEF Answered, Deleted, DeletedSome, ChannelDeleted, readVars, historyVars
<1> HIDE DEF a
<1>4. /\ Finished(a, id) \in Queues /\ Positive(Finished(a, id))
  BY <1>0, <1>1, <1>2, FinishedPositive, FinishedFields
<1>5. ASSUME Answered(id) \/ Deleted(id)
      PROVE  Positive(queue') /\ lastId' = lastId /\ endless' = endless
  <2>1. lastId' = lastId /\ endless' = endless
    BY <1>5 DEF Answered, Deleted, historyVars
  <2>2. queue' = Finished(a, id) \/ queue' = AskedFor(Finished(a, id), id.chat)
    BY <1>5 DEF Answered, Deleted, a
  <2>3. Positive(AskedFor(Finished(a, id), id.chat))
    BY <1>0, <1>4, AskedForFields, SamePositive
  <2> QED
    BY <1>4, <2>1, <2>2, <2>3
<1>6. ASSUME DeletedSome(id)
      PROVE  Positive(queue') /\ lastId' = lastId + 1 /\ lastId' =< MaxRequests /\ endless' = endless
  <2> DEFINE new == NewId(id.chat, "Delete", 0)
  <2>1. /\ lastId < MaxRequests /\ lastId' = lastId + 1 /\ endless' = endless
        /\ queue' = Finished(Added(a, new), id)
    BY <1>6 DEF DeletedSome, historyVars, a
  <2>2. new \in AnyIds /\ 1 =< new.n /\ new.type = "Delete"
    BY <1>0 DEF NewId, AnyIds, Types
  <2> HIDE DEF new
  <2>3. Added(a, new) \in Queues /\ Positive(Added(a, new))
    BY <1>1, <1>2, <2>2, AddedPositive, AddedFields
  <2>4. Positive(queue')
    BY <1>0, <2>1, <2>3, FinishedPositive
  <2> QED
    BY <1>0, <2>1, <2>4
<1>7. ASSUME ChannelDeleted(id)
      PROVE  Positive(queue') /\ lastId' = lastId /\ endless' \subseteq Given
  <2>1. queue' = a /\ lastId' = lastId /\ endless' = endless \union {id}
    BY <1>7 DEF ChannelDeleted, a
  <2>2. id \in Given
    BY <1>0 DEF Given, Bounded, Positive, IInv, UpToId
  <2> QED
    BY <1>2, <2>1, <2>2 DEF Bounded
<1>8. Positive(queue') /\ lastId' \in {lastId, lastId + 1} /\ lastId' =< MaxRequests /\ endless' \subseteq Given
  BY <1>0, <1>5, <1>6, <1>7 DEF Bounded
<1> QED
  BY <1>0, <1>3, <1>8, BoundedQueue DEF Bounded

LEMMA EntriesBounded ==
  ASSUME IInv, Bounded, (\E c \in Chats : RequestDialogEntry(c)) \/ SendDialogRequests PROVE Bounded'
<1>0. queue \in Queues /\ ReadTypes /\ lastId \in Nat /\ MaxAsks \in Nat
  BY Bounds DEF IInv, Sound, ReadTypes
<1>1. CASE \E c \in Chats : RequestDialogEntry(c)
  <2>1. PICK c \in Chats : RequestDialogEntry(c)
    BY <1>1
  <2>2. /\ asks < MaxAsks /\ asks' = asks + 1 /\ queue' = AskedFor(queue, c)
        /\ UNCHANGED <<forgotten, orphans, endless, willRead, sentRead, readTill, lastId, toggles>>
    BY <2>1 DEF RequestDialogEntry, readVars, historyVars
  <2>3. Positive(queue')
    BY <1>0, <2>2, AskedForFields, SamePositive DEF Bounded
  <2>4. asks' \in 0..MaxAsks
    BY <1>0, <2>2 DEF Bounded
  <2> QED
    BY <1>0, <2>2, <2>3, <2>4, BoundedQueue DEF Bounded
<1>2. CASE SendDialogRequests
  <2>1. /\ queue' = EntriesSent(queue)
        /\ UNCHANGED <<forgotten, orphans, endless, willRead, sentRead, readTill, lastId, asks, toggles>>
    BY <1>2 DEF SendDialogRequests, readVars, historyVars
  <2>2. queue'.alive = queue.alive /\ queue'.sent = queue.sent /\ queue'.postponed = queue.postponed
    BY <1>0, <2>1 DEF EntriesSent, Queues
  <2>3. Positive(queue')
    BY <2>2, SamePositive DEF Bounded
  <2> QED
    BY <1>0, <2>1, <2>3, BoundedQueue DEF Bounded
<1> QED
  BY <1>1, <1>2

LEMMA AppliedBounded ==
  ASSUME IInv, Bounded, NEW i \in 1..MaxEntries, NEW r \in Chats, NEW x \in 0..MaxTill[r],
         EntriesApplied(i, r, x)
  PROVE  Bounded'
<1> DEFINE P == Appliable(entries[i])
           R == {c \in P \intersect sentDone : sentRead[c] # 0}
           At(c) == IF c \in R /\ sentRead[c] > readTill[c] THEN sentRead[c] ELSE readTill[c]
<1>0. /\ ReadTypes /\ queue \in Queues /\ lastId \in Nat /\ MaxTill \in [Chats -> Nat]
      /\ sentRead \in [Chats -> Nat] /\ readTill \in [Chats -> Nat]
  BY Bounds DEF IInv, Sound, ReadTypes
<1>1. /\ queue' = [queue EXCEPT !.pending = @ \ P, !.requested = @ \ P]
      /\ readTill' = [c \in Chats |-> IF c = r /\ x > At(c) THEN x ELSE At(c)]
      /\ sentRead' = [c \in Chats |-> IF c \in R THEN 0 ELSE sentRead[c]]
      /\ UNCHANGED <<willRead, forgotten, orphans, endless, lastId, asks, toggles>>
  BY DEF EntriesApplied, historyVars
<1>2. \A c \in Chats : At(c) =< MaxTill[c]
  BY <1>0 DEF Bounded, UpToTill
<1> HIDE DEF P, R, At
<1>3. queue'.alive = queue.alive /\ queue'.sent = queue.sent /\ queue'.postponed = queue.postponed
  BY <1>0, <1>1 DEF Queues
<1>4. Positive(queue')
  BY <1>3, SamePositive DEF Bounded
<1>5. UpToTill(readTill') /\ UpToTill(sentRead')
  <2>1. UpToTill(readTill')
    BY <1>0, <1>1, <1>2 DEF UpToTill
  <2>2. UpToTill(sentRead')
    BY <1>0, <1>1 DEF UpToTill, Bounded
  <2> QED
    BY <2>1, <2>2
<1>6. Given' = Given /\ UpToTill(willRead')
  BY <1>1 DEF Given, Bounded, UpToTill
<1> QED
  BY <1>1, <1>4, <1>5, <1>6 DEF Bounded

LEMMA ReadNowBounded ==
  ASSUME IInv, Bounded, NEW c \in Chats, NEW till \in 1..MaxTill[c], NEW unknown \in BOOLEAN,
         ReadNow(c, till, unknown)
  PROVE  Bounded'
<1> DEFINE will == [willRead EXCEPT ![c] = till]
<1>0. /\ queue \in Queues /\ queue.entry \subseteq Chats /\ UpToId(queue, lastId) /\ ReadTypes
      /\ willRead \in [Chats -> Nat] /\ sentRead \in [Chats -> Nat] /\ readTill \in [Chats -> Nat]
      /\ MaxTill \in [Chats -> Nat]
  BY Bounds DEF IInv, Sound, Queues, ReadTypes
<1>1. PICK due \in SUBSET Chats :
        SendReadRequests(queue, due, will, sentRead, sentDone) /\ queue' = ReadsAdded(queue, due, will)
  BY DEF ReadNow
<1>2. /\ readTill' = readTill \/ readTill' = [readTill EXCEPT ![c] = till]
      /\ UNCHANGED <<asks, toggles>>
  BY DEF ReadNow
<1>3. will \in [Chats -> Nat] /\ UpToTill(will)
  BY <1>0 DEF Bounded, UpToTill
<1> HIDE DEF will
<1>4. /\ Positive(queue') /\ lastId' =< MaxRequests /\ forgotten' \subseteq Given' /\ endless' \subseteq Given'
      /\ orphans' \subseteq Chats /\ UpToTill(willRead') /\ UpToTill(sentRead')
  BY <1>0, <1>1, <1>3, ReadsBounded DEF Bounded
<1>5. UpToTill(readTill')
  BY <1>0, <1>2 DEF Bounded, UpToTill
<1> QED
  BY <1>2, <1>4, <1>5 DEF Bounded

LEMMA ReadDueBounded == ASSUME IInv, Bounded, ReadDue PROVE Bounded'
<1>0. /\ queue \in Queues /\ queue.entry \subseteq Chats /\ UpToId(queue, lastId) /\ ReadTypes
      /\ willRead \in [Chats -> Nat] /\ sentRead \in [Chats -> Nat]
  BY DEF IInv, Sound, Queues, ReadTypes
<1>1. PICK due \in SUBSET Chats : /\ SendReadRequests(queue, due, willRead, sentRead, sentDone)
                                  /\ queue' = ReadsAdded(queue, due, willRead)
  BY DEF ReadDue
<1>2. UNCHANGED <<readTill, asks, toggles>>
  BY DEF ReadDue
<1>3. /\ Positive(queue') /\ lastId' =< MaxRequests /\ forgotten' \subseteq Given' /\ endless' \subseteq Given'
      /\ orphans' \subseteq Chats /\ UpToTill(willRead') /\ UpToTill(sentRead')
  BY <1>0, <1>1, ReadsBounded DEF Bounded
<1> QED
  BY <1>2, <1>3 DEF Bounded, UpToTill

LEMMA ReadSoonBounded ==
  ASSUME IInv, Bounded, NEW c \in Chats, NEW till \in 1..MaxTill[c], NEW same \in BOOLEAN,
         ReadSoon(c, till, same)
  PROVE  Bounded'
<1>0. /\ willRead \in [Chats -> Nat] /\ readTill \in [Chats -> Nat] /\ MaxTill \in [Chats -> Nat]
  BY Bounds DEF IInv, ReadTypes
<1>1. /\ willRead' = willRead \/ willRead' = [willRead EXCEPT ![c] = till]
      /\ readTill' = [readTill EXCEPT ![c] = till]
      /\ UNCHANGED <<queue, sentRead, forgotten, orphans, endless, lastId, asks, toggles>>
  BY DEF ReadSoon, historyVars
<1>2. UpToTill(willRead') /\ UpToTill(readTill') /\ UpToTill(sentRead')
  BY <1>0, <1>1 DEF Bounded, UpToTill
<1>3. Given' = Given /\ Positive(queue')
  BY <1>1 DEF Given, Bounded, Positive
<1> QED
  BY <1>1, <1>2, <1>3 DEF Bounded

LEMMA ReadDoneBounded == ASSUME IInv, Bounded, NEW id \in queue.alive, ReadDone(id) PROVE Bounded'
<1> DEFINE c == id.chat
           mine == sentRead[c] = id.till
           refresh == mine /\ id.till > readTill[c]
           a == Arrived(id)
           q == IF refresh THEN AskedFor(a, c) ELSE a
           sent == IF mine /\ ~refresh THEN [sentRead EXCEPT ![c] = 0] ELSE sentRead
           done == IF mine THEN sentDone \union {c} ELSE sentDone
<1>0. /\ queue \in Queues /\ UpToId(queue, lastId) /\ ReadTypes /\ id \in AnyIds /\ c \in Chats
      /\ willRead \in [Chats -> Nat] /\ sentRead \in [Chats -> Nat] /\ MaxTill \in [Chats -> Nat]
  BY Bounds DEF IInv, Sound, Queues, ReadTypes, AnyIds
<1>1. PICK due \in SUBSET Chats : /\ SendReadRequests(q, due, willRead, sent, done)
                                  /\ queue' = Finished(ReadsAdded(q, due, willRead), id)
  BY DEF ReadDone
<1>2. UNCHANGED <<readTill, asks, toggles>>
  BY DEF ReadDone
<1>3. /\ a \in Queues /\ a.alive = queue.alive \ {id} /\ a.sent = queue.sent
      /\ a.postponed = queue.postponed
  BY <1>0, ArrivedFields DEF Arrived
<1> HIDE DEF a
<1>4. /\ AskedFor(a, c) \in Queues /\ AskedFor(a, c).alive = a.alive /\ AskedFor(a, c).sent = a.sent
      /\ AskedFor(a, c).postponed = a.postponed
  BY <1>0, <1>3, AskedForFields
<1>5. q \in Queues /\ q.alive \subseteq queue.alive /\ q.sent = queue.sent /\ q.postponed = queue.postponed
  BY <1>3, <1>4
<1>6. sent \in [Chats -> Nat] /\ UpToTill(sent)
  BY <1>0 DEF Bounded, UpToTill
<1> HIDE DEF q, sent, done
<1>7. Positive(q) /\ UpToId(q, lastId) /\ q.entry \subseteq Chats
  BY <1>0, <1>5, SamePositive DEF Bounded, UpToId, Queues
<1>8. UpToTill(willRead)
  BY DEF Bounded
<1> DEFINE r == ReadsAdded(q, due, willRead)
<1>9. /\ r \in Queues /\ Positive(r)
      /\ lastId' =< MaxRequests /\ forgotten' \subseteq Given' /\ endless' \subseteq Given'
      /\ orphans' \subseteq Chats /\ UpToTill(willRead') /\ UpToTill(sentRead')
  BY <1>0, <1>1, <1>5, <1>6, <1>7, <1>8, ReadsBounded
<1> HIDE DEF r
<1>10. Positive(queue')
  BY <1>0, <1>1, <1>9, FinishedPositive DEF r
<1> QED
  BY <1>2, <1>9, <1>10 DEF Bounded, UpToTill

LEMMA InitBounded == Init => Bounded
<1> SUFFICES ASSUME Init PROVE Bounded
  OBVIOUS
<1>1. /\ queue.alive = {} /\ queue.sent = None /\ queue.postponed = None /\ forgotten = {} /\ endless = {}
      /\ orphans = {} /\ willRead = Zero /\ sentRead = Zero /\ readTill = Zero
      /\ lastId = 0 /\ asks = 0 /\ toggles = 0
  BY DEF Init
<1>2. Positive(queue)
  BY <1>1 DEF Positive, None
<1>3. UpToTill(Zero)
  BY Bounds DEF UpToTill, Zero
<1> QED
  BY <1>1, <1>2, <1>3, Bounds DEF Bounded

LEMMA StepBounded == IInv /\ Bounded /\ [Next]_vars => Bounded'
<1> SUFFICES ASSUME IInv, Bounded, [Next]_vars PROVE Bounded'
  OBVIOUS
<1>0. ReadTypes
  BY DEF IInv
<1>1. ASSUME NEW c \in Chats, NEW type \in Types \ {"ReadInbox"}, SendRequest(c, type) PROVE Bounded'
  BY <1>1, RequestsBounded
<1>2. CASE SendDialogRequests \/ \E c \in Chats : RequestDialogEntry(c)
  BY <1>2, EntriesBounded
<1>3. ASSUME NEW c \in Chats, NEW till \in 1..MaxTill[c], NEW b \in BOOLEAN,
             ReadNow(c, till, b) \/ ReadSoon(c, till, b)
      PROVE  Bounded'
  BY <1>3, ReadNowBounded, ReadSoonBounded
<1>4. ASSUME NEW id \in wanted, CancelRequest(id) PROVE Bounded'
  BY <1>4, CancelBounded
<1>5. ASSUME NEW id \in queue.alive,
             Answered(id) \/ Deleted(id) \/ DeletedSome(id) \/ ChannelDeleted(id) \/ ReadDone(id)
      PROVE  Bounded'
  BY <1>5, AnswersBounded, ReadDoneBounded
<1>6. CASE ReadDue
  BY <1>6, ReadDueBounded
<1>7. ASSUME NEW i \in 1..MaxEntries, NEW c \in entries[i], NEW x \in 0..MaxTill[c], EntriesApplied(i, c, x)
      PROVE  Bounded'
  <2>1. c \in Chats
    BY <1>0 DEF ReadTypes
  <2> QED
    BY <1>7, <2>1, AppliedBounded
<1>8. CASE Toggle
  <2>1. /\ toggles < MaxToggles /\ toggles' = toggles + 1
        /\ UNCHANGED <<queue, willRead, sentRead, readTill, forgotten, orphans, endless, lastId, asks>>
    BY <1>8 DEF Toggle, readVars, historyVars
  <2>2. toggles' \in 0..MaxToggles
    BY <2>1, Bounds DEF Bounded
  <2> QED
    BY <2>1, <2>2 DEF Bounded, UpToTill, Given, Positive
<1>9. CASE UNCHANGED vars
  BY <1>9 DEF vars, readVars, historyVars, Bounded, UpToTill, Given, Positive
<1> QED
  BY <1>1, <1>2, <1>3, <1>4, <1>5, <1>6, <1>7, <1>8, <1>9 DEF Next

\* The types: no request is postponed and sent at once, and whatever was dropped with
\* the states of all chats were requests of these chats (clearAll).
THEOREM TypesAreKept == Spec => []TypeOK
<1>1. ASSUME IInv, Bounded PROVE TypeOK
  <2>1. Given \subseteq Ids
    BY <1>1, Bounds DEF Given, AnyIds, Ids, Bounded, IInv, ReadTypes
  <2>2. /\ queue \in Queues /\ Ordered(queue) /\ UpToId(queue, lastId)
    BY <1>1 DEF IInv, Sound
  <2>3. queue.alive \subseteq Given /\ \A c \in Chats : queue.sent[c] \union queue.postponed[c] \subseteq Given
    BY <1>1, <2>2 DEF Bounded, Positive, UpToId, Given, Queues
  <2>4. queue \in [sent : [Chats -> SUBSET Ids], postponed : [Chats -> SUBSET Ids],
                   alive : SUBSET Ids, entry : SUBSET Chats, pending : SUBSET Chats,
                   requested : SUBSET Chats, call : BOOLEAN]
    <3>1. queue.sent \in [Chats -> SUBSET Ids] /\ queue.postponed \in [Chats -> SUBSET Ids]
          /\ queue.alive \in SUBSET Ids
      BY <2>1, <2>2, <2>3 DEF Queues
    <3> QED
      BY <2>2, <3>1 DEF Queues
  <2>5. wanted \subseteq Given
    <3>1. ASSUME NEW id \in wanted PROVE id \in Given
      BY <1>1, <2>3 DEF IInv, WantedComes, Bounded, AnyIds
    <3> QED
      BY <3>1
  <2>6. willRead \in Tills /\ sentRead \in Tills /\ readTill \in Tills
    BY <1>1 DEF IInv, ReadTypes, Bounded, UpToTill, Tills
  <2>7. \A c \in Chats : queue.sent[c] \intersect queue.postponed[c] = {}
    <3>1. ASSUME NEW c \in Chats, NEW id \in queue.sent[c], id \in queue.postponed[c] PROVE FALSE
      BY <2>2, <3>1 DEF Ordered, OfType
    <3> QED
      BY <3>1
  <2>8. lastId \in 0..MaxRequests /\ asks \in 0..MaxAsks /\ toggles \in 0..MaxToggles
    BY <1>1, Bounds DEF IInv, ReadTypes, Bounded
  <2> QED
    BY <1>1, <2>1, <2>4, <2>5, <2>6, <2>7, <2>8 DEF IInv, ReadTypes, Bounded, TypeOK
<1> QED
  BY <1>1, HistoriesInvariant, InitBounded, StepBounded, PTL DEF Spec
=============================================================================
