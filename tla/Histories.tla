----------------------------- MODULE Histories ------------------------------
(***************************************************************************)
(* class Data::Histories: the requests of a chat that exclude each other.  *)
(* A request for messages (type History) is not sent while messages are    *)
(* being deleted and is postponed; the entry of a chat in the list is not  *)
(* asked for while anything but History is sent; the reading of a chat is  *)
(* collected and sent by a timer, and ends when an entry of the chat shows *)
(* it.  All of it runs on the main thread, between answers of the server.  *)
(*                                                                         *)
(* sendReads is the setting sendReadMessages of this program: without it   *)
(* sendReadRequests forgets what is kept of all chats.                     *)
(***************************************************************************)
EXTENDS Integers, FiniteSets

CONSTANTS Chats,
          MaxTill,      \* bound: messages 1..MaxTill[c] of a chat can be read
          MaxRequests,  \* bound: requests
          MaxAsks,      \* bound: entries asked for from outside
          MaxEntries,   \* bound: requests for entries in flight
          MaxToggles    \* bound: changes of the setting

ASSUME BoundsAssumption ==
  /\ IsFiniteSet(Chats)
  /\ MaxTill \in [Chats -> Nat]
  /\ {MaxRequests, MaxAsks, MaxEntries, MaxToggles} \subseteq Nat

VARIABLES
  queue,       \* State::sent, postponed and postponedRequestEntry of all chats, with
               \* _dialogRequestsPending, _dialogRequests, the call postponed for
               \* sendDialogRequests, and the requests alive in ApiWrap
  entries,     \* the chats of each getPeerDialogs in flight
  willRead,    \* State::willReadTill, sent when willReadWhen comes
  sentRead,    \* State::sentReadTill
  sentDone,    \* State::sentReadDone
  timer,       \* _readRequestsTimer
  readTill,    \* History::_inboxReadBefore - 1
  sendReads,   \* the setting
  \* history
  wanted,      \* History requests neither answered nor cancelled
  forgotten,   \* those dropped with the states of all chats
  orphans,     \* chats whose entry was to be asked for again when they were dropped
  endless,     \* requests answered by a handler that does not call finish
  cleared,     \* whether the states were ever dropped
  lastId, asks, toggles

readVars == <<willRead, sentRead, sentDone, timer>>
historyVars == <<forgotten, orphans, endless, cleared>>
vars == <<queue, entries, readVars, readTill, sendReads, wanted, historyVars,
          lastId, asks, toggles>>

Types == {"History", "ReadInbox", "Delete", "Send"}
Ids == [n : 1..MaxRequests, chat : Chats, type : Types, till : Nat]
Tills == {f \in [Chats -> Nat] : \A c \in Chats : f[c] =< MaxTill[c]}

TypeOK ==
  /\ queue \in [sent : [Chats -> SUBSET Ids], postponed : [Chats -> SUBSET Ids],
                alive : SUBSET Ids, entry : SUBSET Chats, pending : SUBSET Chats,
                requested : SUBSET Chats, call : BOOLEAN]
  /\ entries \in [1..MaxEntries -> SUBSET Chats]
  /\ willRead \in Tills /\ sentRead \in Tills /\ sentDone \subseteq Chats /\ timer \in BOOLEAN
  /\ readTill \in Tills /\ sendReads \in BOOLEAN
  /\ wanted \subseteq Ids /\ forgotten \subseteq Ids /\ orphans \subseteq Chats
  /\ endless \subseteq Ids /\ cleared \in BOOLEAN
  /\ lastId \in 0..MaxRequests /\ asks \in 0..MaxAsks /\ toggles \in 0..MaxToggles
  /\ \A c \in Chats : queue.sent[c] \intersect queue.postponed[c] = {}

None == [c \in Chats |-> {}]
Zero == [c \in Chats |-> 0]

Init ==
  /\ queue = [sent |-> None, postponed |-> None, alive |-> {}, entry |-> {},
              pending |-> {}, requested |-> {}, call |-> FALSE]
  /\ entries = [i \in 1..MaxEntries |-> {}]
  /\ willRead = Zero /\ sentRead = Zero /\ sentDone = {} /\ timer = FALSE
  /\ readTill = Zero /\ sendReads = TRUE
  /\ wanted = {} /\ forgotten = {} /\ orphans = {} /\ endless = {} /\ cleared = FALSE
  /\ lastId = 0 /\ asks = 0 /\ toggles = 0

-----------------------------------------------------------------------------
(* The requests of a chat, as functions of the queue *)

OfType(S, t) == {id \in S : id.type = t}

\* postponeHistoryRequest and postponeEntryRequest.
PostponeHistory(S) == OfType(S, "Delete") # {}
PostponeEntry(S) == S # OfType(S, "History")

\* requestDialogEntry.
AskedFor(q, c) ==
  IF c \in q.requested THEN q
  ELSE [q EXCEPT !.pending = @ \union {c}, !.call = @ \/ q.pending = {}]

\* Mutant: what is sent already is left there when a Delete is sent.
AddedBeside(q, id) ==
  LET c == id.chat  sent == q.sent[c] \union {id} IN
  IF id.type = "History" /\ PostponeHistory(q.sent[c])
    THEN [q EXCEPT !.postponed[c] = @ \union {id}]
    ELSE [q EXCEPT !.sent[c] = sent, !.alive = @ \union {id},
            !.entry = IF PostponeEntry(sent) THEN @ \union ({c} \intersect q.requested) ELSE @]

\* Mutant: what is taken back is not erased from what is sent.
AddedKept(q, id) ==
  LET c == id.chat
      sent == q.sent[c] \union {id}
      back == IF PostponeHistory(sent) THEN OfType(sent, "History") ELSE {} IN
  IF id.type = "History" /\ PostponeHistory(q.sent[c])
    THEN [q EXCEPT !.postponed[c] = @ \union {id}]
    ELSE [q EXCEPT !.sent[c] = sent, !.postponed[c] = @ \union back,
            !.alive = (@ \union {id}) \ back,
            !.entry = IF PostponeEntry(sent) THEN @ \union ({c} \intersect q.requested) ELSE @]

\* sendRequest: a History is postponed when a Delete is sent, and a Delete takes back
\* the History requests that are sent.
Added(q, id) ==
  LET c == id.chat
      sent == q.sent[c] \union {id}
      back == IF PostponeHistory(sent) THEN OfType(sent, "History") ELSE {} IN
  IF id.type = "History" /\ PostponeHistory(q.sent[c])
    THEN [q EXCEPT !.postponed[c] = @ \union {id}]
    ELSE [q EXCEPT !.sent[c] = sent \ back, !.postponed[c] = @ \union back,
            !.alive = (@ \union {id}) \ back,
            !.entry = IF PostponeEntry(sent) THEN @ \union ({c} \intersect q.requested) ELSE @]

\* Mutant: nothing that was postponed is looked at.
FinishedOnly(q, id) ==
  [q EXCEPT !.sent[id.chat] = @ \ {id}, !.alive = @ \ {id}]

\* Mutant: the entry is not asked for again.
FinishedNoEntry(q, id) ==
  LET rest == q.sent[id.chat] \ {id}
      again == IF PostponeHistory(rest) THEN {} ELSE q.postponed[id.chat] IN
  [q EXCEPT !.sent[id.chat] = rest \union again, !.postponed[id.chat] = @ \ again,
            !.alive = (@ \ (q.sent[id.chat] \intersect {id})) \union again]

\* finishSentRequest: the postponed are sent when no Delete is left, and the entry is
\* asked for again when only History is left.
Finished(q, id) ==
  LET c == id.chat
      rest == q.sent[c] \ {id}
      again == IF PostponeHistory(rest) THEN {} ELSE q.postponed[c]
      sent == rest \union again
      ask == c \in q.entry /\ ~PostponeEntry(sent) IN
  [q EXCEPT !.sent[c] = sent, !.postponed[c] = @ \ again,
            !.alive = (@ \ (q.sent[c] \intersect {id})) \union again,
            !.entry = IF ask THEN @ \ {c} ELSE @,
            !.requested = IF ask THEN @ \ {c} ELSE @,
            !.pending = IF ask THEN @ \union {c} ELSE @,
            !.call = @ \/ (ask /\ q.pending = {})]

NewId(c, type, till) == [n |-> lastId + 1, chat |-> c, type |-> type, till |-> till]
Arrived(id) == [queue EXCEPT !.alive = @ \ {id}]

-----------------------------------------------------------------------------
(* Messages: sent, asked for, deleted *)

SendRequest(c, type) ==
  LET id == NewId(c, type, 0) IN
  /\ lastId < MaxRequests /\ lastId' = lastId + 1
  /\ queue' = Added(queue, id)
  /\ wanted' = IF type = "History" THEN wanted \union {id} ELSE wanted
  /\ UNCHANGED <<entries, readVars, readTill, sendReads, historyVars, asks, toggles>>

\* cancelRequest, of a window that is closed or shows something else.
CancelRequest(id) ==
  /\ id \in wanted \ forgotten /\ wanted' = wanted \ {id}
  /\ queue' = Finished([queue EXCEPT !.postponed[id.chat] = @ \ {id}], id)
  /\ UNCHANGED <<entries, readVars, readTill, sendReads, historyVars, lastId, asks, toggles>>

\* The handlers of History and Send.
Answered(id) ==
  /\ id \in queue.alive /\ id.type \in {"History", "Send"}
  /\ queue' = Finished(Arrived(id), id) /\ wanted' = wanted \ {id}
  /\ UNCHANGED <<entries, readVars, readTill, sendReads, historyVars, lastId, asks, toggles>>

\* deleteMessages: the last message may not be known any more.
Deleted(id) ==
  /\ id \in queue.alive /\ id.type = "Delete"
  /\ LET q == Finished(Arrived(id), id) IN queue' \in {q, AskedFor(q, id.chat)}
  /\ UNCHANGED <<entries, readVars, readTill, sendReads, wanted, historyVars, lastId, asks, toggles>>

\* deleteAllMessages and deleteMessagesByDates, when the server has not deleted all yet.
DeletedSome(id) ==
  /\ id \in queue.alive /\ id.type = "Delete" /\ lastId < MaxRequests /\ lastId' = lastId + 1
  /\ queue' = Finished(Added(Arrived(id), NewId(id.chat, "Delete", 0)), id)
  /\ UNCHANGED <<entries, readVars, readTill, sendReads, wanted, historyVars, asks, toggles>>

\* deleteAllMessages of a channel: the handler does not call finish, and an error
\* has no handler.
ChannelDeleted(id) ==
  /\ id \in queue.alive /\ id.type = "Delete" /\ queue' = Arrived(id)
  /\ endless' = endless \union {id}
  /\ UNCHANGED <<entries, readVars, readTill, sendReads, wanted, forgotten, orphans, cleared,
                 lastId, asks, toggles>>

-----------------------------------------------------------------------------
(* The entry of a chat in the list *)

RequestDialogEntry(c) ==
  /\ asks < MaxAsks /\ asks' = asks + 1 /\ queue' = AskedFor(queue, c)
  /\ UNCHANGED <<entries, readVars, readTill, sendReads, wanted, historyVars, lastId, toggles>>

\* sendDialogRequests.
EntriesSent(q) ==
  [q EXCEPT !.entry = @ \union {c \in q.pending : PostponeEntry(q.sent[c])},
            !.requested = @ \union q.pending, !.pending = {}, !.call = FALSE]

SendDialogRequests ==
  LET peers == {c \in queue.pending : ~PostponeEntry(queue.sent[c])} IN
  /\ queue.call /\ queue' = EntriesSent(queue)
  /\ IF peers = {} THEN UNCHANGED entries
     ELSE \E i \in 1..MaxEntries : entries[i] = {} /\ entries' = [entries EXCEPT ![i] = peers]
  /\ UNCHANGED <<readVars, readTill, sendReads, wanted, historyVars, lastId, asks, toggles>>

\* Mutant: an entry is applied although it has to be asked for again.
ToApply(peers) == peers

\* Those of a getPeerDialogs whose entry is applied.
Appliable(peers) == peers \ queue.entry

\* applyPeerDialogs, with the position x of chat r at the server, and dialogEntryApplied.
EntriesApplied(i, r, x) ==
  LET P == Appliable(entries[i])
      R == {c \in P \intersect sentDone : sentRead[c] # 0}
      At(c) == IF c \in R /\ sentRead[c] > readTill[c] THEN sentRead[c] ELSE readTill[c] IN
  /\ entries[i] # {} /\ entries' = [entries EXCEPT ![i] = {}]
  /\ queue' = [queue EXCEPT !.pending = @ \ P, !.requested = @ \ P]
  /\ readTill' = [c \in Chats |-> IF c = r /\ x > At(c) THEN x ELSE At(c)]
  /\ sentRead' = [c \in Chats |-> IF c \in R THEN 0 ELSE sentRead[c]]
  /\ UNCHANGED <<willRead, sentDone, timer, sendReads, wanted, historyVars, lastId, asks, toggles>>

-----------------------------------------------------------------------------
(* Reading *)

\* The queue after sendReadRequests: nothing is left of any chat without the setting.
ReadsAdded(q, due, will) ==
  LET Reads == {NewId(c, "ReadInbox", will[c]) : c \in due} IN
  IF ~sendReads THEN [q EXCEPT !.sent = None, !.postponed = None, !.entry = {}]
  ELSE [q EXCEPT !.sent = [c \in Chats |-> @[c] \union {id \in Reads : id.chat = c}],
                 !.alive = @ \union Reads,
                 !.entry = @ \union (due \intersect q.requested)]

\* Mutant: the timer is not started again for the chats that are read later.
StillToRead(due, will) == FALSE

\* Chats that are read later.
ReadLater(due, will) == \E c \in Chats \ due : will[c] # 0

\* sendReadRequests, from a state of the readings, for the chats that are due.
SendReadRequests(q, due, will, sent, done) ==
  IF sendReads
    THEN /\ \A c \in due : will[c] # 0
         /\ due # {} => lastId < MaxRequests
         /\ lastId' = IF due = {} THEN lastId ELSE lastId + 1
         /\ willRead' = [c \in Chats |-> IF c \in due THEN 0 ELSE will[c]]
         /\ sentRead' = [c \in Chats |-> IF c \in due THEN will[c] ELSE sent[c]]
         /\ sentDone' = done \ due
         /\ timer' = ReadLater(due, will)
         /\ UNCHANGED historyVars
    ELSE /\ due = {} /\ willRead' = Zero /\ sentRead' = Zero /\ sentDone' = {}
         /\ forgotten' = forgotten \union UNION {q.postponed[c] : c \in Chats}
         /\ orphans' = orphans \union q.entry /\ cleared' = TRUE
         /\ UNCHANGED <<timer, lastId, endless>>

\* readInboxTill when it sends at once: unread messages are not left, or not known, or
\* the chat is open.  What is not known is not marked as read here either.
ReadNow(c, till, unknown) ==
  LET will == [willRead EXCEPT ![c] = till] IN
  /\ till > readTill[c] \/ willRead[c] # 0
  /\ till > sentRead[c] /\ till > willRead[c]
  /\ \E due \in SUBSET Chats :
       /\ sendReads => c \in due
       /\ SendReadRequests(queue, due, will, sentRead, sentDone)
       /\ queue' = ReadsAdded(queue, due, will)
  /\ readTill' = IF unknown \/ till =< readTill[c] THEN readTill ELSE [readTill EXCEPT ![c] = till]
  /\ UNCHANGED <<entries, sendReads, wanted, asks, toggles>>

\* readInboxTill when others stay unread: it waits for the timer, unless the count
\* does not change.
ReadSoon(c, till, same) ==
  /\ till > readTill[c] /\ till > sentRead[c] /\ till > willRead[c]
  /\ IF same THEN UNCHANGED <<willRead, timer>>
     ELSE willRead' = [willRead EXCEPT ![c] = till] /\ timer' = TRUE
  /\ readTill' = [readTill EXCEPT ![c] = till]
  /\ UNCHANGED <<queue, entries, sentRead, sentDone, sendReads, wanted, historyVars,
                 lastId, asks, toggles>>

\* The timer, or sendPendingReadInbox for a chat that is left.
ReadDue ==
  /\ timer
  /\ \E due \in SUBSET Chats :
       /\ sendReads => due # {}
       /\ SendReadRequests(queue, due, willRead, sentRead, sentDone)
       /\ queue' = ReadsAdded(queue, due, willRead)
  /\ UNCHANGED <<entries, readTill, sendReads, wanted, asks, toggles>>

\* The handler of a ReadInbox: the entry is asked for when the chat is not marked.
ReadDone(id) ==
  LET c == id.chat
      mine == sentRead[c] = id.till
      refresh == mine /\ id.till > readTill[c]
      q == IF refresh THEN AskedFor(Arrived(id), c) ELSE Arrived(id)
      sent == IF mine /\ ~refresh THEN [sentRead EXCEPT ![c] = 0] ELSE sentRead
      done == IF mine THEN sentDone \union {c} ELSE sentDone IN
  /\ id \in queue.alive /\ id.type = "ReadInbox"
  /\ \E due \in SUBSET Chats :
       /\ SendReadRequests(q, due, willRead, sent, done)
       /\ queue' = Finished(ReadsAdded(q, due, willRead), id)
  /\ UNCHANGED <<entries, readTill, sendReads, wanted, asks, toggles>>

Toggle ==
  /\ toggles < MaxToggles /\ toggles' = toggles + 1 /\ sendReads' = ~sendReads
  /\ UNCHANGED <<queue, entries, readVars, readTill, wanted, historyVars, lastId, asks>>

-----------------------------------------------------------------------------
Next ==
  \/ \E c \in Chats : \/ \E type \in Types \ {"ReadInbox"} : SendRequest(c, type)
                      \/ RequestDialogEntry(c)
                      \/ \E till \in 1..MaxTill[c], b \in BOOLEAN : ReadNow(c, till, b) \/ ReadSoon(c, till, b)
  \/ \E id \in wanted : CancelRequest(id)
  \/ \E id \in queue.alive :
       Answered(id) \/ Deleted(id) \/ DeletedSome(id) \/ ChannelDeleted(id) \/ ReadDone(id)
  \/ SendDialogRequests \/ ReadDue \/ Toggle
  \/ \E i \in 1..MaxEntries : \E c \in entries[i] : \E x \in 0..MaxTill[c] : EntriesApplied(i, c, x)

Spec == Init /\ [][Next]_vars

-----------------------------------------------------------------------------
(* Properties *)

\* A chat is not read from the server while its messages are being deleted.
HistoryWaitsForDelete ==
  \A c \in Chats : PostponeHistory(queue.sent[c]) => OfType(queue.sent[c], "History") = {}

\* One of them is at the server, and its handler calls finish, or it is one that was
\* answered and whose handler does not (endless): what waits for that one stays.
Ends(S) == S \intersect (queue.alive \union endless) # {}

\* What is postponed waits for a Delete, at the server or endless, and what was asked
\* for is in the hands of the server or postponed: nothing is forgotten but with all
\* the states.
HistoryComes ==
  /\ \A c \in Chats : queue.postponed[c] # {} => Ends(OfType(queue.sent[c], "Delete"))
  /\ wanted \subseteq queue.alive \union (UNION {queue.postponed[c] : c \in Chats}) \union forgotten

\* A chat whose entry is wanted gets it: a call is on its way, or the server was asked,
\* or a request that excludes it will end and ask again.
EntryComes ==
  /\ queue.pending # {} => queue.call
  /\ \A c \in queue.requested :
       \/ c \in orphans \/ \E i \in 1..MaxEntries : c \in entries[i]
       \/ c \in queue.entry /\ Ends(queue.sent[c] \ OfType(queue.sent[c], "History"))

\* What is to be read is sent by the timer, and what was sent is ended by its answer
\* or by the entry that was asked for after it.
ReadingComes ==
  /\ timer \/ \A c \in Chats : willRead[c] = 0
  /\ \A c \in Chats : sentRead[c] # 0 =>
       \/ \E id \in OfType(queue.alive, "ReadInbox") : id.chat = c /\ id.till = sentRead[c]
       \/ c \in sentDone /\ c \in queue.pending \union queue.requested

\* The assertions of finishSentRequest, sendReadRequest and the handler of a reading.
AssertionsHold ==
  /\ queue.entry \subseteq queue.requested \ queue.pending
  /\ \A c \in Chats : willRead[c] # 0 => willRead[c] > sentRead[c]
  /\ cleared \/ \A id \in OfType(queue.alive, "ReadInbox") :
                  sentRead[id.chat] # 0 => sentRead[id.chat] >= id.till
=============================================================================
