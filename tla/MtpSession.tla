----------------------------- MODULE MtpSession -----------------------------
(***************************************************************************)
(* The life of a request between the main thread (Instance::Private and    *)
(* Session) and the thread of its connection (SessionPrivate), which share *)
(* SessionData: toSend, haveSent and haveReceived, each with its own lock. *)
(*                                                                         *)
(* A step is what a thread does while it holds one of those locks, with    *)
(* the thread-local work around it: cancelling a request, sending a single *)
(* request and resending one are therefore several steps, and the other    *)
(* thread can run between them.  thread and hand are what the session      *)
(* thread is in the middle of, main and mainReq what the main thread is.   *)
(*                                                                         *)
(* The ping and the exchange of salts before a connection counts as        *)
(* Connected, the encryption and the sizes of messages are left out.  The  *)
(* server is not in src/: it may lose what is in flight with a connection, *)
(* reject a message, forget a session, and it answers what it received.    *)
(***************************************************************************)
EXTENDS Integers, Sequences, FiniteSets

CONSTANTS Requests,       \* request ids: the order of toSendMap()
          Big,            \* requests that fill a container: kCutContainerOnSize
          None,           \* no request
          IdsBufferSize,  \* kIdsBufferSize
          RetryNow,       \* answers may be errors that are retried at once
          MaxMsgId,       \* bound: message ids
          MaxFaults       \* bound: faults, error answers and timers

ASSUME RequestsAssumption == Requests \subseteq Nat /\ IsFiniteSet(Requests)
                             /\ Big \subseteq Requests /\ None \notin Requests
ASSUME BoundsAssumption == /\ IdsBufferSize \in Nat \ {0} /\ MaxMsgId \in Nat
                           /\ MaxFaults \in Nat /\ RetryNow \in BOOLEAN

VARIABLES
  \* the main thread, class Instance::Private
  registered,      \* _requestMap and _requestsByDc
  callbacks,       \* _parserMap
  delayed,         \* _delayedRequests
  started,         \* history: requests given to sendRequest
  main, mainReq,   \* what the main thread is doing, and with which request
  mainMsgId,       \* the message id cancel() read
  \* class SessionData and the requests in it
  toSend,          \* toSendMap()
  haveSent,        \* haveSentMap()
  haveReceived,    \* haveReceivedMessages()
  msgIdOf,         \* getMsgId() of a request, 0 before it is sent
  forced,          \* requests with forceSendInContainer
  \* the session thread, class SessionPrivate
  thread, hand,    \* what the session thread is doing, and the requests it holds
  toResend,        \* message ids a loop over resend() still has to do
  connected,       \* _state == ConnectedState
  markedAsStarted, \* _sessionMarkedAsStarted
  resendingIds,    \* _resendingIds
  ackedIds,        \* _ackedIds
  sentContainers,  \* _sentContainers, the ids in each
  stateData,       \* _stateRequestData
  stateRequests,   \* _stateAndResendRequests, the ids each asks about
  checkTimer,      \* _checkSentRequestsTimer.isActive()
  lastMsgId,       \* the clock that makes message ids, which may be set back
  \* the server and the network
  inFlight,        \* packets sent on this connection and not received yet
  seen,            \* messages of this session that were received
  answers,         \* those whose answer has not been handled
  forgot,          \* the server lost the session and has not said so yet
  \* history
  collided,        \* an id that was still in use was given to another message
  given,           \* ids made since the session id was changed
  leftIds,         \* old ids of what the first chunk of a session did not reach
  abandoned,       \* requests the session has stopped to wait for, see Abandon
  faults           \* faults, error answers and timers so far

mainVars == <<registered, callbacks, delayed, started, main, mainReq, mainMsgId>>
sharedVars == <<toSend, haveSent, haveReceived, msgIdOf, forced>>
loopVars == <<thread, hand, toResend>>
stateVars == <<connected, markedAsStarted, lastMsgId>>
idVars == <<resendingIds, ackedIds, sentContainers, stateRequests>>
checkVars == <<stateData, checkTimer>>
sessionVars == <<loopVars, stateVars, idVars, checkVars>>
serverVars == <<inFlight, seen, answers, forgot>>
idHistory == <<collided, given, leftIds>>
historyVars == <<idHistory, abandoned>>
vars == <<mainVars, sharedVars, sessionVars, serverVars, historyVars, faults>>

Ids == 1..MaxMsgId
IdMap == [Ids -> Requests \union {None}]
NoIds == [m \in Ids |-> None]
IdSets == [Ids -> SUBSET Ids]
NoSets == [m \in Ids |-> {}]
Packets == [id : Ids, inner : SUBSET Ids]
Keys(map) == {m \in Ids : map[m] # None}
Answers == {"done", "failed", "later", "now"}

TypeOK ==
  /\ registered \subseteq started /\ callbacks \subseteq started
  /\ delayed \subseteq started /\ started \subseteq Requests
  /\ main \in {"idle", "send", "cancel", "cancelSent", "restore"} \union Answers
  /\ mainReq \in Requests \union {None}
  /\ mainMsgId \in 0..MaxMsgId
  /\ toSend \subseteq started
  /\ haveSent \in IdMap /\ resendingIds \in IdMap /\ ackedIds \in IdMap
  /\ haveReceived \in Seq([request : Requests, answer : Answers])
  /\ msgIdOf \in [Requests -> 0..MaxMsgId] /\ forced \subseteq Requests
  /\ thread \in {"idle", "sending", "sendingFirst", "resending"}
  /\ hand \subseteq (0..MaxMsgId) \X Requests
  /\ toResend \subseteq Ids
  /\ connected \in BOOLEAN /\ markedAsStarted \in BOOLEAN
  /\ sentContainers \in IdSets /\ stateRequests \in IdSets /\ stateData \subseteq Ids
  /\ checkTimer \in BOOLEAN
  /\ lastMsgId \in 0..MaxMsgId
  /\ inFlight \subseteq Packets /\ seen \subseteq Ids /\ answers \subseteq seen
  /\ forgot \in BOOLEAN
  /\ collided \in BOOLEAN /\ given \subseteq Ids /\ leftIds \subseteq Ids
  /\ abandoned \subseteq Requests
  /\ faults \in 0..MaxFaults

Init ==
  /\ registered = {} /\ callbacks = {} /\ delayed = {} /\ started = {}
  /\ main = "idle" /\ mainReq = None /\ mainMsgId = 0
  /\ toSend = {} /\ haveSent = NoIds /\ haveReceived = <<>>
  /\ msgIdOf = [r \in Requests |-> 0] /\ forced = {}
  /\ thread = "idle" /\ hand = {} /\ toResend = {}
  /\ connected = FALSE /\ markedAsStarted = FALSE
  /\ resendingIds = NoIds /\ ackedIds = NoIds
  /\ sentContainers = NoSets /\ stateRequests = NoSets /\ stateData = {}
  /\ checkTimer = FALSE /\ lastMsgId = 0
  /\ inFlight = {} /\ seen = {} /\ answers = {} /\ forgot = FALSE
  /\ collided = FALSE /\ given = {} /\ leftIds = {} /\ abandoned = {}
  /\ faults = 0

-----------------------------------------------------------------------------
(* The main thread *)

\* Mutant: the message id of the last try is kept.
SendPreparedKeepsId(r) == /\ toSend' = toSend \union {r}
                          /\ abandoned' = abandoned \ {r}
                          /\ UNCHANGED msgIdOf

\* Session::sendPrepared, under the lock of toSend: the request starts without
\* a message id.
SendPrepared(r) == /\ toSend' = toSend \union {r}
                   /\ msgIdOf' = [msgIdOf EXCEPT ![r] = 0]
                   /\ abandoned' = abandoned \ {r}

\* sendRequest stores and registers the request before it gives it away.
SendRequest(r) == /\ main = "idle" /\ r \notin started
                  /\ started' = started \union {r}
                  /\ registered' = registered \union {r}
                  /\ callbacks' = callbacks \union {r}
                  /\ main' = "send" /\ mainReq' = r
                  /\ UNCHANGED <<delayed, mainMsgId, sharedVars, sessionVars,
                                 serverVars, historyVars, faults>>

GiveToSession == /\ main = "send"
                 /\ SendPrepared(mainReq)
                 /\ main' = "idle" /\ mainReq' = None
                 /\ UNCHANGED <<registered, callbacks, delayed, started, mainMsgId,
                                haveSent, haveReceived, forced, sessionVars, serverVars,
                                idHistory, faults>>

\* cancel reads the message id without a lock, unregisters the request, removes
\* it from toSend, and then what haveSent has under that id.
CancelRequest(r) == /\ main = "idle" /\ r \in registered
                    /\ registered' = registered \ {r}
                    /\ mainMsgId' = msgIdOf[r]
                    /\ main' = "cancel" /\ mainReq' = r
                    /\ UNCHANGED <<callbacks, delayed, started, sharedVars, sessionVars,
                                   serverVars, historyVars, faults>>

CancelToSend == /\ main = "cancel"
                /\ toSend' = toSend \ {mainReq}
                /\ main' = "cancelSent"
                /\ UNCHANGED <<registered, callbacks, delayed, started, mainReq,
                               mainMsgId, haveSent, haveReceived, msgIdOf, forced,
                               sessionVars, serverVars, historyVars, faults>>

CancelHaveSent == /\ main = "cancelSent"
                  /\ haveSent' = [m \in Ids |-> IF m = mainMsgId THEN None ELSE haveSent[m]]
                  /\ callbacks' = callbacks \ {mainReq}
                  /\ main' = "idle" /\ mainReq' = None /\ mainMsgId' = 0
                  /\ UNCHANGED <<registered, delayed, started, toSend, haveReceived,
                                 msgIdOf, forced, sessionVars, serverVars, historyVars, faults>>

\* tryToReceive and processCallback: the handler is taken out of _parserMap
\* before the answer is looked at.  Without one the request is unregistered.
ProcessCallback ==
  /\ main = "idle" /\ haveReceived # <<>>
  /\ haveReceived' = Tail(haveReceived)
  /\ LET r == Head(haveReceived).request IN
       IF r \in callbacks
         THEN /\ callbacks' = callbacks \ {r}
              /\ main' = Head(haveReceived).answer /\ mainReq' = r
              /\ UNCHANGED registered
         ELSE /\ registered' = registered \ {r}
              /\ UNCHANGED <<callbacks, main, mainReq>>
  /\ UNCHANGED <<delayed, started, mainMsgId, toSend, haveSent, msgIdOf, forced,
                 sessionVars, serverVars, historyVars, faults>>

\* The handler accepts the answer, or the error is one to give to its owner.
HandleFinal == /\ main \in {"done", "failed"}
               /\ registered' = registered \ {mainReq}
               /\ main' = "idle" /\ mainReq' = None
               /\ UNCHANGED <<callbacks, delayed, started, mainMsgId, sharedVars,
                              sessionVars, serverVars, historyVars, faults>>

\* onErrorDefault: a server error or a flood wait is retried after a while ...
HandleLater == /\ main = "later"
               /\ delayed' = delayed \union {mainReq}
               /\ main' = "restore"
               /\ UNCHANGED <<registered, callbacks, started, mainReq, mainMsgId,
                              sharedVars, sessionVars, serverVars, historyVars, faults>>

\* ... and a migration or CONNECTION_NOT_INITED at once.
HandleNow == /\ main = "now"
             /\ SendPrepared(mainReq)
             /\ main' = "restore"
             /\ UNCHANGED <<registered, callbacks, delayed, started, mainReq, mainMsgId,
                            haveSent, haveReceived, forced, sessionVars, serverVars,
                            idHistory, faults>>

\* handleError puts the handler of a retried request back.
RestoreHandler == /\ main = "restore"
                  /\ callbacks' = callbacks \union {mainReq}
                  /\ main' = "idle" /\ mainReq' = None
                  /\ UNCHANGED <<registered, delayed, started, mainMsgId, sharedVars,
                                 sessionVars, serverVars, historyVars, faults>>

\* checkDelayedRequests: a request that is no longer registered is skipped.
CheckDelayed(r) == /\ main = "idle" /\ r \in delayed
                   /\ delayed' = delayed \ {r}
                   /\ IF r \in registered THEN SendPrepared(r)
                                          ELSE UNCHANGED <<toSend, msgIdOf, abandoned>>
                   /\ UNCHANGED <<registered, callbacks, started, main, mainReq,
                                  mainMsgId, haveSent, haveReceived, forced,
                                  sessionVars, serverVars, idHistory, faults>>

-----------------------------------------------------------------------------
(* The session thread: sending *)

Idle == thread = "idle" /\ toResend = {}

\* What one call of tryToSend takes: toSend up to the first request that fills
\* a container.  The rest waits for the call it queues.
Chunk == {r \in toSend : ~\E b \in Big \intersect toSend : b < r}

Least(n, S) == n \in S /\ \A k \in S : n =< k

\* The ids the clock has not made yet, when those of S have got theirs.
Ahead(S, ids) == {n \in Ids : n > lastMsgId /\ \A q \in S : n > ids[q]}

Before(chunk, r) == {q \in chunk : q < r}

\* replaceMsgId does not take an id that is in use.  What the requests before r
\* had in these maps has been moved by then, and r is out of resendingIds.
Taken(chunk, r) ==
  {n \in Ids : \/ resendingIds[n] # None /\ \A q \in chunk : q =< r => msgIdOf[q] # n
               \/ /\ ackedIds[n] # None \/ haveSent[n] # None
                  /\ \A q \in Before(chunk, r) : msgIdOf[q] # n}

\* Mutant: an old id is kept in a new session.
MustReplaceIfAhead(chunk, force, ids, r) ==
  msgIdOf[r] # 0 /\ \E n \in Ahead(Before(chunk, r), ids) : n < msgIdOf[r]

\* prepareToSend replaces the id of a request on the first send of a session
\* (forceNewMsgId), and if it is larger than the one the clock has just made.
MustReplace(chunk, force, ids, r) ==
  msgIdOf[r] # 0 /\ (force \/ \E n \in Ahead(Before(chunk, r), ids) : n < msgIdOf[r])

\* Mutant: replaceMsgId takes the id of the clock without a look.
PreparedUnseen(chunk, force, ids) ==
  \A r \in chunk :
    \/ Least(ids[r], Ahead(Before(chunk, r), ids))
       /\ (msgIdOf[r] = 0 \/ MustReplace(chunk, force, ids, r))
    \/ /\ msgIdOf[r] # 0 /\ ~MustReplace(chunk, force, ids, r)
       /\ ids[r] = msgIdOf[r]

\* The ids a chunk gets: a new request the next one of the clock, unseen; one
\* that has an id keeps it, or has it replaced.
Prepared(chunk, force, ids) ==
  \A r \in chunk :
    LET ahead == Ahead(Before(chunk, r), ids) IN
      \/ msgIdOf[r] = 0 /\ Least(ids[r], ahead)
      \/ /\ msgIdOf[r] # 0 /\ ~MustReplace(chunk, force, ids, r)
         /\ ids[r] = msgIdOf[r]
      \/ /\ MustReplace(chunk, force, ids, r)
         /\ IF Least(msgIdOf[r], ahead) THEN ids[r] = msgIdOf[r]
                                        ELSE Least(ids[r], ahead \ Taken(chunk, r))

\* What the old id of a request was in is moved to its new id.
Replaced(chunk, ids) == {r \in chunk : msgIdOf[r] # 0 /\ ids[r] # msgIdOf[r]}

Moved(map, chunk, ids) ==
  [m \in Ids |->
     IF \E r \in Replaced(chunk, ids) : ids[r] = m /\ map[msgIdOf[r]] # None
       THEN map[msgIdOf[CHOOSE r \in Replaced(chunk, ids) :
                          ids[r] = m /\ map[msgIdOf[r]] # None]]
       ELSE IF \E r \in Replaced(chunk, ids) : msgIdOf[r] = m THEN None
       ELSE map[m]]

MovedIds(old, chunk, ids) ==
  {m \in old : \A r \in Replaced(chunk, ids) : msgIdOf[r] # m}
  \union {ids[r] : r \in {q \in Replaced(chunk, ids) : msgIdOf[q] \in old}}

\* The ids of a chunk, and haveSent with the chunk in it: emplace keeps an entry
\* that is already there.
ChunkIds(chunk, ids) == {ids[r] : r \in chunk}

Emplaced(map, chunk, ids) ==
  [m \in Ids |-> IF m \in ChunkIds(chunk, ids) /\ map[m] = None
                   THEN CHOOSE r \in chunk : ids[r] = m
                   ELSE map[m]]

\* Whether an id still means something: to a request, a container, a request for
\* states, or the server.
Owns(r, m) == \/ haveSent[m] = r \/ resendingIds[m] = r \/ ackedIds[m] = r
              \/ msgIdOf[r] = m \/ <<m, r>> \in hand
              \/ main \in {"cancel", "cancelSent"} /\ mainReq = r /\ mainMsgId = m

InUse(m) == \/ \E r \in Requests : Owns(r, m)
            \/ sentContainers[m] # {} \/ stateRequests[m] # {} \/ m \in seen
            \/ \E c \in Ids : m \in sentContainers[c]
            \/ \E p \in inFlight : m \in p.inner \union {p.id}

\* An id is given without a look at what it is used for, or in spite of a use
\* that replaceMsgId does not look for.
Collides(chunk, ids, others) ==
  \/ \E m \in others : InUse(m)
  \/ \E r \in chunk : /\ ids[r] # msgIdOf[r] /\ InUse(ids[r])
                      /\ msgIdOf[r] = 0 \/ ids[r] \notin Taken(chunk, r)

\* The ids the clock has just made: one may be the same as the old.
FromClock(chunk, force, ids) ==
  {ids[r] : r \in {q \in chunk : ids[q] # msgIdOf[q] \/ (force /\ ids[q] > lastMsgId)}}

\* prepareToSend for a chunk; others are the ids of the container and of the
\* request for states that go with it.
Prepare(chunk, force, ids, others) ==
  /\ Prepared(chunk, force, ids)
  /\ msgIdOf' = [r \in Requests |-> IF r \in chunk THEN ids[r] ELSE msgIdOf[r]]
  /\ resendingIds' = [m \in Ids |-> IF \E r \in chunk : msgIdOf[r] = m
                                      THEN None ELSE resendingIds[m]]
  /\ ackedIds' = Moved(ackedIds, chunk, ids)
  /\ haveSent' = Emplaced(Moved(haveSent, chunk, ids), chunk, ids)
  /\ collided' = (collided \/ Collides(chunk, ids, others))
  /\ given' = given \union FromClock(chunk, force, ids) \union others

\* The first chunk of a session leaves the ids of the others as they are.
LeaveIds(chunk) ==
  leftIds' = IF markedAsStarted THEN leftIds
             ELSE {msgIdOf[r] : r \in toSend \ chunk} \ {0}

\* tryToSend with one request and nothing else to send: it leaves toSend under
\* one lock and enters haveSent under another.
SendSingle(r) ==
  /\ Idle /\ connected /\ stateData = {}
  /\ Chunk = {r} /\ r \notin forced
  /\ lastMsgId < MaxMsgId
  /\ toSend' = toSend \ {r}
  /\ hand' = {<<msgIdOf[r], r>>}
  /\ thread' = IF markedAsStarted THEN "sending" ELSE "sendingFirst"
  /\ markedAsStarted' = TRUE /\ LeaveIds({r})
  /\ UNCHANGED <<mainVars, haveSent, haveReceived, msgIdOf, forced, toResend, connected,
                 lastMsgId, idVars, checkVars, serverVars, collided, given, abandoned,
                 faults>>

FinishSingle ==
  /\ thread \in {"sending", "sendingFirst"}
  /\ \E p \in hand : \E ids \in [{p[2]} -> Ids] :
       /\ Prepare({p[2]}, thread = "sendingFirst", ids, {})
       /\ sentContainers' = [c \in Ids |-> MovedIds(sentContainers[c], {p[2]}, ids)]
       /\ lastMsgId' = IF ids[p[2]] > lastMsgId THEN ids[p[2]] ELSE lastMsgId + 1
       /\ inFlight' = inFlight \union {[id |-> ids[p[2]], inner |-> {ids[p[2]]}]}
  /\ thread' = "idle" /\ hand' = {}
  /\ UNCHANGED <<mainVars, toSend, haveReceived, forced, toResend, connected,
                 markedAsStarted, stateRequests, checkVars, seen, answers, forgot,
                 leftIds, abandoned, faults>>

\* tryToSend with a container: both locks are held, so this is one step.  A
\* request for states in it and the container get the ids after those of the
\* chunk.  Only this branch starts the timer of checkSentRequests.
SendContainer ==
  /\ Idle /\ connected /\ toSend # {}
  /\ \E ids \in [Chunk -> Ids], container \in Ids :
       LET states == IF stateData = {} THEN {} ELSE {container - 1} IN
         /\ Least(IF stateData = {} THEN container ELSE container - 1, Ahead(Chunk, ids))
         /\ Prepare(Chunk, ~markedAsStarted, ids, states \union {container})
         /\ sentContainers' = [c \in Ids |->
              IF c = container /\ sentContainers[c] = {} THEN ChunkIds(Chunk, ids)
              ELSE MovedIds(sentContainers[c], Chunk, ids)]
         /\ stateRequests' = [s \in Ids |-> IF s \in states /\ stateRequests[s] = {}
                                              THEN stateData ELSE stateRequests[s]]
         /\ inFlight' = inFlight \union
              {[id |-> container, inner |-> ChunkIds(Chunk, ids) \union states]}
         /\ lastMsgId' = container
  /\ LeaveIds(Chunk)
  /\ toSend' = toSend \ Chunk /\ stateData' = {}
  /\ markedAsStarted' = TRUE /\ checkTimer' = TRUE
  /\ UNCHANGED <<mainVars, haveReceived, forced, loopVars, connected,
                 seen, answers, forgot, abandoned, faults>>

\* tryToSend with nothing but a request for states, or with nothing of this
\* model: it marks the session as started all the same.
SendStateRequest ==
  /\ Idle /\ connected /\ toSend = {} /\ stateData # {}
  /\ \E id \in Ids :
       /\ id = lastMsgId + 1
       /\ stateRequests' = [stateRequests EXCEPT ![id] = IF @ = {} THEN stateData ELSE @]
       /\ inFlight' = inFlight \union {[id |-> id, inner |-> {id}]}
       /\ lastMsgId' = id /\ given' = given \union {id}
       /\ collided' = (collided \/ InUse(id))
  /\ stateData' = {}
  /\ markedAsStarted' = TRUE /\ LeaveIds({})
  /\ UNCHANGED <<mainVars, sharedVars, loopVars, connected, resendingIds, ackedIds,
                 sentContainers, checkTimer, seen, answers, forgot, abandoned, faults>>

SendNothing == /\ Idle /\ connected /\ toSend = {} /\ stateData = {}
               /\ ~markedAsStarted /\ markedAsStarted' = TRUE /\ LeaveIds({})
               /\ UNCHANGED <<mainVars, sharedVars, loopVars, connected, lastMsgId,
                              idVars, checkVars, serverVars, collided, given, abandoned,
                              faults>>

-----------------------------------------------------------------------------
(* The session thread: resending *)

\* Mutant: the requests in a container are not sent again with it.
StartResendOuter(m) == /\ toResend' = {m}
                       /\ sentContainers' = [sentContainers EXCEPT ![m] = {}]

\* resend, which loops over the ids of a container.
StartResend(m) ==
  /\ toResend' = IF sentContainers[m] # {} THEN sentContainers[m] ELSE {m}
  /\ sentContainers' = [sentContainers EXCEPT ![m] = {}]

\* One request: it leaves haveSent under one lock and enters toSend under
\* another.
TakeResent == /\ thread = "idle" /\ toResend # {}
              /\ \E m \in toResend :
                   /\ \A n \in toResend : m =< n
                   /\ toResend' = toResend \ {m}
                   /\ IF haveSent[m] = None
                        THEN UNCHANGED <<haveSent, hand, thread>>
                        ELSE /\ haveSent' = [haveSent EXCEPT ![m] = None]
                             /\ hand' = {<<m, haveSent[m]>>}
                             /\ thread' = "resending"
              /\ UNCHANGED <<mainVars, toSend, haveReceived, msgIdOf, forced, stateVars,
                             idVars, checkVars, serverVars, historyVars, faults>>

PutResent == /\ thread = "resending"
             /\ toSend' = toSend \union {p[2] : p \in hand}
             /\ forced' = forced \union {p[2] : p \in hand}
             /\ resendingIds' = [m \in Ids |->
                  IF resendingIds[m] = None /\ \E p \in hand : p[1] = m
                    THEN (CHOOSE p \in hand : p[1] = m)[2]
                    ELSE resendingIds[m]]
             /\ thread' = "idle" /\ hand' = {}
             /\ UNCHANGED <<mainVars, haveSent, haveReceived, msgIdOf, toResend,
                            stateVars, ackedIds, sentContainers, stateRequests,
                            checkVars, serverVars, historyVars, faults>>

\* resendAll, once the connection is up.
Connect == /\ Idle /\ ~connected
           /\ connected' = TRUE
           /\ haveSent' = NoIds
           /\ hand' = {<<m, haveSent[m]>> : m \in Keys(haveSent)}
           /\ thread' = "resending"
           /\ UNCHANGED <<mainVars, toSend, haveReceived, msgIdOf, forced, toResend,
                          markedAsStarted, lastMsgId, idVars, checkVars,
                          serverVars, historyVars, faults>>

\* The timers.  checkSentRequests asks about the requests that are old enough
\* and starts its timer again only for those that are not.
CheckSentRequests ==
  /\ Idle /\ checkTimer
  /\ \E old \in SUBSET Keys(haveSent) :
       /\ old # {} => faults < MaxFaults
       /\ stateData' = stateData \union old
       /\ checkTimer' = (old # Keys(haveSent))
       /\ faults' = IF old # {} THEN faults + 1 ELSE faults
  /\ UNCHANGED <<mainVars, sharedVars, loopVars, stateVars, idVars, serverVars, historyVars>>

ClearOldContainer(c) == /\ Idle /\ sentContainers[c] # {} /\ faults < MaxFaults
                        /\ StartResend(c)
                        /\ faults' = faults + 1
                        /\ UNCHANGED <<mainVars, sharedVars, thread, hand, stateVars,
                                       resendingIds, ackedIds, stateRequests, checkVars,
                                       serverVars, historyVars>>

-----------------------------------------------------------------------------
(* The session thread: what it receives *)

\* wasSent: the request an id was used for.
WasSent(m) == IF resendingIds[m] # None THEN resendingIds[m]
              ELSE IF ackedIds[m] # None THEN ackedIds[m]
              ELSE haveSent[m]

WasSomethingSent(m) == sentContainers[m] # {} \/ WasSent(m) # None

\* _ackedIds after it was cut to IdsBufferSize: the smallest ids go.
Newest(map) == [m \in Ids |-> IF Cardinality({k \in Keys(map) : k > m}) < IdsBufferSize
                                THEN map[m] ELSE None]

\* requestsAcked, with the call it makes for the ids of containers.  A request
\* with a callback is only taken away by its response.
Opened(S) == {m \in S : sentContainers[m] = {}} \union UNION {sentContainers[c] : c \in S}

\* Mutant: a bare acknowledgement takes a request away as its response does.
AckedSentAnyway(S, byResponse) == {m \in Opened(S) : haveSent[m] # None}

\* Only the ids that are not in a container are acknowledged by the response.
NeedsNoAnswer(r, m, S, byResponse) == (byResponse /\ m \in S) \/ r \notin callbacks

AckedSent(S, byResponse) ==
  {m \in Opened(S) : /\ haveSent[m] # None
                     /\ NeedsNoAnswer(haveSent[m], m, S, byResponse)}

AckedResending(S, byResponse) ==
  {m \in Opened(S) : /\ haveSent[m] = None /\ resendingIds[m] # None
                     /\ NeedsNoAnswer(resendingIds[m], m, S, byResponse)}

\* The requests an acknowledgement may take away.
TakenAway(S, byResponse) ==
  {r \in Requests : \E m \in Opened(S) : /\ r \in {haveSent[m], resendingIds[m]}
                                        /\ NeedsNoAnswer(r, m, S, byResponse)}

\* History: a request was taken away though its answer may still be wanted.  An
\* acknowledgement that is no response takes what has no handler at the moment,
\* even if the error of its last try is just being handled; and a response may
\* be too late for the entry of its own request in _ackedIds.
Abandon(requests) == abandoned' = abandoned \union requests

RequestsAcked(S, byResponse) ==
  LET sent == AckedSent(S, byResponse)
      resending == AckedResending(S, byResponse)
  IN /\ haveSent' = [m \in Ids |-> IF m \in sent THEN None ELSE haveSent[m]]
     /\ resendingIds' = [m \in Ids |-> IF m \in resending THEN None ELSE resendingIds[m]]
     /\ toSend' = toSend \ {resendingIds[m] : m \in resending}
     /\ ackedIds' = Newest([m \in Ids |->
          IF ackedIds[m] = None /\ m \in sent THEN haveSent[m]
          ELSE IF ackedIds[m] = None /\ m \in resending /\ resendingIds[m] \in toSend
            THEN resendingIds[m]
          ELSE ackedIds[m]])
     /\ sentContainers' = [c \in Ids |-> IF c \in S THEN {} ELSE sentContainers[c]]
     /\ stateRequests' = [s \in Ids |-> IF s \in Opened(S) THEN {} ELSE stateRequests[s]]

\* Mutant: an answer to no request is saved as well.
SaveAnswerAnyway(r, answer) ==
  haveReceived' = Append(haveReceived, [request |-> r, answer |-> answer])

\* Save an answer for the main thread.
SaveAnswer(r, answer) ==
  haveReceived' = IF r = None THEN haveReceived
                  ELSE Append(haveReceived, [request |-> r, answer |-> answer])

\* rpc_result: the request is acknowledged first and looked up then.
RpcResult(m) == /\ Idle /\ connected
                /\ m \in answers /\ stateRequests[m] = {}
                /\ answers' = answers \ {m}
                /\ RequestsAcked({m}, TRUE)
                /\ \E answer \in Answers :
                     /\ answer # "done" => faults < MaxFaults
                     /\ answer = "now" => RetryNow
                     /\ faults' = IF answer = "done" THEN faults ELSE faults + 1
                     /\ SaveAnswer(WasSent(m)', answer)
                /\ Abandon(TakenAway({m}, TRUE) \ {WasSent(m)'})
                /\ UNCHANGED <<mainVars, msgIdOf, forced, loopVars, stateVars,
                               checkVars, inFlight, seen, forgot, idHistory>>

\* msgs_ack.
MsgsAck(m) == /\ Idle /\ connected /\ m \in seen
              /\ RequestsAcked({m}, FALSE)
              /\ Abandon(TakenAway({m}, FALSE))
              /\ UNCHANGED <<mainVars, haveReceived, msgIdOf, forced, loopVars,
                             stateVars, checkVars, serverVars, idHistory, faults>>

\* msgs_state_info, computed by the server when it knew of `known`: what it had
\* not received is sent again, the rest is acknowledged.
MsgsStateInfo(s) ==
  /\ Idle /\ connected
  /\ s \in answers /\ stateRequests[s] # {}
  /\ answers' = answers \ {s}
  /\ \E known \in SUBSET (stateRequests[s] \intersect seen) :
       /\ toResend' = {m \in stateRequests[s] \ known : haveSent[m] # None}
       /\ RequestsAcked({s} \union known, FALSE)
       /\ Abandon(TakenAway({s} \union known, FALSE))
  /\ UNCHANGED <<mainVars, haveReceived, msgIdOf, forced, thread, hand, stateVars,
                 checkVars, inFlight, seen, forgot, idHistory, faults>>

\* The server rejects a message of a packet, or the packet.
Reject(p, m) ==
  /\ Idle /\ connected /\ ~forgot /\ faults < MaxFaults
  /\ p \in inFlight /\ m \in p.inner \union {p.id}
  /\ inFlight' = (inFlight \ {p})
                 \union (IF m = p.id THEN {} ELSE {[p EXCEPT !.inner = @ \ {m}]})
  /\ faults' = faults + 1

\* correctUnixtimeWithBadLocal: the clock of message ids, which all sessions
\* share, is set to the time of the server.
ClockIsSet == lastMsgId' \in 0..lastMsgId

\* bad_msg_notification 16, 17, 64 and bad_server_salt: send it again.
BadMsgResend(p, m) == /\ Reject(p, m)
                      /\ WasSomethingSent(m) /\ StartResend(m)
                      /\ ClockIsSet
                      /\ UNCHANGED <<mainVars, sharedVars, thread, hand, connected,
                                     markedAsStarted, resendingIds, ackedIds,
                                     stateRequests, checkVars, seen, answers, forgot,
                                     historyVars>>

\* Any other code is an error of the server for the request, which stays in
\* haveSent.
BadMsgFatal(p, m) == /\ Reject(p, m)
                     /\ m \in p.inner
                     /\ SaveAnswer(WasSent(m), "later")
                     /\ UNCHANGED <<mainVars, toSend, haveSent, msgIdOf, forced,
                                    sessionVars, seen, answers, forgot, historyVars>>

\* changeSessionId, and the restart that goes with it.
NewSessionId == /\ connected' = FALSE /\ inFlight' = {}
                /\ stateData' = {} /\ markedAsStarted' = FALSE
                /\ given' = {} /\ leftIds' = {}
                /\ seen' = {} /\ answers' = {} /\ forgot' = FALSE

\* bad_msg_notification 32 and 33: restart() with _needSessionReset.
BadMsgReset(p) == /\ Idle /\ connected /\ ~forgot /\ faults < MaxFaults
                  /\ p \in inFlight /\ WasSomethingSent(p.id)
                  /\ NewSessionId /\ ClockIsSet
                  /\ faults' = faults + 1
                  /\ UNCHANGED <<mainVars, sharedVars, loopVars, idVars, checkTimer,
                                 collided, abandoned>>

\* setCurrentKeyId: the temporary key was changed by another session.
KeyChanged == /\ Idle /\ connected /\ faults < MaxFaults
              /\ NewSessionId
              /\ faults' = faults + 1
              /\ UNCHANGED <<mainVars, sharedVars, loopVars, lastMsgId, idVars,
                             checkTimer, collided, abandoned>>

\* The time of another answer, to this session or another one.
ClockSetBack == /\ faults < MaxFaults /\ faults' = faults + 1
                /\ ClockIsSet /\ lastMsgId' # lastMsgId
                /\ UNCHANGED <<mainVars, sharedVars, loopVars, connected,
                               markedAsStarted, idVars, checkVars, serverVars,
                               historyVars>>

\* new_session_created, after the server has received a packet of a session it
\* does not know, or a ping: what was sent before it is sent again.
NewSessionCreated ==
  /\ Idle /\ connected /\ forgot
  /\ forgot' = FALSE
  /\ \/ \E p \in inFlight :
          /\ inFlight' = inFlight \ {p}
          /\ seen' = p.inner \union {p.id} /\ answers' = p.inner
          /\ toResend' = {m \in Keys(haveSent) : \A n \in p.inner : m < n}
     \/ /\ inFlight = {}
        /\ toResend' = Keys(haveSent)
        /\ UNCHANGED <<inFlight, seen, answers>>
  /\ UNCHANGED <<mainVars, sharedVars, thread, hand, stateVars, idVars, checkVars,
                 historyVars, faults>>

\* restart() for any other reason: what is in flight is lost.
ConnectionLost == /\ Idle /\ connected /\ faults < MaxFaults
                  /\ connected' = FALSE /\ inFlight' = {}
                  /\ faults' = faults + 1
                  /\ UNCHANGED <<mainVars, sharedVars, loopVars, markedAsStarted,
                                 lastMsgId, idVars, checkVars, seen,
                                 answers, forgot, historyVars>>

-----------------------------------------------------------------------------
(* The server *)

ServerReceives(p) == /\ p \in inFlight /\ ~forgot
                     /\ inFlight' = inFlight \ {p}
                     /\ seen' = seen \union p.inner \union {p.id}
                     /\ answers' = answers \union (p.inner \ seen)
                     /\ UNCHANGED <<mainVars, sharedVars, sessionVars, forgot,
                                    historyVars, faults>>

ServerForgets == /\ ~forgot /\ faults < MaxFaults
                 /\ forgot' = TRUE /\ seen' = {} /\ answers' = {}
                 /\ faults' = faults + 1
                 /\ UNCHANGED <<mainVars, sharedVars, sessionVars, inFlight,
                                    historyVars>>

Main == \/ \E r \in Requests : SendRequest(r) \/ CancelRequest(r) \/ CheckDelayed(r)
        \/ GiveToSession \/ CancelToSend \/ CancelHaveSent
        \/ ProcessCallback \/ HandleFinal \/ HandleLater \/ HandleNow \/ RestoreHandler

Send == (\E r \in Requests : SendSingle(r)) \/ SendContainer \/ SendStateRequest

Session == \/ Send \/ SendNothing \/ FinishSingle
           \/ TakeResent \/ PutResent \/ Connect \/ CheckSentRequests
           \/ \E m \in Ids : \/ ClearOldContainer(m) \/ RpcResult(m)
                             \/ MsgsAck(m) \/ MsgsStateInfo(m)
           \/ \E p \in inFlight : \/ BadMsgReset(p)
                                  \/ \E m \in Ids : BadMsgResend(p, m) \/ BadMsgFatal(p, m)
           \/ KeyChanged \/ ClockSetBack \/ NewSessionCreated \/ ConnectionLost

Server == (\E p \in inFlight : ServerReceives(p)) \/ ServerForgets

Next == Main \/ Session \/ Server

Spec == Init /\ [][Next]_vars

\* Both event loops run: a thread that has something to do does something, and
\* the server takes and answers what reaches it.  A reset, a lost connection and
\* every other fault are left open, and so is whether requests are cancelled.
MainWorks == \/ GiveToSession \/ CancelToSend \/ CancelHaveSent
             \/ ProcessCallback \/ HandleFinal \/ HandleLater \/ HandleNow \/ RestoreHandler
             \/ \E r \in Requests : CheckDelayed(r)

SessionWorks == \/ FinishSingle \/ TakeResent \/ PutResent \/ Connect \/ Send
                \/ NewSessionCreated
                \/ \E m \in Ids : RpcResult(m) \/ MsgsStateInfo(m)

Fairness == /\ WF_vars(MainWorks) /\ WF_vars(SessionWorks)
            /\ WF_vars(\E p \in inFlight : ServerReceives(p))

FairSpec == Spec /\ Fairness

-----------------------------------------------------------------------------
(* Properties *)

\* Where a request can be that still waits for its answer.
Located(r) == \/ r \in toSend \union delayed
              \/ \E m \in Ids : haveSent[m] = r
              \/ \E p \in hand : p[2] = r
              \/ \E i \in DOMAIN haveReceived : haveReceived[i].request = r
              \/ main = "send" /\ mainReq = r

\* A request that is registered and waits for its answer is never between two
\* stools: whatever the main thread and the session thread have interleaved, it
\* is in a queue that brings it to the server or its answer to the main thread.
\* The code gives it up in two ways only, see Abandon, and it can be pushed out
\* by a message with its id.
NoLostRequest ==
  collided \/ \A r \in registered \intersect callbacks : Located(r) \/ r \in abandoned

\* The request a single send takes out of toSend has never had an id: prepareToSend
\* cannot reach replaceMsgId there, where the lock it counts on is not held.
SingleSendIsFresh == collided \/ \A r \in toSend \ forced : msgIdOf[r] = 0

\* An id never stands for two requests, in any of the maps of both threads, so
\* an answer cannot reach the wrong request and cancel() removes only its own.
\* The clock may be set back and make an id again: replaceMsgId passes over those
\* it finds in use, and only what gets an id without a look can collide.
OneOwner == \A m \in Ids, r, q \in Requests : Owns(r, m) /\ Owns(q, m) => r = q

IdHasOneOwner == collided \/ OneOwner

\* A session starts with new message ids: no request is sent in it under an id
\* of the session before, but for those its first chunk did not reach.
OnlyIdsOfSession == \A p \in inFlight : p.inner \subseteq given \union leftIds

\* A request does not wait for ever: it is answered, failed or cancelled, however
\* connections, sessions and the server break in between, and the clock is set.
Settles == \A r \in Requests : r \in registered ~> r \notin registered \/ collided
=============================================================================
