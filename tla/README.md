# Verification of the core protocols of the client

This directory holds TLA+ models of the parts of the client where threads, a
network and a server meet, and of the protocols that run above them on the main
thread: the MTProto engine in `Telegram/SourceFiles/mtproto`, and what rests on
it: the order of updates, the requests of chats that exclude each other, and the
balance of downloads. It is where the hard-to-test behaviour of the program
lives: one main thread, a thread per connection, state shared under several
locks, connections that break, a server that repeats, rejects and forgets, and
handlers that come in an order nobody chose.

Paths below are relative to `Telegram/SourceFiles`. `PROJECT.json` gives, for
every definition of a model, the lines of the source it stands for.

## 1. The system

### 1.1 How the parts fit together

    Api::Updates    Data::Histories    DownloadManagerMtproto, loaders     api/ ...
        |  send, cancel            ^ done, fail               main thread
    Instance::Private   _requestsByDc, _parserMap, _delayedRequests, _authWaiters
        |                          ^ tryToReceive
    Session  --- SessionData: toSend, haveSent, haveReceived (a lock each)
        |  queued calls            ^ queued calls
    SessionPrivate                                 one thread per session
        |  buffers                 ^ packets
    AbstractConnection  (TCP, HTTP, TLS, proxies)
        |                          ^
      network and server

    Dcenter: the keys of one data center, shared by its sessions, one lock

* A request is registered in `Instance::Private` and put into `toSend`. The
  thread of the session packs what is in `toSend` into a message or a container,
  gives it message ids and moves it to `haveSent`. An answer goes to
  `haveReceived`, from where the main thread calls its handler, or does what it
  can about an error: send elsewhere, later, or after an authorization.
* A received message has an id; the session remembers the newest ids to tell
  repeated messages, queues acknowledgements, and starts a new session when it
  cannot tell any more.
* Sessions of a data center share its temporary keys. The session that finds
  none takes the right to create one from `Dcenter`; the others wait for a notice.
* Packets of updates go to `Api::Updates`, which orders them by seq and by pts and
  asks for the difference when one is missing. A new session means that pushed
  packets are lost, and is told to `Api::Updates` too.
* `Data::Histories` and the download manager decide when a request is sent at all;
  the manager is told by the sessions about requests that time out.

### 1.2 Inventory

| Component | State | Operations | What is hard | Correct when | Model |
| --- | --- | --- | --- | --- | --- |
| Receiving half: `handleReceived`, `handleOneReceived` (containers), `ReceivedIdsManager` | window of ids, acknowledgements and ids to ask for | receive a message or a container, handle an inner message, cut the window, restart, reset | bounded memory, repeated and late messages, a container that stops half way, lost acknowledgements | a message is handled at most once and acknowledged only when handled; what the server repeats settles | `ReceivedIds` |
| Request life cycle: `Session`, `SessionData`, `SessionPrivate` | `toSend`, `haveSent`, `haveReceived`, `_resendingIds`, `_ackedIds`, `_sentContainers`, state requests, timers | send, cancel, answer, retry, resend, acknowledge, ask for states, reset | two threads and three locks, one request in several maps, rejected and forgotten messages | no request is lost, an id means one request, a session uses its own ids, a request settles | `MtpSession` |
| Keys: `Dcenter`, `BoundKeyCreator`, the connecting half of `SessionPrivate` | persistent and temporary keys, creation flags, right and creator of each session | acquire, create, bind, refuse, destroy, announce, kill | several sessions, calls between which the lock is free, keys destroyed meanwhile | one creator per key, keys bound to the persistent key, every session gets a key | `DcKeys` |
| Instance: `mtp_instance.cpp` | `_requestsByDc`, `_parserMap`, `_authWaiters`, `_delayedRequests`, `_dependentRequests`, sessions | send, cancel, errors, migration, export and import of authorization, destroy a session | several data centers, errors that cross, sessions destroyed with requests | a handler is called once; a registered request is in one place from where it comes back | `Instance` |
| Updates: `PtsWaiter`, `Api::Updates` | pts, sum of counts, queue of skipped updates, packets by seq, timers | check, skip, apply, get the difference, poll | reordered, repeated and lost updates; one timer for several reasons; differences in slices | no update is skipped, order, every gap is closed | `Updates` |
| `Data::Histories` | requests sent, postponed, read states, entries | send, cancel, postpone, finish, read, ask for an entry | requests that exclude each other; a setting that drops all states | exclusion, and nothing stays postponed for ever | `Histories` |
| Downloads: manager, `mtpFileLoader`, `LoaderMtproto` | queue, sessions of a data center, parts in flight | join, send, answer, fail, time out, add and remove a session | indices that shift, late answers | counts match what is in flight, room is used, sessions stop | `Downloads` |
| Key exchange and binder | nonces, steps of the exchange | the Diffie-Hellman exchange | cryptography | outside | outcomes only |
| Transports, resolving, proxies | sockets, test connections | connect, send, receive, time out | input and output | outside | "up" and "lost" |
| DC options, configuration | address lists | load, apply | parsing | outside | no |
| `ConcurrentSender`, `DedicatedLoader`, `Sender` | handlers of other threads | forward, cancel | handlers outliving their owner | no call after cancel | no |
| Uploads | parts in flight per session | send parts, fail, cancel | a part failing among others | counts match; a file ends once | planned |
| Local storage | file generations | write, read | a crash between two steps | a reader finds the newest complete file | planned |
| Streaming reader | slices, cache, two threads | fill, load, unload | a loader and a player in two threads | no slice is lost | planned |
| Ayu additions | offline packets, saved messages | timers, SQLite | order of packets in ghost mode | small | the setting in `Histories` |
| Accounts and domain | accounts, sessions | start, switch, log out | object life times | - | no |
| `ApiWrap` and `api/` | many independent requests | - | none shared beyond the engine | - | no |
| History and data model | messages, dialogs | - | one thread, large structures | - | no |
| User interface, login, calls, export, passport, payments, instant view, platform, language | - | - | sequential or graphical | - | no |

The hazards of this code, each at its line, are in `PROJECT.json` under
`hazards`, with the properties that watch them. Those without a property say why.

## 2. Plan

Done:

1. `Delivery`, `ReceivedIds`, `ReceivedIdsProofs`.
2. `MtpSession`, `MtpSessionProofs`.
3. `DcKeys`, `DcKeysProofs`.
4. `Updates`, `UpdatesProofs`.
5. `Handlers`, `Instance`, `InstanceProofs`, `InstancePlacesProofs`.
6. `Histories`, `HistoriesProofs`.
7. `Downloads`, `DownloadsProofs`.

Left, in this order:

1. An abstract session (requests go in, each is answered, fails or is cancelled)
   that `MtpSession` implements and `Instance` uses, with the refinement proved.
2. Local storage: the steps of a write with a crash between any two (observation
   18 of section 6 is where it would start).
3. The other half of downloads: redirects to a CDN with its hashes; then uploads.
4. The streaming reader, the qts of `Updates`, the sessions that destroy keys.

Every module has its parameters as constants with named assumptions, one action
for each handler or locked section. No module has a RECURSIVE operator, and the
theorems are in modules of their own for each component.

How the models compose. `Instance` sees a session as the set of requests in it,
which is what `MtpSession` shows of one session: every request in it is answered
(`Settles`) and none is lost (`NoLostRequest`). `Updates`, `Histories` and
`Downloads` in turn see the engine as "a request is answered or fails, in any
order with others", which is what `Instance` promises in `Handlers`; a session
the instance destroys with requests in it is the one exception, noted in section
6. `MtpSession` takes a usable key from `DcKeys`, and `Updates` takes the notice
that a session is new from `ReceivedIds` and `MtpSession`.

## 3. The modules

### 3.1 `Delivery` and `ReceivedIds`

`Delivery` is what the receiver promises the server: a message of a session is
handled at most once and acknowledged only when it was handled, or when its
container was cut inside it so that it could not be read (`Cut`, observation 2 of
section 6); a new session starts with nothing. It remembers everything.

`ReceivedIds` is the code. One thread runs `handleReceived`, so the only other
actors are the server and the network; still the loop over a container is one
step per message, because the window grows, is tested and is cut at different
points of it.

| Model | Code |
| --- | --- |
| `idsNeedAck` | keys of `ReceivedIdsManager::_idsNeedAck` (the value is not used by these properties) |
| `ackRequestData`, `resendRequestData` | the two vectors of `SessionPrivate` |
| `busy`, `inner`, `res` | the packet in hand: what is left of the loop in the container branch, and the `HandleResult` |
| `Registered`, `Shrunk` | `registerMsgId`, `shrink` |
| `Receive`, `ReceiveContainer`, `HandleInner` | `handleReceived` and the container branch |
| `HandleInnerCut` | the returns of that branch before a message is registered (`session_private.cpp:1474-1511`): with its acknowledgement queued (`1504`, then `1509`), or without |
| `RunHandler` | the handler of a message: any outcome; `msg_detailed_info` is modelled in full since it reads the window |
| `Finish`, `FinishRestart`, `FinishReset` | the end of `handleReceived` and `restart`, for each kind of `HandleResult`; `DestroyTemporaryKey` counts as a reset, since `destroyTemporaryKey` gives the key up and `setCurrentKeyId` then takes a new session id |
| `NewSession`, `KeyChanged` | `changeSessionId`; `applyAuthKey` when another session of the dc replaced the key |
| `SendRequests` | the part of `tryToSend` that takes both vectors |
| `handled`, `unread` | history: what was handled, and what was acknowledged without being read |
| `created`, `pending`, `acksOnWire` | the server and the wire |

`shrink` erases the smallest ids one by one; the model states the result (the
set that is left), and TLC and the prover both use that definition.

Left out: the check that a message id is odd and recent (`handleReceived`
rejects such packets before this code), decryption, `lookup` for
`msgs_state_req`, which the code does not answer.

### 3.2 `MtpSession`

The main thread and the session thread share `SessionData`. A step of the model
is what a thread does while holding one of its locks. So `cancel` is three steps
(`CancelRequest`, `CancelToSend`, `CancelHaveSent`), sending a single request is
two, resending is two for each request, and handling an answer is two or three,
with the handler out of `_parserMap` in between. Sending a container holds both
locks and is one step.

| Model | Code |
| --- | --- |
| `registered`, `callbacks`, `delayed` | `_requestMap`, `_parserMap`, `_delayedRequests` |
| `main`, `mainReq`, `mainMsgId` | local variables of `cancel`, `sendRequest`, `processCallback` |
| `toSend`, `haveSent`, `haveReceived` | `SessionData` |
| `msgIdOf`, `forced` | fields of `SerializedRequest` |
| `thread`, `hand`, `toResend` | local variables of `tryToSend`, `resend`, `resendAll` |
| `resendingIds`, `ackedIds`, `sentContainers`, `stateData`, `stateRequests`, `checkTimer`, `markedAsStarted` | members of `SessionPrivate` |
| `lastMsgId` | the clock that makes ids, `base::unixtime::mtproto_msg_id` (in `lib_base`, a submodule that is not here) |
| `ClockIsSet`, `ClockSetBack` | `correctUnixtimeWithBadLocal` and `correctUnixtimeByFastRequest`, by this session or another one |
| `Prepare`, `Prepared`, `MustReplace`, `Taken`, `Replaced`, `Moved`, `MovedIds` | `prepareToSend` and `placeToContainer`; the conditions, the loop over ids in use and the moves of `replaceMsgId` |
| `RequestsAcked`, `RpcResult`, `MsgsAck`, `MsgsStateInfo`, `BadMsg...`, `NewSessionCreated` | the branches of `handleOneReceived` |
| `inFlight`, `seen`, `answers`, `forgot` | the network and the server |
| `collided` | history: an id that was still in use was given to something that does not look for uses |
| `given`, `leftIds` | history: the ids made in this session, and the old ids its first chunk left to others |
| `abandoned` | history: requests the session has stopped to wait for (`Abandon`) |

The clock usually grows, but it is set back when the server says that ids are too
high, and the code has two answers to that, both in the model: an id that is larger
than what the clock makes is replaced (`session_private.cpp:467`), and a
replacement passes over ids in use (`489-493`). A request that gets its first id, a
container and a request for states get one without a look; `collided` remembers that
such an id was in use. After that an entry of `haveSent` that is there already stays
(`emplace`), and the order of ids within a chunk is not followed any more.

Left out: the ping and the exchange of salts before a connection counts as
connected (`Connect` is the moment `resendAll` is called), `invokeAfter`, sizes
(a request in `Big` fills a container by itself), the timers' lengths (a timer
may fire at any time), errors that change the data center (they are `HandleNow`:
`sendPrepared` to a session, here the same one).

### 3.3 `DcKeys`

`Dcenter` locks each of its calls and not between two, so a handler that reads a
key and then acquires the right to create one is split there (`step`). Sessions
have a real type; a media session may work as a regular one when it is to create
the regular key.

| Model | Code |
| --- | --- |
| `persistent`, `temporary`, `creating` | `_persistentKey`, `_temporaryKeys`, `_creatingKeys` |
| `mine` | `Session::_myKeyCreation` |
| `changes`, `update`, `destroyed`, `restarts` | queued calls: `dcTemporaryKeyChanged`, `updateAuthKey`, `keyDestroyedOnServer`, `restartNow` |
| `keyId`, `encryption`, `creator`, `currentType` | `_keyId`, `_encryptionKey`, `_keyCreator`, `_currentDcType` |
| `Acquired`, `Accepts`, `Failed`, `Without` | the methods of `Dcenter` |
| `ConnectToServer`, `Connected`, `UpdateAuthKey`, `NoKey`, `Acquire`, `Start` | `connectToServer`, `checkAuthKey`, `updateAuthKey`, `applyAuthKey` in its parts |
| `UnboundReady`, `UnboundFailed`, `CdnReady`, `Bind...` | the delegate of `BoundKeyCreator`, `handleBindResponse` |
| `KeyChanged`, `KeyDestroyed`, `RestartNow` | `dcTemporaryKeyChanged`, `keyDestroyedOnServer` and the restart of every session of the data center that it ends with |
| `Kill`, `DestroySession` | `Session::kill`, `~Session` |
| `forgotten`, `unknown`, `boundTo` | the server; a history variable |

Left out: `_connectionInited`, the expiry of a temporary key, the session that
destroys keys on log out (`isKeysDestroyer`), and the return of `connectToServer`
when the type has changed under a creator (`session_private.cpp:1017`), which gives
the temporary key up once more: the real type comes from the list of data centers,
which does not change here.

### 3.4 `Updates`

One thread; a packet is fed update by update (`hand` is the packet in hand, and
keeps other events out). There are two boxes: the account ("common") and one
channel. `Ready` steps are the events of the main thread.

| Model | Code |
| --- | --- |
| `good`, `last`, `count` | `PtsWaiter::_good`, `_last`, `_count` |
| `queue`, `requesting`, `waiting`, `shortPoll` | `_queue` with `_updateQueue` and `_updatesQueue`, `_requesting`, `_waitingForSkipped`, `_waitingForShortPoll` |
| `due`, `failDue` | the entries of `_whenGetDiffByPts`, `_whenGetDiffAfterFail` and the account's `_getDifferenceTimeByPts`, `_getDifferenceTimeAfterFail` |
| `seq`, `bySeq`, `seqTimer`, `minTimer` | `_updatesSeq`, `_bySeqUpdates`, `_bySeqTimer`, `_byMinChannelTimer` |
| `ask`, `askPts`, `upTo` | the request for a state or a difference in flight, from which pts, and what the server answered for |
| `UpdateAndApply`, `ApplySkipped` | `PtsWaiter::updateAndApply`, `applySkippedUpdates`, `checkForWaiting` |
| `UpdateReceived`, `AnswerReceived`, `AffectedReceived`, `PtsReceived` | the four ways a pts comes in: pushed, answer to a request, what an own request did, and a list of messages of a channel |
| `FeedUpdate`, `FeedUnknown` | `feedUpdate`, with a sender that is not known |
| `SetState`, `TakeNext`, `KeepOthers`, `FinishUpdates` | `setState`, with its loop over `_bySeqUpdates` (`api_updates.cpp:366-386`), which returns into `applyUpdates` with the next packet; `hand.back` tells who called it |
| `AskForRest` | the end of `differenceDone` after a slice |
| `StateDone`, `DifferenceDone`, `ChannelDifferenceDone`, `DifferenceFails` | the handlers of the difference, with slices |
| `FailTimer`, `PtsTimer`, `SeqTimer`, `MinTimer`, `NewSession`, `TooLong`, `ShowChannel`, `HideChannel` | the timers and the other reasons to ask |
| `length`, `net`, `base`, `applied`, `dropped` | the server's log and the network; what snapshots told; history |
| `ranOut` | history: `_bySeqTimer` ran out while the difference was asked for |

The server is a log of packets given by constants (`Log`, with the pts and count of
every update), so that a difference up to any point of it can be told, as can what
an update does to what is known. Pushed packets may stay in `net` for ever, which
is how they are lost.

Left out: qts, the states of users, what an update does beyond being applied, an
update that adds another one while it is applied, and the range of an
`updatesCombined` (a packet has one seq, where the code compares `seq_start` and goes
on to `seq`, `1475-1492`). A `channelDifferenceTooLong` is always final.

### 3.5 `Handlers` and `Instance`

`Handlers` is what the instance promises: the handler of a request is called at
most once, and not after the request was cancelled. `Instance` implements it,
with the same `outcome`, over all data centers.

| Model | Code |
| --- | --- |
| `main`, `byDc`, `handlers` | `_mainDcId`; `_requestsByDc` with `_requestMap`; `_parserMap` |
| `session` | what the sessions hold; `FALSE` is the main session of a data center, `TRUE` the one for files |
| `delayed`, `after`, `dependent`, `waiters`, `exportFor`, `badGuest` | `_delayedRequests`, `request->after`, `_dependentRequests`, `_authWaiters`, `_authExportRequests`, `_badGuestDcRequests` |
| `Unregister`, `Released` | `unregisterRequest`, with the requests that waited for it |
| `Done`, `Fail`, `FailLater`, `FailFatal`, `NotInited`, `Migrate`, `WaitFailed`, `Unauthorized` | `processCallback` and the branches of `onErrorDefault` |
| `ExportDone`, `ExportFail`, `ImportDone`, `ImportFail` | `exportDone`, `exportFail`, and the handlers of `importAuthorization` |
| `SetMain`, `LoginElsewhere` | `setMainDcId`, which destroys two sessions |
| `outcome`, `lost`, `broken` | history: what became of a request; what went with a session or with a failed export; where no authorization came |
| `fatal` | history: what is delayed for a `bad_msg_notification` of which the session has kept it |

A cancelled request may stay in its session: the cancellation can cross a resend,
as `MtpSession` shows. Answers to it are `AnswerDropped`.

`KillSession` is `killSession`, which the download manager, the statistics and the
end of a log out call for a session they have nothing in any more. One session of
files stands for all of a data center, so that one may be killed while another has
requests that wait.

`FailFatal` is a rejection that the session answers as an error 500 without taking
the request out of `haveSent` (`session_private.cpp:1622-1657`): the request waits
for its delay and for its answer at once. `FatalFor` bounds it to some requests. Two
copies of a request in one session are one element of it.

Left out: `logoutGuestDcs`, the sessions that destroy keys, requests for the
configuration, the global fail handler, migrations of exports and imports, and
handlers that call the instance while they run.

### 3.6 `Histories`

| Model | Code |
| --- | --- |
| `queue.sent`, `queue.postponed`, `queue.entry` | `State::sent`, `postponed`, `postponedRequestEntry` |
| `queue.alive` | the requests the engine has, whose handlers will come |
| `queue.pending`, `queue.requested`, `queue.call` | `_dialogRequestsPending`, `_dialogRequests`, the call posted for `sendDialogRequests` |
| `entries` | every `messages.getPeerDialogs` in flight |
| `willRead`, `sentRead`, `sentDone`, `timer` | `willReadTill`, `sentReadTill`, `sentReadDone`, `_readRequestsTimer` |
| `readTill`, `sendReads` | `History::inboxReadTillId`; the setting `sendReadMessages` |
| `Added`, `Finished`, `AskedFor` | `sendRequest`, `finishSentRequest`, `requestDialogEntry`, as functions of the queue |
| `ReadNow`, `ReadSoon`, `ReadDue`, `ReadDone` | `readInboxTill`, `sendReadRequests`, the handler of a reading |
| `EntriesSent`, `EntriesApplied` | `sendDialogRequests`, `applyPeerDialogs` with `dialogEntryApplied` |
| `wanted`, `forgotten`, `orphans`, `endless`, `cleared` | history: what is still asked for, and what was dropped with the states of all chats or is never finished |

Time is abstracted: a chat whose `willReadWhen` has come is any chat that is to be
read. Left out: topics, reports of delivery, entries of folders, unread counts (an
entry is asked for after a reading only if more was read meanwhile, where the code
does it for an unknown count too), and what the callbacks of `requestDialogEntry`
do. They run inside `dialogEntryApplied` between the look for the state
(`data_histories.cpp:433`) and its use (`448`), see observation 16 of section 6.

### 3.7 `Downloads`

| Model | Code |
| --- | --- |
| `d.queue` | `Queue::_tasks`, by priority |
| `d.sessions`, `d.total` | `DcBalanceData::sessions` (requested, successes, maxWaitedAmount), `totalRequested` |
| `d.sent` | `_sentRequests` and `_requestByOffset` of all tasks; `state` tells those that wait for a file reference and those that failed |
| `d.timeouts`, `d.removeIndex`, `d.removeTimes`, `d.removed` | `timeouts`, `sessionRemoveIndex`, `sessionRemoveTimes`, `lastSessionRemove` |
| `d.late`, `d.killing` | the calls posted for `sessionTimedOut`; `_killSessionsWhen` |
| `d.wanted` | what a task is still to ask for |
| `Placed`, `Finished`, `Again` | `makeRequest` with `placeSentRequest`, `finishSentRequest`, both with Redirect |
| `Repeated` | the loops of the code: a step that does nothing when there is nothing left, as often as there may be something |
| `Enqueued`, `Dequeued`, `Ready`, `CanSend`, `Checked` | `Queue::enqueue`, `remove`, `nextTask`, `trySendNextPart`, `checkSendNext` |
| `Succeeded`, `TimedOut`, `SessionRemoved`, `Redirected`, `Redirect` | `requestSucceeded`, `sessionTimedOut`, `removeSession` of the manager, of the queue and for one part |
| `Start`, `StartAgain`, `IncreaseLoadSize`, `Destroy` | `mtpFileLoader`: a loader may be started with the front of its file, and told later to load all of it |
| `Load`, `CancelSent`, `CancelWanted`, `SetPriority`, `TryRemove`, `Stop` | `LoaderMtproto` |
| `Answer`, `AnswerLate`, `AnswerUnwritten`, `Fail`, `AskReference`, `Refreshed`, `NotRefreshed` | the handlers of a part; `AnswerUnwritten` is a part that cannot be written |
| `untold` | history: a task could ask again and nobody told the manager |

Amounts are counted in parts and not in bytes: all parts have one size. Left out:
the CDN with its hashes, files of unknown size, video preload, web files, the cache,
more than one data center (each has its own balance and queue). The refresh of a
reference is one of its task, where the code starts one for each part.

## 4. The runs

| Run | Shows | Bounds |
| --- | --- | --- |
| `received_ids` | types, `HandledIsRemembered`, `WindowIsNewest`, `AckedWasHandled`, and `Delivery` is implemented | window of 2, ids 1..6, containers of up to 2, one broken connection or cut container |
| `received_ids_live` | `PendingSettles` | window of 2, ids 1..4, containers of up to 2, one broken connection or cut container |
| `mtp_session` | types, `NoLostRequest`, `OnlyIdsOfSession` | 2 requests, one that fills a container, a buffer of 1 id, errors retried at once, 4 ids, 1 fault |
| `mtp_session_ids` | `SingleSendIsFresh`, `IdHasOneOwner` | 2 small requests, a buffer that is not full, errors retried at once, 4 ids, 1 fault |
| `mtp_session_live` | `Settles` | 1 request, 7 ids, 2 faults |
| `dc_keys` | types, `OneCreator`, `BoundToPersistent`, `RightWithCreator` | a regular and a media session, 5 keys, 2 faults, kills, persistent keys destroyed |
| `dc_keys_cdn` | `OneCreator` | 2 sessions of a CDN, 4 keys, 2 faults |
| `dc_keys_live` | `GetsKey` | 2 regular sessions, 6 keys, 2 faults |
| `updates` | types, `NothingSkipped`, `GapIsTimed`, `NoStuckRequest`, `AppliedInOrder`, `GapCloses` | 4 updates in 4 packets, mere pts 1 and 3, 1 fault |
| `instance` | types, `InOnePlace`, `NoLostRequest`, `DependentIsReleased`, `WaitersAreServed`, and `Handlers` is implemented | 4 requests, 2 data centers, 2 errors (fatal ones for two of the requests), 1 change of the main one |
| `histories` | types, `HistoryWaitsForDelete`, `HistoryComes`, `EntryComes`, `ReadingComes`, `AssertionsHold` | 2 chats, 2 messages to read in one of them, 3 requests, 1 entry asked for from outside, 2 in flight, 1 change of the setting |
| `downloads` | types, `PartsAreCounted`, `RoomIsUsed`, `IdleSessionsAreStopped` | a file and a stream of 2 parts, the front of the file being the first, 2 sessions of up to 2 parts, 2 late answers or timeouts, 1 error, 3 loads and cancels |

Why the bounds are enough to be interesting.

* A window of two with containers of two overflows inside a container, lets an id
  be cut, and lets one arrive late; six ids let all of it happen twice.
* In `MtpSession` two requests are what it takes to cut a chunk, to share a
  container and to confuse ids, and four ids are a container, its two messages and
  one resend. A buffer of one id is full with the first that is acknowledged. The
  clock that is set back is one of the faults, and one is enough to make each of the
  four ids a second time.
* In `DcKeys` two sessions are the pairs that compete, five keys are a persistent
  and two temporary ones and a second try.
* In `Updates` the account has an update that takes two numbers, so that a pts can
  fall inside it; a packet of both boxes is pushed, one comes as an answer, one as an
  answer with a seq that may not be its turn, while the difference is asked for or
  not, and one is the effect of an own request.
  Each can be lost or overtaken, and a difference can end at any packet.
* In `Instance` three requests in a chain are what a release that stops after one
  step would break; two errors are a wait that fails while an authorization or a
  migration is going on. A second data center is enough for both.
* In `Histories` three requests are a Delete, a History it takes back, and a third
  of any type that comes meanwhile; two chats share the timer and the request for
  entries.
* In `Downloads` a removal needs two timeouts, and two sessions; the second part
  of each task is what a room left unused would hold. An instance with a second
  file (1,571,933 states) was checked too and is not among the runs for its length.

Deadlock is not checked: with all ids, keys, packets, requests or faults used up
the models stop, which is the bound and not the program.

The bounds are guards, each named: `MaxInner`, `MaxBreaks`, `MaxMsgId`, `MaxKey`,
`MaxFaults`, `MaxErrors`, `MaxMoves`, `MaxRequests`, `MaxAsks`, `MaxEntries`,
`MaxToggles`, `MaxSignals`, `MaxLoads`, `FatalFor`. `MaxFaults` counts lost connections,
refusals, resets, error answers, a clock set back, and timers that make a thread do
something over again; without it nothing could be said about liveness, since a network that
always breaks lets nothing through. In `Histories`, `MaxEntries` makes a
getPeerDialogs wait for an earlier one to be answered, which the code does not;
that only removes orders in which three or more are in flight.

### Fairness

* `ReceivedIds`: the thread finishes the packet it has (weak fairness: it is a
  loop without a wait). What is queued is sent again and again
  (`queueSendAnything` runs a timer), but not while a packet is handled, and the
  server repeats what is pending at intervals: both are strong fairness, since
  the thread being busy disables them now and then.
* `MtpSession`: each of the two event loops does something if it can
  (`MainWorks`, `SessionWorks`), and the server reads what reaches it. Faults,
  cancellation and timers are not fair: nothing may depend on them. In
  particular `CheckSentRequests` is not, so `Settles` does not rest on that timer;
  a lost connection is followed by `Connect`, which sends everything again.
* `DcKeys`: every session's loop, the main thread and the answers of the server
  are weakly fair. Failures, kills and lost connections are not.
* `Updates`: the main thread goes on with the packet in hand, takes the answers
  about states and differences, and runs the timers after a failure and for a gap;
  the server answers about differences. All weakly fair. Packets are not: that one
  arrives may never happen, and `GapCloses` rests on the difference alone. That the
  first state arrives is assumed (see 8 in section 6).

## 5. The proofs

`tlapm` checks `ReceivedIdsProofs`, `MtpSessionProofs`, `DcKeysProofs`,
`UpdatesProofs`, `InstanceProofs`, `InstancePlacesProofs`, `HistoriesProofs` and
`DownloadsProofs`;
what they say holds for all values of the constants that satisfy the assumptions
stated beside them: any window, any finite set of ids, any number of requests,
sessions, data centers and chats, any log of the server.

**`ReceivedIdsProofs`.** `HandledIsRemembered` is not inductive by itself: that a
message outside the window was not handled needs the window to be full whenever
something was cut from it, and that the window only has ids that were handled.
The invariant adds this, the relation between the history and the
acknowledgements at every place they pass (queue, wire, server), and what a bad
result implies while a packet is in hand. From it follow `TypeCorrect`,
`HandledStaysRemembered`, `NoFalseAck`, and `KeepsPromise`: each step of
`ReceivedIds` is a step of `Delivery` or leaves its variables alone, so the
bounded window implements the unbounded memory. What a cut container leaves in
`ackRequestData` without having read it is in `unread` until the session changes, and
is the only thing that is acknowledged and not handled. `WindowHoldsNewest` adds
`WindowIsCut`: between packets the window is no larger than its buffer. Then a
handled id outside of it is older than all in it, because the invariant says so
of every id that was cut, and no handled id is missing among the newest.

**`MtpSessionProofs`.** The main thread and the session thread share `toSend`,
`haveSent` and `haveReceived`, each behind a lock of its own, and hold requests
between two locks. `IInv` says what they can hold: `Known` (only requests that
were sent by somebody) and `Hands` (what the session thread has taken out, in each
of its steps), with the types and `IdHasOneOwner`. Since the clock may be set back,
that a new id has no owner does not come from the clock: it is either one that was
given without a look, and then `collided` says so if it was in use, or one of
`replaceMsgId`, which is none of `Taken` (`PreparedFacts`, `NewIsUnused`). What is
moved from the old ids to the new ones is moved within each request (`MovedFacts`).
No theorem has a hypothesis on the constants: requests that are retried inside
their handler, cut chunks and small buffers are among what they speak of. After
`collided` three of them claim nothing, `OnlyIdsOfSession` still holds.

`RequestsAreNotLost` goes through the places of `Located` for every locked section
(`KeepsAll`). It needs `Cancelling`: cancel() unregisters a request before it looks
for it. The two ways a session itself gives a request up (observations 1 and 6 of
section 6) are what `abandoned` is made of, and the theorem says that there is no
third.

`SessionsSendOwnIds` rests on `Marked`: a session is marked as started by its first
send, before which a connection has put everything that was sent back into
`toSend`; that send gives new ids to its chunk, and what it leaves in `toSend` keeps
the old ones, which are `leftIds` (observation 3). `SingleSendsAreFresh` rests on
`Lonely`: a request that was never resent is in one place only (with the main thread,
waiting for its delay, in `toSend`, in the hand of a single send, received, or with
the server), and there once, and on `PacketIds`: a container has no id of a request.

**`DcKeysProofs`.** `OneCreator` speaks of the rights of the sessions and of the
keys, and is broken only through the creators, which live in another thread. The
invariant `IInv` is a conjunction of named parts: `Holders` (the rights:
`OneCreator` and `RightWithCreator`), `Places` (which states of a creator go with
which connection and step: a creator that runs has a connection, which is the
`Expects` of `BoundKeyCreator::start`), `Fresh` (keys not created yet are nowhere
in use), `Answered` and `FirstKey` (what the answer to a bind says about the key
the session uses, and when there is no persistent key), `NoKeyWithout` (without a
persistent key there are no temporary ones), and `BoundToPersistent`. Every
action has a lemma; from the invariant follow `KeyTypesCorrect`,
`OneCreatorAtATime`, `RightsMatchCreators` and `KeysStayBound`.

**`UpdatesProofs`.** `GapIsTimed` is not inductive: the end of a short poll stops
the timer unless `waiting` is set, so `GapHasTimer` says that a gap has both the
timer and the reason for it. `Counted` says that a box of which no pts is known has
no gap (it could not ask for a difference), `SeqHasTimer` that packets kept by
their seq have a timer, or the packet in hand has a new seq, so that its end starts
one, or the timer ran out during a difference (`ranOut`, observation 11), which is
the exception of `GapIsTimed` too. `Asking` is `NoStuckRequest`, which is inductive
with the types of the tables.
From the invariant follow `EveryGapIsTimed` and `NeverStuck`.

That nothing is skipped rests on a second invariant, `OInv`. `PtsWaiter` compares
two numbers, the last pts and a count, and takes an update to be in order when they
agree; it keeps no list of what it counted. `CountingOf` gives that list back: there
is a set of updates, all known or in the queue, none of which can come again, such
that `count` is `good` plus the size of all numbers they take (`Numbers`, intervals
that are disjoint by the numbering of the server). So `count` reaches the last pts
only if every number between is taken, and every update up to it is in the set.
`Places` says that a packet is on its way, kept by its seq or in hand, and in one
of these; `Boundary` that a pts is never inside an update, which the server's
numbering gives for its own pts (`ServerPts`), an answer tells and a mere pts is
assumed to be (`MereAssumption`). `AsksFromGood` says that the pts a difference is
asked from is still the one reached when it comes, `OwnApplied` that the client
applied what it did before it is told the pts. From `OInv` follow `TypesAreKept`
and `NothingIsSkipped`; `UpdatesInOrder` is of a step: what it applies outside of a
difference lies at or below the pts it reaches (`AppliesBehind`), and nothing up to
that is unknown. `OnceAssumption` (an update is in one packet of the log) is needed:
the count does not tell an update that comes twice from two (10 in section 6).

**`InstanceProofs`.** `Promise` ties the tables to the history: a handler is kept
exactly while the outcome of its request is wanted; the refinement of `Handlers`
rests on it. `NoLostRequest` is `Placed`, for the requests of the application and
those of the instance itself; `WaitersAreServed` is `AuthWorks`, where `LostBreaks`
says that an authorization whose request was lost counts as broken.
`DependentIsReleased` is `Releasable` and `Acyclic`: nobody waits for what was not
sent or is not registered, and the two fields that tell who comes after whom,
`after` and `dependent`, have no circle between them. From the invariant follow
`InstanceTypes`, `NothingLost`, `NoCircle`, `AuthIsWorkedOn` and
`PromiseKeptByInstance`.

**`InstancePlacesProofs`.** `InOnePlace` is not inductive: a release sends what
waits for the request that ended, `importDone` what waits for the authorization,
and both could send what is also elsewhere. `PInv` says it for a request and all
pairs of places (`Alone`), that what was not sent yet, and an export or import that
nobody waits for, is nowhere (`Homeless`), and that of the export and the import
for a data center one is under way (`OneAtATime`), so that neither is sent while it
still is somewhere. `Carry` reduces each action to the few requests it moves. The
step uses the invariant of `InstanceProofs`; from both follows `NeverInTwoPlaces`. It
speaks of the requests no fatal notification has come for (`fatal`, observation 14);
the others are in two places, as the code has them.

**`HistoriesProofs`.** All properties of the run. `Sound` says how the
queue is built: what is postponed waits for a Delete and no History is sent beside
one, what is put off is requested and something excludes it. `UpToId` makes a new
request different from all others, and `SentIn` says that what is sent is in the
hands of the server or has a handler that does not call finish. `WantedComes`,
`RequestedComes` and `Reading` (with `ReadTypes`) are what is to be shown, in the
form a step preserves: in particular the readings in flight never reach further
than what was sent last. From the invariant follow `ExcludedByDelete`,
`RequestsAreKept`, `EntriesAreKept`, `ReadingsAreKept` and `AssertionsAreTrue`. Behind
a deletion that is `endless`, and for what is `forgotten`, `orphans` or comes after
`cleared`, they claim nothing. None
of them needs the bounds. `TypesAreKept` does, and adds `Bounded`: all requests that
are known, or were dropped with the states of all chats, have a number that was
given, and nothing is read beyond the last message.

**`DownloadsProofs`.** All properties of the run. Every loop of the manager runs
inside one step, over counts that are not what they will be at its end, so the
proofs are of operators on the record `d`. `Good` says that the counts are those of
the parts in flight, and is kept by every single `Placed` and `Finished`; it holds
in the middle of a loop too. That a loop ends with nothing left to do, which
`RoomIsUsed` needs of `checkSendNext` and `PartsAreCounted` of `Cancelled` and
`Redirected`, comes from a number that goes down with each turn (`WantedParts`, the
parts of the task, the parts `In` the session). Where the code frees room or wants
more and tells nobody (`untold`, observation 17), `RoomIsUsed` waits for the next
event that does.

The counts alone do not say why `removeSession` works. It makes the last session
look fuller by `Big`, so that `chooseSessionIndex` does not choose it for its own
parts (`Assert(newIndex < sessionIndex)`). That is only enough when no other
session is as full, and redirecting fills sessions beyond `kMaxWaitedInSession`.
`Bounded` is the invariant that bounds this: any sessions have together no more
parts in flight than they, and the sessions that are not there, may have. Removing a
session keeps it, since its parts come to sessions that count its room. Adding one
takes that room away, and keeps it only because of `Fits`: an answer counts as a
success only when its session is not beyond its limit, and a session is added only
when all have had such answers since the last removal. `LoadIsBounded`, that there
are at most `Big` parts in flight, is the case of all sessions together. From the
invariant follow `TypesAreKept`, `AllPartsAreCounted`, `RoomIsTaken` and
`IdleSessionsStop`. None needs the bounds of the run, or more of the limits than
that they are positive and `kStartWaitedInSession` is not above
`kMaxWaitedInSession`.

The invariants were checked with TLC on the instances of section 4 before they
were proved.

**Only model-checked.** The liveness properties `PendingSettles`, `Settles`,
`GetsKey` and `GapCloses`: temporal reasoning about fairness is beyond the prover
used here. Every invariant, action property and refinement that a run checks is
proved.

## 6. What was met while modelling

Limits of what holds, each with the line where it is. Where a property exempts a
case that the model has, it does so by a history variable, which is named, and holds
of everything else; the cases a model leaves out are said to be left out.

The engine:

1. *A response that evicts itself* (`session_private.cpp:2183`). `rpc_result`
   acknowledges the request before it looks it up, and acknowledging cuts
   `_ackedIds`. When the buffer is full of newer ids, the entry is gone before it
   is read, and the handler is never called (`abandoned`).
2. *An acknowledgement of what was not read* (`session_private.cpp:1504`). The
   acknowledgement of a message in a container is queued before it is known whether
   the message fits into the packet (`1508-1511`), and stays queued over the restart
   that follows (`unread`).
3. *Old ids in a new session* (`session_private.cpp:730`). When `toSend` is cut,
   only the first chunk after a reset gets new ids (`leftIds`).
4. *A creation nobody does* (`mtproto_dcenter.cpp:142`). A bound key that comes too
   late leaves the mark of its creation set in `Dcenter`.
5. *A creator nobody starts* (`session_private.cpp:2388`). A media session that has
   made the regular key and reconnects has a key and a creator, and sends nothing
   for as long as the server accepts that key: `dc_keys_live` with
   `RealType <- Mixed` breaks `GetsKey`, so that run has regular sessions only.
6. A request retried inside its error handler can be acknowledged by `msgs_ack`
   while its handler is out of `_parserMap`, and then counts as one that needs no
   response (`abandoned`). A request
   sent alone does not start the timer of `checkSentRequests`. The restart that is
   to bring a media session to the regular addresses does not change the type it
   connects with. A session destroyed while it creates a key releases its right
   silently, and those that wait are not told: `GetsKey` is checked without kills.
7. *An id that is in use* (`session_private.cpp:467`, `489`, `923`). After the clock
   was set back a request with its first id, a container or a request for states may
   get an id that still stands for another message. `haveSent.emplace` then keeps the
   old entry; the assertion that it cannot happen is commented out, with a note to
   make it hold (`collided`).

Updates:

8. The first `updates.getState` has no fail handler (`api_updates.cpp:257`), and a
   `differenceTooLong` leaves `_requesting` set (`517`): in both cases nothing asks
   again. The model assumes neither happens.
9. A mere pts (one with count 0) ends the wait for skipped updates and applies the
   queue, whatever is missing before it: the history `dropped` marks this, and
   `AppliedInOrder`, `GapIsTimed` and `GapCloses` exempt it until an update is in
   order again or a difference came. `NothingSkipped` holds regardless.
10. Whether updates are in order is told by `_last == _count`
    (`data_pts_waiter.cpp:178`): an update counted twice while another is missing
    looks like both. The server of the model sends every update once
    (`OnceAssumption`); a repeated one is caught by seq or by `_good`. What is pushed
    while the difference is asked for is thrown away and noticed only with the next
    update.
11. *Packets that nobody waits for* (`api_updates.cpp:687-692`). `_bySeqTimer` runs
    out while the difference is asked for, `getDifference` returns at once, and an
    answer with the seq there is (`366`, `490`) leaves the packets kept by their seq
    without a timer, until another packet comes (`ranOut`).

The instance:

12. `importDone` (`mtp_instance.cpp:1285`) gives `getSession` the negative id under
    which `_requestsByDc` keeps requests to the main data center: they go to a
    session of a data center of which nothing is known (`Nowhere`), and the main
    data center moves. `NoLostRequest` counts such a request as placed; it is not
    answered there, and nothing in the run says it is.
13. `importFail` leaves those that wait where they are, and later requests join
    them without a new export; `exportFail` drops them without calling anybody.
    `setMainDcId` destroys two sessions with their requests. An import is sent in
    the session of the request that needed it first: when the download manager takes
    that session away (`download_manager_mtproto.cpp:358`), its own parts are sent
    elsewhere, but the import is gone, and all that need the data center wait for it.
    These are the histories `broken` and `lost`, which the properties exempt.
14. *A request in two places* (`session_private.cpp:1622-1657`,
    `mtp_instance.cpp:1485-1530`). A fatal `bad_msg_notification` is given to the
    handlers as an error 500 and the request stays in `haveSent`; it is delayed and
    sent once more, and both copies may be answered (`fatal`). The handler is still
    called once.

Histories:

15. With the setting `sendReadMessages` off, `sendReadRequests` drops the states of
    all chats (`data_histories.cpp:632`): postponed requests for messages and
    entries to be asked for again are forgotten (`forgotten`, `orphans`), and the
    answer to an older reading may then meet the assertion on `sentReadTill`
    (`AssertionsHold` has it only before that, `cleared`). The handler of a deleted
    channel does not call finish (`endless`), so what waits for that Delete stays.
16. `dialogEntryApplied` looks for the state of a chat (`data_histories.cpp:433`),
    calls the callbacks of those who asked for the entry, and uses what it found
    (`448`). The callback of `readInbox` (`168`) reads the chat, which can send
    readings at once, and with the setting off drop all states: what is used then is
    gone. The model has no callbacks.

Downloads:

17. A streaming loader that cancels the only part it wants frees room that nobody
    is told of (`media_streaming_loader_mtproto.cpp:89`), `increaseLoadSize`
    (`file_download.cpp:196`) makes a loader in the queue ready again and does not
    tell the manager (`untold`), and the room of a
    cancelled file loader is used when it is destroyed (`RoomIsUsed` exempts these).
    A streaming loader that failed keeps the part in flight (`161`). A removed
    session redirects only the parts of tasks that are queued. After 64 removals no
    session is added any more (`download_manager_mtproto.cpp:272`).

Storage (read, not modelled):

18. Without `QSaveFile` (`storage_file_utilities.cpp:121`), after a failed rename
    only the plain copy is left, and the next write truncates it in place; the
    result of a plain write is not checked before it is renamed over the safe copy.

## 7. Not modelled

The last column of section 1.2 and the notes in `PROJECT.json` say why. In short:
cryptography and sockets are environment; the user interface, login, calls,
export, payments and platform code are sequential or graphical; the data model is
large and of one thread; uploads, storage, streaming and the sessions that destroy
keys are in the plan. Within the modules, what section 3 lists under "left out".
