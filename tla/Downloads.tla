----------------------------- MODULE Downloads ------------------------------
(***************************************************************************)
(* class DownloadManagerMtproto: the parts of files asked of one data      *)
(* center.  Tasks wait in a queue by priority; a part is asked in the      *)
(* session with the least parts in flight, as long as it has room; the     *)
(* manager adds sessions while the answers come in time, takes the last    *)
(* one away when requests time out, sending its parts again elsewhere,     *)
(* and stops the sessions when nothing was asked for a while.  A task is a *)
(* file loader (mtpFileLoader), which wants all parts of its file, or a    *)
(* streaming loader (LoaderMtproto), which wants the parts it is told to.  *)
(* All of it runs on the main thread.                                      *)
(*                                                                         *)
(* Amounts are counted in parts, and a session is known by its place,      *)
(* which is its index plus one.                                            *)
(***************************************************************************)
EXTENDS Integers, Sequences, FiniteSets, SequencesExt, FiniteSetsExt

CONSTANTS Files,          \* tasks that are file loaders
          Streams,        \* tasks that are streaming loaders
          Parts,          \* the number of parts of the file of a task
          FrontParts,     \* how many of them are the front a file loader may start with
          StartWaited,    \* kStartWaitedInSession, in parts
          MaxWaited,      \* kMaxWaitedInSession, in parts
          MaxSessions,    \* kMaxSessionsCount
          RemoveAfter,    \* kRemoveSessionAfterTimeouts
          RetrySuccesses, \* kRetryAddSessionSuccesses
          MaxRemoves,     \* kMaxTrackedSessionRemoves
          MaxSignals,     \* bound: requests that time out or are answered late
          MaxErrors,      \* bound: parts that fail
          MaxLoads        \* bound: loads and cancels of streaming loaders

Tasks == Files \union Streams
Offsets(t) == 1..Parts[t]

ASSUME SizesAssumption ==
  /\ IsFiniteSet(Files) /\ IsFiniteSet(Streams) /\ Files \intersect Streams = {}
  /\ \A t \in Tasks : Parts[t] \in Nat \ {0}
  /\ \A t \in Files : FrontParts[t] \in 1..Parts[t]
  /\ StartWaited \in 1..MaxWaited /\ {MaxWaited, MaxSessions, RemoveAfter} \subseteq Nat \ {0}
  /\ {RetrySuccesses, MaxRemoves} \subseteq Nat \ {0}
  /\ {MaxSignals, MaxErrors, MaxLoads} \subseteq Nat

VARIABLES
  d,         \* _balanceData, _queues and _killSessionsWhen of the data center, what each
             \* task wants and its _sentRequests, and the calls postponed for
             \* sessionTimedOut; running tells whether a session was used since they
             \* were stopped
  status,    \* of a file loader: "new", "front" (_loadSize can be raised), "loading",
             \* "over" (_cancelled) or "gone"
  priority,  \* LoaderMtproto::_priority
  refreshing,\* tasks whose file reference is asked for
  untold,    \* history: a part was cancelled with no other wanted, or a loader wants more
             \* than before, and the manager was not asked to send since
  signals, errors, loads

vars == <<d, status, priority, refreshing, untold, signals, errors, loads>>

Big == MaxWaited * MaxSessions
MaxSuccesses == RetrySuccesses * MaxRemoves
FreshSession == [requested |-> 0, successes |-> 0, maxWaited |-> StartWaited]

\* Invariant: the variables have their types, there are no more sessions than may be,
\* and the queue goes from the highest priority to the lowest, as nextTask and the
\* assertion of resetGeneration take for granted.
TypeOK ==
  /\ Len(d.sessions) \in 1..MaxSessions
  /\ \A i \in DOMAIN d.sessions :
       d.sessions[i] \in [requested : Nat, successes : 0..MaxSuccesses, maxWaited : 1..MaxWaited]
  /\ \A i \in DOMAIN d.queue : d.queue[i] \in [task : Tasks, priority : -1..1]
  /\ \A i, j \in DOMAIN d.queue : i < j =>
       /\ d.queue[i].priority >= d.queue[j].priority
       /\ d.queue[i].task # d.queue[j].task
  /\ \A t \in Tasks : d.wanted[t] \subseteq Offsets(t)
  /\ \A r \in d.sent : r.task \in Tasks /\ r.offset \in Offsets(r.task) /\ r.old \in BOOLEAN
                       /\ r.state \in {"sent", "refreshing", "failed"}
  /\ d.timeouts \in 0..RemoveAfter - 1 /\ d.removeTimes \in 0..MaxRemoves
  /\ d.killing \in BOOLEAN /\ d.running \in BOOLEAN /\ d.removed \in BOOLEAN
  /\ status \in [Files -> {"new", "front", "loading", "over", "gone"}]
  /\ priority \in [Streams -> 0..1] /\ refreshing \subseteq Tasks /\ untold \in BOOLEAN
  /\ signals \in 0..MaxSignals /\ errors \in 0..MaxErrors /\ loads \in 0..MaxLoads

Init ==
  /\ d = [queue |-> <<>>, sent |-> {}, sessions |-> <<FreshSession>>, total |-> 0,
          wanted |-> [t \in Tasks |-> {}],
          timeouts |-> 0, removeIndex |-> 1, removeTimes |-> 0, removed |-> FALSE,
          late |-> <<>>, killing |-> FALSE, running |-> FALSE]
  /\ status = [t \in Files |-> "new"] /\ priority = [t \in Streams |-> 0]
  /\ refreshing = {} /\ untold = FALSE /\ signals = 0 /\ errors = 0 /\ loads = 0

-----------------------------------------------------------------------------
(* Sessions and the requests in them, as functions of the manager *)

\* ranges::min_element: the first place where f is least.
FirstLeast(f) ==
  CHOOSE i \in DOMAIN f : \A j \in DOMAIN f : f[i] < f[j] \/ (f[i] = f[j] /\ i =< j)

\* chooseSessionIndex.
LeastRequested(m) == FirstLeast([i \in DOMAIN m.sessions |-> m.sessions[i].requested])

\* The session trySendNextPart takes, if it has room.
Best(m) ==
  FirstLeast([i \in DOMAIN m.sessions |->
    LET s == m.sessions[i] IN IF s.requested < s.maxWaited THEN s.requested ELSE MaxWaited])

HasRoom(m) == m.sessions[Best(m)].requested + 1 =< m.sessions[Best(m)].maxWaited

\* Mutant: stopping the sessions is not called off.
PlacedOnly(m, t, o, i) ==
  [m EXCEPT !.sessions[i].requested = @ + 1, !.total = @ + 1, !.running = TRUE,
            !.sent = @ \union {[task |-> t, offset |-> o, session |-> i, old |-> FALSE,
                                amount |-> m.sessions[i].requested + 1, state |-> "sent"]}]

\* makeRequest and placeSentRequest.
Placed(m, t, o, i) ==
  [m EXCEPT !.sessions[i].requested = @ + 1, !.total = @ + 1,
            !.sent = @ \union {[task |-> t, offset |-> o, session |-> i, old |-> FALSE,
                                amount |-> m.sessions[i].requested + 1, state |-> "sent"]},
            !.running = TRUE, !.killing = FALSE]

\* finishSentRequest, without requestSucceeded.
Finished(m, r) ==
  LET sessions == [m.sessions EXCEPT ![r.session].requested = @ - 1] IN
  [m EXCEPT !.sessions = sessions, !.total = @ - 1, !.sent = @ \ {r},
            !.killing = @ \/ \A i \in DOMAIN sessions : sessions[i].requested =< 0]

\* A loop of the code: step, n times from m.
Repeated(step(_), m, n) ==
  LET after[k \in 0..n] == IF k = 0 THEN m ELSE step(after[k - 1]) IN after[n]

OfTask(m, t) == {r \in m.sent : r.task = t}

\* cancelAllRequests: one after another, while there is one.
Cancelled(m, t) ==
  LET CancelOne(n) == IF OfTask(n, t) = {} THEN n
                      ELSE Finished(n, CHOOSE r \in OfTask(n, t) : TRUE) IN
  Repeated(CancelOne, m, Cardinality(OfTask(m, t)))

\* Finish with FinishRequestReason::Redirect, and makeRequest with the same data.
Again(m, r) == Placed(Finished(m, r), r.task, r.offset, r.session)

-----------------------------------------------------------------------------
(* The queue *)

IsQueued(m, t) == \E i \in DOMAIN m.queue : m.queue[i].task = t

Dequeued(m, t) ==
  IF ~IsQueued(m, t) THEN m
  ELSE [m EXCEPT !.queue = RemoveAt(@, CHOOSE i \in DOMAIN @ : @[i].task = t)]

Enqueued(m, t, p) ==
  LET others == Dequeued(m, t).queue
      after == {i \in DOMAIN others : others[i].priority =< p} IN
  [m EXCEPT !.queue = InsertAt(others, IF after = {} THEN Len(others) + 1 ELSE Min(after),
                               [task |-> t, priority |-> p])]

\* The places nextTask may choose: while something is in flight, only tasks with the
\* highest priority when that is above zero; and of those the ones readyToRequest.
Ready(m) ==
  {i \in DOMAIN m.queue :
     /\ m.wanted[m.queue[i].task] # {}
     /\ \/ m.total = 0 \/ m.queue[1].priority =< 0
        \/ m.queue[i].priority = m.queue[1].priority}

CanSend(m) == HasRoom(m) /\ Ready(m) # {}

\* loadPart of the task chosen, in the session chosen.
PartSent(m) ==
  LET t == m.queue[Min(Ready(m))].task  o == Min(m.wanted[t]) IN
  Placed([m EXCEPT !.wanted[t] = @ \ {o}], t, o, Best(m))

\* checkSendNext: one part after another, while one can be sent.
Checked(m) ==
  LET SendOne(n) == IF CanSend(n) THEN PartSent(n) ELSE n IN
  Repeated(SendOne, m, Cardinality(UNION {{t} \X m.wanted[t] : t \in Tasks}))

\* Mutant: leaving the queue lets nobody else send.
LeftOnly(m, t) == Dequeued(m, t)

\* DownloadManagerMtproto::enqueue and remove.
Joined(m, t, p) == Checked(Enqueued(m, t, p))
Left(m, t) == Checked(Dequeued(m, t))

-----------------------------------------------------------------------------
(* How sessions come and go *)

\* Mutant: sessions are added without end.
AddedAlways(m, delayed) ==
  IF m.timeouts > 0 THEN [m EXCEPT !.timeouts = @ - 1]
  ELSE IF m.removed /\ ~delayed THEN m
  ELSE [m EXCEPT !.sessions = Append(@, FreshSession)]

\* The end of requestSucceeded: delayed tells whether the time since a session was last
\* taken away has passed.
Added(m, delayed) ==
  IF m.timeouts > 0 THEN [m EXCEPT !.timeouts = @ - 1]
  ELSE IF Len(m.sessions) = MaxSessions \/ (m.removed /\ ~delayed) THEN m
  ELSE [m EXCEPT !.sessions = Append(@, FreshSession)]

NoSuccesses(m) ==
  LET s == m.sessions IN
  [m EXCEPT !.sessions = [i \in DOMAIN s |-> [s[i] EXCEPT !.successes = 0]]]

\* requestSucceeded, for an answer that came in time.
Succeeded(m, r, delayed) ==
  LET grows == r.amount = m.sessions[r.session].maxWaited /\ r.amount < MaxWaited
      m1 == [m EXCEPT !.sessions[r.session].maxWaited = IF grows THEN @ + 1 ELSE @,
                      !.sessions[r.session].successes = IF @ < MaxSuccesses THEN @ + 1 ELSE @]
      enough == \A i \in DOMAIN m1.sessions :
                  m1.sessions[i].successes >= (m1.removeTimes + 1) * RetrySuccesses IN
  IF enough THEN NoSuccesses(Added(m1, delayed)) ELSE m1

\* Asked before the last session was taken away, or beyond what the session waits for.
Overloaded(m, r) == r.old \/ r.amount > m.sessions[r.session].maxWaited

\* The parts in flight in a session that a task of the queue knows of.
In(m, last) == {r \in m.sent : r.session = last /\ IsQueued(m, r.task)}

\* DownloadMtprotoTask::removeSession, for one part.
Redirect(m, last) ==
  IF In(m, last) = {} THEN m
  ELSE LET r == CHOOSE r \in In(m, last) : TRUE
           rest == Finished(m, r) IN
       Placed(rest, r.task, r.offset, LeastRequested(rest))

\* Mutant: the session that is taken away may be chosen for its own parts.
RedirectedPlain(m, last) ==
  LET RedirectOne(n) == Redirect(n, last) IN
  Repeated(RedirectOne, m, Cardinality(In(m, last)))

\* Queue::removeSession: the parts of queued tasks are sent again in other sessions.
Redirected(m, last) ==
  LET RedirectOne(n) == Redirect(n, last) IN
  Repeated(RedirectOne, [m EXCEPT !.sessions[last].requested = @ + Big],
           Cardinality(In(m, last)))

\* removeSession.
SessionRemoved(m) ==
  LET last == Len(m.sessions)
      times == IF m.removeIndex # last THEN 1
               ELSE IF m.removeTimes < MaxRemoves THEN m.removeTimes + 1 ELSE MaxRemoves IN
  [Redirected(m, last) EXCEPT
     !.sessions = Front(@), !.sent = {[r EXCEPT !.old = TRUE] : r \in @},
     !.removeIndex = last, !.removeTimes = times, !.removed = TRUE]

\* sessionTimedOut.
TimedOut(m, i) ==
  IF i > Len(m.sessions) THEN m
  ELSE IF Len(m.sessions) = 1 THEN NoSuccesses(m)
  ELSE IF m.timeouts + 1 < RemoveAfter THEN NoSuccesses([m EXCEPT !.timeouts = @ + 1])
  ELSE NoSuccesses(SessionRemoved([m EXCEPT !.timeouts = 0]))

-----------------------------------------------------------------------------
(* What file loaders do *)

\* startLoading, or startLoadingWithPartial with the first parts already there: addToQueue
\* with priority 0.  The loader is to load the front of its file, or all of it.
Start(t) ==
  /\ status[t] = "new" /\ ~IsQueued(d, t)
  /\ \E size \in {FrontParts[t], Parts[t]} : \E first \in 1..size :
       /\ d' = Joined([d EXCEPT !.wanted[t] = first..size], t, 0)
       /\ status' = [status EXCEPT ![t] = IF size < Parts[t] THEN "front" ELSE "loading"]
  /\ untold' = FALSE
  /\ UNCHANGED <<priority, refreshing, signals, errors, loads>>

\* start of a loader that is in the queue already.
StartAgain(t) ==
  /\ status[t] \in {"front", "loading"} /\ IsQueued(d, t)
  /\ d' = Joined(d, t, 0) /\ untold' = FALSE
  /\ UNCHANGED <<status, priority, refreshing, signals, errors, loads>>

\* increaseLoadSize, by LoadCloudFile for a file whose front is being loaded: the loader
\* is ready to ask again, for what is behind the front, none of which is in flight, and
\* nobody tells the manager.
IncreaseLoadSize(t) ==
  /\ status[t] = "front" /\ IsQueued(d, t)
  /\ LET behind == (FrontParts[t] + 1)..Parts[t] \ {r.offset : r \in OfTask(d, t)} IN
     d' = [d EXCEPT !.wanted[t] = @ \union behind]
  /\ status' = [status EXCEPT ![t] = "loading"] /\ untold' = TRUE
  /\ UNCHANGED <<priority, refreshing, signals, errors, loads>>

\* ~mtpFileLoader: what is in flight is cancelled, and the next is sent.
Destroy(t) ==
  /\ status[t] \in {"front", "loading", "over"}
  /\ d' = Left(Cancelled([d EXCEPT !.wanted[t] = {}], t), t)
  /\ status' = [status EXCEPT ![t] = "gone"] /\ refreshing' = refreshing \ {t}
  /\ untold' = FALSE
  /\ UNCHANGED <<priority, signals, errors, loads>>

(* What streaming loaders do *)

\* load, of a part that is not in flight; one in flight is not asked again.
Load(t, o) ==
  /\ loads < MaxLoads
  /\ ~\E r \in d.sent : r.task = t /\ r.offset = o
  /\ d' = Joined([d EXCEPT !.wanted[t] = @ \union {o}], t, priority[t])
  /\ loads' = loads + 1 /\ untold' = FALSE
  /\ UNCHANGED <<status, priority, refreshing, signals, errors>>

\* cancelForOffset, of a part in flight: the room it leaves is used only if the loader
\* wants another part.
CancelSent(t, r) ==
  /\ loads < MaxLoads /\ r \in OfTask(d, t)
  /\ IF d.wanted[t] = {} THEN d' = Finished(d, r) /\ untold' = TRUE
     ELSE d' = Joined(Finished(d, r), t, priority[t]) /\ untold' = FALSE
  /\ loads' = loads + 1
  /\ UNCHANGED <<status, priority, refreshing, signals, errors>>

\* cancelForOffset, of a part that is only wanted.
CancelWanted(t, o) ==
  /\ loads < MaxLoads /\ o \in d.wanted[t] /\ ~\E r \in OfTask(d, t) : r.offset = o
  /\ d' = [d EXCEPT !.wanted[t] = @ \ {o}] /\ loads' = loads + 1
  /\ UNCHANGED <<status, priority, refreshing, untold, signals, errors>>

\* setPriority.
SetPriority(t, p) ==
  /\ priority[t] # p
  /\ priority' = [priority EXCEPT ![t] = p]
  /\ IF OfTask(d, t) = {} THEN UNCHANGED <<d, untold>>
     ELSE d' = Joined(d, t, p) /\ untold' = FALSE
  /\ UNCHANGED <<status, refreshing, signals, errors, loads>>

\* tryRemoveFromQueue.
TryRemove(t) ==
  /\ IsQueued(d, t) /\ d.wanted[t] = {} /\ OfTask(d, t) = {}
  /\ d' = Left(d, t) /\ untold' = FALSE
  /\ UNCHANGED <<status, priority, refreshing, signals, errors, loads>>

\* stop, and the end of the loader.
Stop(t) ==
  /\ IsQueued(d, t)
  /\ d' = Left(Cancelled([d EXCEPT !.wanted[t] = {}], t), t) /\ untold' = FALSE
  /\ UNCHANGED <<status, priority, refreshing, signals, errors, loads>>

-----------------------------------------------------------------------------
(* What the server and the sessions do *)

\* partLoaded.  A file loader leaves the queue when the part was its last, and a short
\* part is the last one it asks for (_lastComplete), whatever its load size.
Fed(m, t, short) ==
  LET m1 == IF short /\ t \in Files THEN [m EXCEPT !.wanted[t] = {}] ELSE m IN
  IF t \in Files /\ m1.wanted[t] = {} /\ OfTask(m1, t) = {} THEN Left(m1, t) ELSE m1

\* finishSentRequest with requestSucceeded, for a part that came in time, or so that it
\* does not count.
Credited(r, delayed) ==
  LET m == Finished(d, r) IN IF Overloaded(m, r) THEN m ELSE Succeeded(m, r, delayed)

\* normalPartLoaded.
Answer(r) ==
  /\ r.state = "sent"
  /\ \E delayed, short \in BOOLEAN :
       /\ d' = Checked(Fed(Credited(r, delayed), r.task, short))
       /\ status' = IF short /\ r.task \in Files THEN [status EXCEPT ![r.task] = "loading"]
                    ELSE status
  /\ untold' = FALSE
  /\ UNCHANGED <<priority, refreshing, signals, errors, loads>>

\* normalPartLoaded of a part that came late: the session will be told that it timed out.
AnswerLate(r) ==
  /\ signals < MaxSignals /\ r.state = "sent" /\ ~Overloaded(d, r)
  /\ d' = Checked(Fed([Finished(d, r) EXCEPT !.late = Append(@, r.session)], r.task, FALSE))
  /\ signals' = signals + 1 /\ untold' = FALSE
  /\ UNCHANGED <<status, priority, refreshing, errors, loads>>

\* cancelOnFail: a file loader is cancelled, a streaming loader tells its reader and
\* keeps what is in flight.
Failed(m, t) == IF t \in Files THEN Cancelled([m EXCEPT !.wanted[t] = {}], t) ELSE m
Over(t) == status' = IF t \in Files THEN [status EXCEPT ![t] = "over"] ELSE status

\* normalPartLoaded of a part that cannot be written (writeResultPart): the loader is
\* cancelled, and what was its room is used.
AnswerUnwritten(r) ==
  /\ errors < MaxErrors /\ r.state = "sent" /\ r.task \in Files
  /\ \E delayed \in BOOLEAN : d' = Checked(Failed(Credited(r, delayed), r.task))
  /\ Over(r.task) /\ errors' = errors + 1 /\ untold' = FALSE
  /\ UNCHANGED <<priority, refreshing, signals, loads>>

\* partFailed.
Fail(r) ==
  /\ errors < MaxErrors /\ r.state = "sent"
  /\ LET failed == [d EXCEPT !.sent = (@ \ {r}) \union {[r EXCEPT !.state = "failed"]}] IN
     d' = Failed(failed, r.task)
  /\ Over(r.task) /\ errors' = errors + 1
  /\ UNCHANGED <<priority, refreshing, untold, signals, loads>>

\* normalPartFailed, when the file reference is too old.
AskReference(r) ==
  /\ errors < MaxErrors /\ r.state = "sent"
  /\ d' = [d EXCEPT !.sent = (@ \ {r}) \union {[r EXCEPT !.state = "refreshing"]}]
  /\ refreshing' = refreshing \union {r.task} /\ errors' = errors + 1
  /\ UNCHANGED <<status, priority, untold, signals, loads>>

Waiting(m, t) == {r \in OfTask(m, t) : r.state = "refreshing"}

\* What waited for the reference is sent again, in the sessions it was in.
SentAgain(m, t) ==
  LET SendOne(n) == IF Waiting(n, t) = {} THEN n
                    ELSE Again(n, CHOOSE r \in Waiting(n, t) : TRUE) IN
  Repeated(SendOne, m, Cardinality(Waiting(m, t)))

\* refreshFileReferenceFrom, with another reference.
Refreshed(t) ==
  /\ t \in refreshing
  /\ d' = SentAgain(d, t) /\ refreshing' = refreshing \ {t}
  /\ UNCHANGED <<status, priority, untold, signals, errors, loads>>

\* The same, with the reference known already.
NotRefreshed(t) ==
  /\ t \in refreshing /\ refreshing' = refreshing \ {t}
  /\ d' = Failed(d, t) /\ Over(t)
  /\ UNCHANGED <<priority, untold, signals, errors, loads>>

\* restartsByTimeout of the session with index i - 1, which may be gone by now.
Restart(i) ==
  /\ signals < MaxSignals /\ d' = TimedOut(d, i) /\ signals' = signals + 1
  /\ UNCHANGED <<status, priority, refreshing, untold, errors, loads>>

\* The call requestSucceeded postponed.
TellLate ==
  /\ d.late # <<>> /\ d' = TimedOut([d EXCEPT !.late = Tail(@)], d.late[1])
  /\ UNCHANGED <<status, priority, refreshing, untold, signals, errors, loads>>

\* _resetGenerationTimer.
ResetGeneration ==
  /\ \E i \in DOMAIN d.queue : d.queue[i].priority = 0
  /\ d' = [d EXCEPT !.queue =
             [i \in DOMAIN @ |-> IF @[i].priority = 0 THEN [@[i] EXCEPT !.priority = -1]
                                 ELSE @[i]]]
  /\ UNCHANGED <<status, priority, refreshing, untold, signals, errors, loads>>

\* _killSessionsTimer: killSessions.
KillSessions ==
  /\ d.killing
  /\ d' = [d EXCEPT !.sessions = [i \in DOMAIN @ |-> FreshSession], !.total = 0,
                    !.timeouts = 0, !.removeIndex = 1, !.removeTimes = 0, !.removed = FALSE,
                    !.killing = FALSE, !.running = FALSE]
  /\ UNCHANGED <<status, priority, refreshing, untold, signals, errors, loads>>

Next ==
  \/ \E t \in Files : Start(t) \/ StartAgain(t) \/ IncreaseLoadSize(t) \/ Destroy(t)
  \/ \E t \in Streams : \E o \in Offsets(t) : Load(t, o) \/ CancelWanted(t, o)
  \/ \E t \in Streams : \E r \in d.sent : CancelSent(t, r)
  \/ \E t \in Streams : \E p \in 0..1 : SetPriority(t, p)
  \/ \E t \in Streams : TryRemove(t) \/ Stop(t)
  \/ \E r \in d.sent : Answer(r) \/ AnswerLate(r) \/ AnswerUnwritten(r) \/ Fail(r) \/ AskReference(r)
  \/ \E t \in Tasks : Refreshed(t) \/ NotRefreshed(t)
  \/ \E i \in 1..MaxSessions : Restart(i)
  \/ TellLate \/ ResetGeneration \/ KillSessions

Spec == Init /\ [][Next]_vars

-----------------------------------------------------------------------------
(* Properties *)

\* Every part in flight is counted once, in a session that exists, and belongs to a task
\* still in the queue, whose parts removeSession would send elsewhere; no part of a file
\* is in flight twice, or both in flight and wanted.  These are the assertions of
\* changeRequestedAmount, removeSession and placeSentRequest.
PartsAreCounted ==
  /\ d.total = Cardinality(d.sent)
  /\ \A i \in DOMAIN d.sessions :
       d.sessions[i].requested = Cardinality({r \in d.sent : r.session = i})
  /\ \A r \in d.sent :
       /\ r.session \in DOMAIN d.sessions /\ IsQueued(d, r.task)
       /\ r.offset \notin d.wanted[r.task]
       /\ \A s \in d.sent : s.task = r.task /\ s.offset = r.offset => s = r

\* The room a part leaves is used: between two steps nobody could send, unless a file
\* loader that failed is about to be destroyed, a streaming loader cancelled a part and
\* wanted no other, or the load size of a file was raised (then the next answer, or
\* another call, sends).
RoomIsUsed ==
  ~untold /\ (\A t \in Files : status[t] = "over" => ~IsQueued(d, t)) => ~CanSend(d)

\* The sessions are going to be stopped exactly when they were used and nothing is in
\* flight, whatever part was cancelled, sent elsewhere or answered last (the assertions
\* of killSessions, and that sessions do not stay when nothing is asked).
IdleSessionsAreStopped == d.killing = (d.running /\ d.sent = {})
=============================================================================
