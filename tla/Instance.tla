------------------------------ MODULE Instance ------------------------------
(***************************************************************************)
(* The requests of class Instance::Private over all its data centers: what *)
(* it does with the errors it knows (a migration, a wait, an expired       *)
(* authorization, a request that waits for another one), and where it      *)
(* keeps a request meanwhile.  All of it runs on the main thread.          *)
(*                                                                         *)
(* A session is here a set of requests: MtpSession shows how it brings     *)
(* each of them to the server and its answer back.  A cancelled request    *)
(* may still be answered, as its resending can cross the cancellation, and *)
(* two copies of a request in one session are one here.                    *)
(* Requests go to the main data center, or are those of files, which have  *)
(* a session of their own in the data center of the file.                  *)
(***************************************************************************)
EXTENDS Integers, FiniteSets

CONSTANTS Requests,   \* what the application sends
          MainBound,  \* those sent to the main data center, shiftedDcId = 0
          FileDc,     \* where the others are sent
          After,      \* the request each is sent after, or None
          Dcs,        \* data centers
          FirstMain,  \* the main data center at the start
          None,
          FatalFor,   \* bound: requests that get a fatal bad_msg_notification
          MaxErrors,  \* bound: errors answered
          MaxMoves    \* bound: changes of the main data center

Export(d) == <<"export", d>>
Import(d) == <<"import", d>>
Exports == {Export(d) : d \in Dcs}
Imports == {Import(d) : d \in Dcs}
All == Requests \union Exports \union Imports

ASSUME RequestsAssumption ==
  /\ MainBound \subseteq Requests /\ IsFiniteSet(Requests)
  /\ None \notin Requests \union Exports \union Imports
  /\ Requests \intersect (Exports \union Imports) = {}
  /\ After \in [Requests -> Requests \union {None}]
ASSUME DcsAssumption ==
  Dcs \subseteq Nat \ {0} /\ FirstMain \in Dcs /\ FileDc \in [Requests -> Dcs]
ASSUME BoundsAssumption == MaxErrors \in Nat /\ MaxMoves \in Nat

VARIABLES
  main,        \* _mainDcId
  byDc,        \* _requestsByDc with _requestMap: the data center, 0 if not registered
  handlers,    \* _parserMap
  session,     \* what each session has: [dc, of files]
  delayed,     \* _delayedRequests
  after,       \* request->after
  dependent,   \* _dependentRequests
  waiters,     \* _authWaiters
  exportFor,   \* _authExportRequests: the session an export is for, of files or not
  badGuest,    \* _badGuestDcRequests
  \* history
  outcome,     \* of each request of the application
  lost,        \* requests that were in a destroyed session, or dropped by exportFail
  broken,      \* data centers whose authorization was not exported or imported
  fatal,       \* requests delayed for a fatal bad_msg_notification
  errors, moves

tableVars == <<byDc, handlers>>
waitVars == <<delayed, after, dependent>>
authVars == <<waiters, exportFor, badGuest>>
historyVars == <<outcome, lost, broken, fatal>>
vars == <<main, tableVars, session, waitVars, authVars, historyVars, errors, moves>>

\* Nowhere stands for a data center with a negative id, of which nothing is known.
Nowhere == -1
Sessions == (Dcs \union {Nowhere}) \X BOOLEAN
Registered(r) == byDc[r] # 0

TypeOK ==
  /\ main \in Dcs
  /\ byDc \in [All -> Dcs \union {0}] /\ handlers \subseteq All
  /\ session \in [Sessions -> SUBSET All] /\ delayed \subseteq All
  /\ after \in [Requests -> Requests \union {None}]
  /\ dependent \in [Requests -> Requests \union {None}]
  /\ waiters \in [Dcs -> SUBSET All] /\ exportFor \in [Dcs -> BOOLEAN]
  /\ badGuest \subseteq All
  /\ outcome \in [Requests -> {"none", "wanted", "done", "failed", "cancelled"}]
  /\ lost \subseteq All /\ broken \subseteq Dcs /\ fatal \subseteq All
  /\ errors \in 0..MaxErrors /\ moves \in 0..MaxMoves
  /\ \A r \in handlers : Registered(r)

Init ==
  /\ main = FirstMain
  /\ byDc = [r \in All |-> 0] /\ handlers = {}
  /\ session = [s \in Sessions |-> {}] /\ delayed = {}
  /\ after = [r \in Requests |-> None] /\ dependent = after
  /\ waiters = [d \in Dcs |-> {}] /\ exportFor = [d \in Dcs |-> FALSE] /\ badGuest = {}
  /\ outcome = [r \in Requests |-> "none"] /\ lost = {} /\ broken = {} /\ fatal = {}
  /\ errors = 0 /\ moves = 0

-----------------------------------------------------------------------------
(* Sessions *)

\* An import goes to the session its export was for, an export to the main one.
OfFiles(r) == IF r \in Requests THEN r \notin MainBound
              ELSE \E d \in Dcs : r = Import(d) /\ exportFor[d]

\* A request to the main data center has a negative id of it in _requestsByDc.
ToMain(r) == r \in MainBound \union Exports

SessionOf(r, dc) == <<dc, OfFiles(r)>>

\* sendPrepared of several requests, each in the session of its data center.
SendPrepared(from, R, dcs) ==
  [s \in Sessions |-> from[s] \union {r \in R : dcs[r] # 0 /\ SessionOf(r, dcs[r]) = s}]

Has(s, r) == r \in session[s]
Without(s, r) == [session EXCEPT ![s] = @ \ {r}]

\* setMainDcId: the main session and the one of the new main data center are
\* destroyed with all they have.
Destroyed(d) == IF d = main THEN {} ELSE {<<main, FALSE>>, <<d, FALSE>>}
DestroyFor(d, from) == [s \in Sessions |-> IF s \in Destroyed(d) THEN {} ELSE from[s]]
LostFor(d, from) == UNION {from[s] : s \in Destroyed(d)}

-----------------------------------------------------------------------------
(* Registering *)

\* Mutant: only those that wait for the request itself are released.
ReleasedDirect(r) == {q \in Requests : dependent[q] = r}

\* Those that wait for r, and those that wait for them.
Released(r) ==
  {q \in Requests \ {r} :
     \A S \in SUBSET (Requests \union {r}) :
       r \in S /\ (\A x \in Requests : dependent[x] \in S => x \in S) => q \in S}

\* unregisterRequest, in the sessions `from`; what waited for r is sent.
Unregister(r, from) ==
  /\ byDc' = [byDc EXCEPT ![r] = 0]
  /\ dependent' = [q \in Requests |->
                     IF q = r \/ \E x \in Released(r) \union {r} : dependent[q] = x
                       THEN None ELSE dependent[q]]
  /\ session' = SendPrepared(from, Released(r), byDc')

\* sendRequest.  A request after one that itself waits for another waits with it.
SendRequest(r) ==
  LET dc == IF r \in MainBound THEN main ELSE FileDc[r]
      prev == IF After[r] # None /\ Registered(After[r]) THEN After[r] ELSE None
      waits == prev # None /\ dependent[prev] # None IN
  /\ outcome[r] = "none" /\ outcome' = [outcome EXCEPT ![r] = "wanted"]
  /\ byDc' = [byDc EXCEPT ![r] = dc] /\ handlers' = handlers \union {r}
  /\ after' = [after EXCEPT ![r] = prev]
  /\ IF waits
       THEN dependent' = [dependent EXCEPT ![r] = prev] /\ UNCHANGED session
       ELSE session' = SendPrepared(session, {r}, byDc') /\ UNCHANGED dependent
  /\ UNCHANGED <<main, delayed, authVars, lost, broken, fatal, errors, moves>>

\* cancel.  A copy that is just being sent again may stay in the session.
CancelRequest(r) ==
  LET s == SessionOf(r, byDc[r]) IN
  /\ outcome[r] = "wanted" /\ outcome' = [outcome EXCEPT ![r] = "cancelled"]
  /\ \E from \in {session, Without(s, r)} : Unregister(r, from)
  /\ handlers' = handlers \ {r}
  /\ UNCHANGED <<main, delayed, after, authVars, lost, broken, fatal, errors, moves>>

-----------------------------------------------------------------------------
(* Answers: the response to r in session t *)

\* Mutant: the answer to a request that was cancelled is handled.
AnswerableAlways(r, t) == t[1] \in Dcs /\ Has(t, r)

Answerable(r, t) == t[1] \in Dcs /\ Has(t, r) /\ r \in handlers

Error == errors < MaxErrors /\ errors' = errors + 1

\* Mutant: the handler is kept after it was called for the last time.
FinishKept(r, o) ==
  handlers' = handlers /\ outcome' = [q \in Requests |-> IF q = r THEN o ELSE outcome[q]]

\* The handler of r is called for the last time.
Finish(r, o) ==
  /\ handlers' = handlers \ {r}
  /\ outcome' = [q \in Requests |-> IF q = r THEN o ELSE outcome[q]]

BrokenBy(L) == broken \union {d \in Dcs : Export(d) \in L \/ Import(d) \in L}

\* An answer nobody waits for.
AnswerDropped(r, t) ==
  /\ t[1] \in Dcs /\ Has(t, r) /\ r \notin handlers /\ Unregister(r, Without(t, r))
  /\ UNCHANGED <<main, handlers, delayed, after, authVars, historyVars, errors, moves>>

Done(r, t) ==
  /\ Answerable(r, t) /\ r \in Requests
  /\ Finish(r, "done") /\ Unregister(r, Without(t, r))
  /\ UNCHANGED <<main, delayed, after, authVars, lost, broken, fatal, errors, moves>>

\* rpcErrorOccured gives the error to the handler: an error that nothing is
\* done about, or a wait that the handler takes care of.
Fail(r, t) ==
  /\ Answerable(r, t) /\ r \in Requests /\ Error
  /\ Finish(r, "failed") /\ Unregister(r, Without(t, r)) /\ badGuest' = badGuest \ {r}
  /\ UNCHANGED <<main, delayed, after, waiters, exportFor, lost, broken, fatal, moves>>

\* A wait, or an error of the server: the request is delayed.
FailLater(r, t) ==
  /\ Answerable(r, t) /\ Error
  /\ delayed' = delayed \union {r} /\ session' = Without(t, r)
  /\ UNCHANGED <<main, tableVars, after, dependent, authVars, historyVars, moves>>

\* A fatal bad_msg_notification is answered as an error 500 by the session, which
\* keeps the request in haveSent: it is delayed and in its session at once.
FailFatal(r, t) ==
  /\ Answerable(r, t) /\ r \in FatalFor /\ Error
  /\ delayed' = delayed \union {r} /\ fatal' = fatal \union {r}
  /\ UNCHANGED <<main, tableVars, session, after, dependent, authVars, outcome, lost, broken, moves>>

\* What checkDelayedRequests does with one request.
GiveDelayed(r) == IF Registered(r) THEN SendPrepared(session, {r}, byDc) ELSE session

CheckDelayedRequests(r) ==
  /\ r \in delayed /\ delayed' = delayed \ {r} /\ session' = GiveDelayed(r)
  /\ UNCHANGED <<main, tableVars, after, dependent, authVars, historyVars, errors, moves>>

\* CONNECTION_NOT_INITED, CONNECTION_LAYER_INVALID: sent again, with the layer.
NotInited(r, t) ==
  /\ Answerable(r, t) /\ Error /\ session' = SendPrepared(Without(t, r), {r}, byDc)
  /\ UNCHANGED <<main, tableVars, waitVars, authVars, historyVars, moves>>

\* killSession, of a session of files (which stands for all of them in the data center):
\* who sent requests there has taken them back, but an import may be among the rest.
KillSession(d) ==
  LET s == <<d, TRUE>>  L == session[s] IN
  /\ L # {} /\ L \intersect handlers \intersect Requests = {}
  /\ session' = [session EXCEPT ![s] = {}]
  /\ lost' = lost \union L /\ broken' = BrokenBy(L)
  /\ UNCHANGED <<main, tableVars, waitVars, authVars, outcome, fatal, errors, moves>>

-----------------------------------------------------------------------------
(* Migration *)

\* setMainDcId, with the requests R sent on to dcs.
SetMain(d, from, R, dcs) ==
  /\ main' = d
  /\ session' = SendPrepared(DestroyFor(d, from), R, dcs)
  /\ lost' = lost \union LostFor(d, from) /\ broken' = BrokenBy(LostFor(d, from))

\* FILE_MIGRATE, PHONE_MIGRATE, NETWORK_MIGRATE or USER_MIGRATE.
Migrate(r, t, d) ==
  /\ Answerable(r, t) /\ r \in Requests /\ d # byDc[r] /\ Error
  /\ byDc' = [byDc EXCEPT ![r] = d]
  /\ IF r \in MainBound
       THEN moves < MaxMoves /\ moves' = moves + 1 /\ SetMain(d, Without(t, r), {r}, byDc')
       ELSE /\ session' = SendPrepared(Without(t, r), {r}, byDc')
            /\ UNCHANGED <<main, lost, broken, moves>>
  /\ UNCHANGED <<handlers, waitVars, authVars, outcome, fatal>>

\* A login by a code of another application tells the data center to use.
LoginElsewhere(d) ==
  /\ d # main /\ moves < MaxMoves /\ moves' = moves + 1 /\ SetMain(d, session, {}, byDc)
  /\ UNCHANGED <<byDc, handlers, waitVars, authVars, outcome, fatal, errors>>

-----------------------------------------------------------------------------
(* Requests after one another *)

\* Mutant: the request before this one is not asked for.
StillBeforeAlways(r) == TRUE

\* The request before r is still processed, in the same data center.
StillBefore(r) ==
  LET a == after[r] IN Registered(a) /\ byDc[a] = byDc[r] /\ ToMain(a) = ToMain(r)

\* MSG_WAIT_TIMEOUT, MSG_WAIT_FAILED: the request before r did not come in time.
WaitFailed(r, t) ==
  /\ Answerable(r, t) /\ r \in Requests /\ after[r] # None /\ Error
  /\ IF StillBefore(r)
       THEN /\ dependent' = [dependent EXCEPT ![r] = after[r]]
            /\ session' = Without(t, r) /\ UNCHANGED after
       ELSE /\ after' = [after EXCEPT ![r] = None] /\ UNCHANGED dependent
            /\ session' = SendPrepared(Without(t, r), {r}, byDc)
  /\ UNCHANGED <<main, tableVars, delayed, authVars, historyVars, moves>>

-----------------------------------------------------------------------------
(* Authorization in another data center *)

\* The new request has an id of its own: what is delayed of the last one is not sent.
NewOwn(x) == delayed' = delayed \ {x}

\* An answer 401, or a file id that is not valid there for the first time: r waits
\* until the authorization is exported from the main data center and imported.
Unauthorized(r, t, bad) ==
  LET d == byDc[r] IN
  /\ Answerable(r, t) /\ d # main /\ Error
  /\ IF bad THEN r \in Requests \ (MainBound \union badGuest) /\ badGuest' = badGuest \union {r}
            ELSE UNCHANGED badGuest
  /\ waiters' = [waiters EXCEPT ![d] = @ \union {r}]
  /\ IF waiters[d] # {}
       THEN session' = Without(t, r) /\ UNCHANGED <<byDc, handlers, delayed, exportFor>>
       ELSE /\ byDc' = [byDc EXCEPT ![Export(d)] = main]
            /\ handlers' = handlers \union {Export(d)}
            /\ session' = SendPrepared(Without(t, r), {Export(d)}, byDc')
            /\ exportFor' = [exportFor EXCEPT ![d] = OfFiles(r)] /\ NewOwn(Export(d))
  /\ broken' = broken \union {x \in Dcs : r = Import(x)}
  /\ UNCHANGED <<main, after, dependent, outcome, lost, fatal, moves>>

\* exportDone: the authorization is imported by a request of its own.
ExportDone(d, t) ==
  LET i == Import(d)  from == Without(t, Export(d)) IN
  /\ Answerable(Export(d), t)
  /\ byDc' = [byDc EXCEPT ![Export(d)] = 0, ![i] = d]
  /\ handlers' = (handlers \ {Export(d)}) \union {i}
  /\ session' = SendPrepared(from, {i}, byDc') /\ NewOwn(i)
  /\ UNCHANGED <<main, after, dependent, authVars, historyVars, errors, moves>>

\* Mutant: those that wait for an export that failed are kept.
LeftAfterFail(d) == waiters[d]

\* Who waits after exportFail.
LeftWaiting(d) == {}

\* exportFail: nobody waits any more, and nobody is told.
ExportFail(d, t) ==
  /\ Answerable(Export(d), t) /\ Error
  /\ byDc' = [byDc EXCEPT ![Export(d)] = 0] /\ handlers' = handlers \ {Export(d)}
  /\ session' = Without(t, Export(d))
  /\ waiters' = [waiters EXCEPT ![d] = LeftWaiting(d)] /\ lost' = lost \union waiters[d]
  /\ broken' = BrokenBy(waiters[d])
  /\ UNCHANGED <<main, waitVars, exportFor, badGuest, outcome, fatal, moves>>

\* Mutant: the requests wait on although they are sent.
WaitersStay(d) == waiters

\* importDone lets nobody wait for d.
NoWaiters(d) == [waiters EXCEPT ![d] = {}]

\* Where importDone sends what waited: getSession is given the id of _requestsByDc,
\* which is negative for a request to the main data center.
SentTo(w, d) == IF ToMain(w) THEN Nowhere ELSE d

\* importDone: those that waited are sent, and if one of them is for the main
\* data center, this is the main data center from now on.
ImportDone(d, t) ==
  LET i == Import(d)  W == {w \in waiters[d] : Registered(w) /\ w # i}  from == Without(t, i) IN
  /\ Answerable(i, t)
  /\ byDc' = [r \in All |-> IF r = i THEN 0 ELSE IF r \in W THEN d ELSE byDc[r]]
  /\ handlers' = handlers \ {i} /\ waiters' = NoWaiters(d)
  /\ SetMain(IF \E w \in W : ToMain(w) THEN d ELSE main, from, W, [w \in W |-> SentTo(w, d)])
  /\ UNCHANGED <<waitVars, exportFor, badGuest, outcome, fatal, errors, moves>>

\* importFail leaves those that wait where they are.
ImportFail(d, t) ==
  /\ Answerable(Import(d), t) /\ Error
  /\ byDc' = [byDc EXCEPT ![Import(d)] = 0] /\ handlers' = handlers \ {Import(d)}
  /\ session' = Without(t, Import(d)) /\ broken' = broken \union {d}
  /\ UNCHANGED <<main, waitVars, authVars, outcome, lost, fatal, moves>>

-----------------------------------------------------------------------------
Answer(r, t) ==
  \/ AnswerDropped(r, t) \/ Done(r, t) \/ Fail(r, t) \/ FailLater(r, t) \/ WaitFailed(r, t)
  \/ FailFatal(r, t) \/ NotInited(r, t)
  \/ \E d \in Dcs : \/ Migrate(r, t, d)
                    \/ r = Export(d) /\ (ExportDone(d, t) \/ ExportFail(d, t))
                    \/ r = Import(d) /\ (ImportDone(d, t) \/ ImportFail(d, t))
  \/ \E bad \in BOOLEAN : Unauthorized(r, t, bad)

Next ==
  \/ \E r \in Requests : SendRequest(r) \/ CancelRequest(r)
  \/ \E r \in All : CheckDelayedRequests(r) \/ \E t \in Sessions : Answer(r, t)
  \/ \E d \in Dcs : LoginElsewhere(d) \/ KillSession(d)

Spec == Init /\ [][Next]_vars

-----------------------------------------------------------------------------
(* Properties *)

Contract == INSTANCE Handlers

\* Whatever errors cross, a handler is called once and not after cancel.
HandlersKeepPromise == Contract!Spec

\* Where a request waits.
Places(r) ==
  {<<"session", s>> : s \in {x \in Sessions : Has(x, r)}}
    \union {<<"delayed", x>> : x \in delayed \intersect {r}}
    \union {<<"waits", d>> : d \in {x \in Dcs : r \in waiters[x]}}
    \union {<<"dependent", x>> : x \in {y \in Requests : y = r /\ dependent[y] # None}}

\* A request whose handler waits is in one place at most, so no error, delay, export
\* or release sends it to the server twice: only a fatal bad_msg_notification can make
\* a second copy.
InOnePlace == \A r \in handlers \ fatal : Cardinality(Places(r)) =< 1

\* It is in one place at least, unless its session was destroyed with it (by
\* setMainDcId or killSession) or the export it waited for failed.  To have a place is
\* not to be answered: who waits after a failed import keeps its place.
NoLostRequest == \A r \in handlers : Places(r) = {} => r \in lost

\* A request waits only for one that is still registered and will release it; and
\* requests do not wait for each other in a circle.
DependentIsReleased ==
  /\ \A r \in Requests : dependent[r] # None => Registered(dependent[r])
  /\ \A S \in (SUBSET Requests) \ {{}} : \E r \in S : dependent[r] \notin S

\* Somebody works on the authorization that requests wait for, unless importing it
\* failed or went with a session: those that come later do not ask for it again.
WaitersAreServed ==
  \A d \in Dcs : waiters[d] # {} =>
    d \in broken \/ Places(Export(d)) # {} \/ Places(Import(d)) # {}
=============================================================================
