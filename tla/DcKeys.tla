------------------------------- MODULE DcKeys -------------------------------
(***************************************************************************)
(* The authorization keys of one data center (Dcenter) and the sessions    *)
(* that share them.  A session runs in a thread of its own (SessionPrivate,*)
(* with its half on the main thread, Session); those that find no          *)
(* temporary key compete for the right to create one, the others wait to   *)
(* be told.                                                                *)
(*                                                                         *)
(* Dcenter is locked for each of its calls and not between two of them, so *)
(* a handler that calls it twice is split there: step is where the session *)
(* is in applyAuthKey.  Keys are numbers, 0 is a null pointer.  The server *)
(* is not in src/: it creates and binds keys, refuses to, and forgets them.*)
(***************************************************************************)
EXTENDS Naturals

CONSTANTS Sessions,   \* the sessions of the data center
          RealType,   \* _realDcType of each
          Killable,   \* sessions that may be killed
          OldKeys,    \* whether the server may have destroyed a persistent key
          MaxKey,     \* bound: keys ever created
          MaxFaults   \* bound: lost connections, errors and failures

DcTypes == {"Regular", "MediaCluster", "Cdn"}

ASSUME TypesAssumption == /\ RealType \in [Sessions -> DcTypes]
                          /\ (\E s \in Sessions : RealType[s] = "Cdn")
                             => \A s \in Sessions : RealType[s] = "Cdn"
ASSUME BoundsAssumption == /\ Killable \subseteq Sessions /\ OldKeys \in BOOLEAN
                           /\ MaxKey \in Nat /\ MaxFaults \in Nat

VARIABLES
  \* class Dcenter
  persistent,  \* _persistentKey
  temporary,   \* _temporaryKeys
  creating,    \* _creatingKeys
  \* class Session and the queue of the main thread
  mine,        \* _myKeyCreation
  alive,       \* running, killed (detached) or gone
  changes,     \* queued calls of dcTemporaryKeyChanged
  destroyed,   \* queued calls of keyDestroyedOnServer
  restarts,    \* sessions with a queued call of restartNow
  \* class SessionPrivate
  connection,  \* none, connecting or ready
  currentType, \* _currentDcType
  keyId,       \* _keyId
  encryption,  \* _encryptionKey
  creator,     \* _keyCreator: none, idle, creating or binding; then its answer
  bindKey,     \* the persistent key of its binder
  update,      \* a queued call of updateAuthKey
  step,        \* idle, or in applyAuthKey without a key: noKey, acquire, start
  \* the server
  lastKey,     \* keys created so far
  forgotten,   \* persistent keys the server has destroyed
  unknown,     \* temporary keys the server does not know any more
  boundTo,     \* history: the persistent key each temporary key was bound to
  faults       \* faults so far

dcVars == <<persistent, temporary, creating>>
mainVars == <<mine, alive, changes, destroyed, restarts>>
connVars == <<connection, currentType, step>>
keyVars == <<keyId, encryption>>
creatorVars == <<creator, bindKey>>
serverVars == <<lastKey, forgotten, unknown, boundTo>>
vars == <<dcVars, mainVars, connVars, keyVars, creatorVars, update, serverVars, faults>>

Keys == 0..MaxKey
KeyTypes == {"Regular", "MediaCluster"}
Kinds == {"None", "Persistent", "TemporaryRegular", "TemporaryMediaCluster"}

\* TemporaryKeyTypeByDcType, and IndexByType of a kind of creation.
KeyType(type) == IF type = "MediaCluster" THEN "MediaCluster" ELSE "Regular"
IndexOf(kind) == IF kind = "TemporaryMediaCluster" THEN "MediaCluster" ELSE "Regular"

TypeOK ==
  /\ persistent \in Keys /\ temporary \in [KeyTypes -> Keys]
  /\ creating \in [KeyTypes -> BOOLEAN]
  /\ mine \in [Sessions -> Kinds]
  /\ alive \in [Sessions -> {"running", "killed", "gone"}]
  /\ changes \in Nat /\ destroyed \subseteq Keys /\ restarts \subseteq Sessions
  /\ connection \in [Sessions -> {"none", "connecting", "ready"}]
  /\ currentType \in [Sessions -> DcTypes]
  /\ keyId \in [Sessions -> Keys] /\ encryption \in [Sessions -> Keys]
  /\ creator \in [Sessions -> {"none", "idle", "creating", "binding", "bound", "refused"}]
  /\ bindKey \in [Sessions -> Keys]
  /\ update \in [Sessions -> BOOLEAN]
  /\ step \in [Sessions -> {"idle", "noKey", "acquire", "start"}]
  /\ lastKey \in Keys /\ forgotten \subseteq Keys /\ unknown \subseteq Keys
  /\ boundTo \in [Keys -> Keys] /\ faults \in 0..MaxFaults

Init ==
  /\ persistent = 0 /\ temporary = [i \in KeyTypes |-> 0]
  /\ creating = [i \in KeyTypes |-> FALSE]
  /\ mine = [s \in Sessions |-> "None"] /\ alive = [s \in Sessions |-> "running"]
  /\ changes = 0 /\ destroyed = {} /\ restarts = {}
  /\ connection = [s \in Sessions |-> "none"] /\ currentType = RealType
  /\ keyId = [s \in Sessions |-> 0] /\ encryption = [s \in Sessions |-> 0]
  /\ creator = [s \in Sessions |-> "none"] /\ bindKey = [s \in Sessions |-> 0]
  /\ update = [s \in Sessions |-> FALSE] /\ step = [s \in Sessions |-> "idle"]
  /\ lastKey = 0 /\ forgotten = {} /\ unknown = {} /\ boundTo = [k \in Keys |-> 0] /\ faults = 0

-----------------------------------------------------------------------------
(* Dcenter *)

\* Mutant: the flag of the regular key is not looked at.
AcquiredUnchecked(type) ==
  IF temporary[KeyType(type)] # 0 THEN "None"
  ELSE IF type # "Cdn" /\ persistent = 0 THEN "Persistent" ELSE "TemporaryRegular"

\* acquireKeyCreation, under the lock.
Acquired(type) ==
  IF temporary[KeyType(type)] # 0 THEN "None"
  ELSE IF type = "MediaCluster" /\ temporary["Regular"] # 0
    THEN IF creating["MediaCluster"] THEN "None" ELSE "TemporaryMediaCluster"
  ELSE IF creating["Regular"] THEN "None"
  ELSE IF type # "Cdn" /\ persistent = 0 THEN "Persistent" ELSE "TemporaryRegular"

\* Mutant: the persistent key a temporary key was bound to is not compared.
AcceptsAny(kind, key) == key \in Keys

\* releaseKeyCreationOnDone: it refuses a temporary key that was bound to a
\* persistent key the data center does not have any more.
Accepts(kind, key) == kind = "Persistent" \/ persistent = key

\* Mutant: both flags are cleared.
FailedBoth(kind) == [i \in KeyTypes |-> kind = "None" /\ creating[i]]

\* releaseKeyCreationOnFail.
Failed(kind) == [i \in KeyTypes |-> creating[i] /\ (kind = "None" \/ IndexOf(kind) # i)]

\* destroyTemporaryKey.
Without(key) == [i \in KeyTypes |-> IF temporary[i] = key THEN 0 ELSE temporary[i]]
Destroys(key) == key # 0 /\ \E i \in KeyTypes : temporary[i] = key

-----------------------------------------------------------------------------
(* SessionPrivate: connecting and finding a key *)

Running(s) == alive[s] = "running"
Idle(s) == Running(s) /\ step[s] = "idle"
Fault == faults < MaxFaults /\ faults' = faults + 1

\* tryAcquireKeyCreation: a session that has a creator keeps it, and one that
\* is to create a regular key for a media session works as a regular session.
TryAcquire(s) ==
  LET kind == IF creator[s] = "none" THEN Acquired(RealType[s]) ELSE mine[s]
  IN /\ mine' = [mine EXCEPT ![s] = kind]
     /\ creating' = [i \in KeyTypes |-> creating[i] \/ (kind # "None" /\ IndexOf(kind) = i)]
     /\ creator' = [creator EXCEPT ![s] = IF @ = "none" /\ kind # "None" THEN "idle" ELSE @]

TypeAfterAcquire(s) ==
  IF creator[s] # "none" THEN currentType[s]
  ELSE IF Acquired(RealType[s]) \in {"Persistent", "TemporaryRegular"}
          /\ RealType[s] = "MediaCluster" THEN "Regular" ELSE RealType[s]

\* doDisconnect, which stops the creator as well; an answer on its way is lost.
Disconnected(s) == connection' = [connection EXCEPT ![s] = "none"]
Stopped(state) == IF state = "creating" THEN "idle"
                  ELSE IF state \in {"bound", "refused"} THEN "binding" ELSE state

ConnectToServer(s) ==
  /\ Idle(s) /\ connection[s] = "none"
  /\ TryAcquire(s)
  /\ currentType' = [currentType EXCEPT ![s] = TypeAfterAcquire(s)]
  /\ connection' = [connection EXCEPT ![s] = "connecting"]
  /\ UNCHANGED <<persistent, temporary, alive, changes, destroyed, restarts, step, keyVars, bindKey,
                 update, serverVars, faults>>

\* applyAuthKey with the key a session has just read: a key in place of another
\* one restarts the connection, none at all goes on in the steps below.
ApplyAuthKey(s, key) ==
  /\ encryption' = [encryption EXCEPT ![s] = key]
  /\ IF keyId[s] # 0 /\ keyId[s] # key
       THEN /\ keyId' = [keyId EXCEPT ![s] = 0]
            /\ Disconnected(s) /\ UNCHANGED step
       ELSE /\ keyId' = [keyId EXCEPT ![s] = key]
            /\ connection' = [connection EXCEPT ![s] = "ready"]
            /\ step' = [step EXCEPT ![s] = IF key = 0 THEN "noKey" ELSE "idle"]

\* onConnected and checkAuthKey.
Connected(s) ==
  /\ Idle(s) /\ connection[s] = "connecting"
  /\ IF keyId[s] # 0
       THEN /\ connection' = [connection EXCEPT ![s] = "ready"]
            /\ UNCHANGED <<keyVars, step>>
       ELSE ApplyAuthKey(s, temporary[KeyType(currentType[s])])
  /\ UNCHANGED <<dcVars, mainVars, currentType, creatorVars, update, serverVars, faults>>

\* updateAuthKey, queued by dcTemporaryKeyChanged.
UpdateAuthKey(s) ==
  /\ Idle(s) /\ update[s]
  /\ update' = [update EXCEPT ![s] = FALSE]
  /\ IF creator[s] # "none" \/ connection[s] # "ready"
       THEN UNCHANGED <<keyVars, connection, step>>
       ELSE ApplyAuthKey(s, temporary[KeyType(currentType[s])])
  /\ UNCHANGED <<dcVars, mainVars, currentType, creatorVars, serverVars, faults>>

\* noMediaKeyWithExistingRegularKey.
NoKey(s) ==
  /\ Running(s) /\ step[s] = "noKey"
  /\ step' = [step EXCEPT ![s] =
       IF currentType[s] = "MediaCluster" /\ temporary["Regular"] # 0 THEN "acquire"
                                                                      ELSE "start"]
  /\ UNCHANGED <<dcVars, mainVars, connection, currentType, keyVars, creatorVars, update,
                 serverVars, faults>>

\* The right to create a media key, or a regular one if the regular key went
\* away: then the session connects again, as a regular one.
Acquire(s) ==
  /\ Running(s) /\ step[s] = "acquire"
  /\ TryAcquire(s)
  /\ IF creator'[s] # "none" /\ TypeAfterAcquire(s) # currentType[s]
       THEN Disconnected(s) /\ step' = [step EXCEPT ![s] = "idle"]
       ELSE UNCHANGED connection /\ step' = [step EXCEPT ![s] = "start"]
  /\ UNCHANGED <<persistent, temporary, alive, changes, destroyed, restarts, currentType, keyVars,
                 bindKey, update, serverVars, faults>>

\* A session with a creator starts it, any other one waits.
Start(s) ==
  /\ Running(s) /\ step[s] = "start"
  /\ step' = [step EXCEPT ![s] = "idle"]
  /\ creator' = [creator EXCEPT ![s] = IF @ = "none" THEN "none" ELSE "creating"]
  /\ UNCHANGED <<dcVars, mainVars, connection, currentType, keyVars, bindKey, update,
                 serverVars, faults>>

-----------------------------------------------------------------------------
(* SessionPrivate: creating a key *)

\* Mutant: the session drops its creator and keeps its right.
ReleaseOnFailKeepsRight(s) ==
  creator' = [creator EXCEPT ![s] = "none"] /\ UNCHANGED <<creating, mine>>

\* releaseKeyCreationOnFail of a session: only one with a creator holds a right.
ReleaseOnFail(s) ==
  /\ creating' = IF creator[s] = "none" THEN creating ELSE Failed(mine[s])
  /\ mine' = [mine EXCEPT ![s] = IF creator[s] = "none" THEN @ ELSE "None"]
  /\ creator' = [creator EXCEPT ![s] = "none"]

\* destroyTemporaryKey of a session, and the restart in it: the data center
\* forgets the key this session used, whoever created it, and says so.
DestroyTemporaryKey(s) ==
  /\ temporary' = Without(encryption[s])
  /\ changes' = IF Destroys(encryption[s]) THEN changes + 1 ELSE changes
  /\ keyId' = [keyId EXCEPT ![s] = 0] /\ encryption' = [encryption EXCEPT ![s] = 0]
  /\ Disconnected(s)

\* The creation of a temporary key and, if there was none, of a persistent one.
NewPersistent(s) == IF mine[s] = "Persistent" THEN lastKey + 2 ELSE persistent

\* Mutant: a new persistent key is not counted.
LastOfTemporary(s) == lastKey + 1

LastOf(s) == IF mine[s] = "Persistent" THEN lastKey + 2 ELSE lastKey + 1

Unbound(s) == /\ Idle(s) /\ connection[s] = "ready" /\ creator[s] = "creating"

\* unboundReady: the session uses the new key and starts to bind it.
UnboundReady(s) ==
  /\ Unbound(s) /\ RealType[s] # "Cdn" /\ NewPersistent(s) # 0
  /\ LastOf(s) \in Keys /\ lastKey' = LastOf(s)
  /\ bindKey' = [bindKey EXCEPT ![s] = NewPersistent(s)]
  /\ creator' = [creator EXCEPT ![s] = "binding"]
  /\ keyId' = [keyId EXCEPT ![s] = lastKey + 1]
  /\ encryption' = [encryption EXCEPT ![s] = lastKey + 1]
  /\ UNCHANGED <<dcVars, mainVars, connVars, update, forgotten, unknown, boundTo, faults>>

\* Mutant: nobody is told.
ReleaseOnDoneSilent(s, key, bound) ==
  /\ temporary' = [temporary EXCEPT ![IndexOf(mine[s])] = key]
  /\ creating' = [creating EXCEPT ![IndexOf(mine[s])] = FALSE]
  /\ persistent' = IF mine[s] = "Persistent" THEN bound ELSE persistent
  /\ mine' = [mine EXCEPT ![s] = "None"]
  /\ creator' = [creator EXCEPT ![s] = "none"]
  /\ UNCHANGED changes

\* releaseKeyCreationOnDone, when the data center takes the key.
ReleaseOnDone(s, key, bound) ==
  /\ temporary' = [temporary EXCEPT ![IndexOf(mine[s])] = key]
  /\ creating' = [creating EXCEPT ![IndexOf(mine[s])] = FALSE]
  /\ persistent' = IF mine[s] = "Persistent" THEN bound ELSE persistent
  /\ mine' = [mine EXCEPT ![s] = "None"]
  /\ creator' = [creator EXCEPT ![s] = "none"]
  /\ changes' = changes + 1

\* The key of a CDN is not bound to anything.
CdnReady(s) ==
  /\ Unbound(s) /\ RealType[s] = "Cdn" /\ Accepts(mine[s], 0)
  /\ LastOf(s) \in Keys /\ lastKey' = LastOf(s)
  /\ ReleaseOnDone(s, lastKey + 1, 0)
  /\ keyId' = [keyId EXCEPT ![s] = lastKey + 1]
  /\ encryption' = [encryption EXCEPT ![s] = lastKey + 1]
  /\ UNCHANGED <<alive, destroyed, restarts, connVars, bindKey, update, forgotten, unknown, boundTo,
                 faults>>

\* The creation fails, or the persistent key went away while it was done.
UnboundFailed(s) ==
  /\ Unbound(s)
  /\ IF RealType[s] # "Cdn" /\ NewPersistent(s) = 0 THEN UNCHANGED faults ELSE Fault
  /\ ReleaseOnFail(s) /\ Disconnected(s)
  /\ UNCHANGED <<persistent, temporary, alive, changes, destroyed, restarts, currentType, step,
                 keyVars, bindKey, update, serverVars>>

\* handleBindResponse.  A creator that is taken leaves no right to release.
BindAccepted(s) ==
  /\ Idle(s) /\ connection[s] = "ready" /\ creator[s] = "bound"
  /\ Accepts(mine[s], bindKey[s])
  /\ ReleaseOnDone(s, encryption[s], bindKey[s])
  /\ UNCHANGED <<alive, destroyed, restarts, connVars, keyVars, bindKey, update, serverVars,
                 faults>>

BindTooLate(s) ==
  /\ Idle(s) /\ connection[s] = "ready" /\ creator[s] = "bound"
  /\ ~Accepts(mine[s], bindKey[s])
  /\ mine' = [mine EXCEPT ![s] = "None"] /\ creator' = [creator EXCEPT ![s] = "none"]
  /\ DestroyTemporaryKey(s)
  /\ UNCHANGED <<persistent, creating, alive, destroyed, restarts, currentType, step, bindKey,
                 update, serverVars, faults>>

\* The server does not know the persistent key: if it is old enough it is taken
\* for destroyed, otherwise the session tries again.
BindRefused(s) ==
  /\ Idle(s) /\ connection[s] = "ready" /\ creator[s] = "refused"
  /\ \/ /\ ReleaseOnFail(s) /\ DestroyTemporaryKey(s)
        /\ destroyed' = destroyed \union {bindKey[s]}
     \/ /\ creator' = [creator EXCEPT ![s] = "binding"]
        /\ UNCHANGED <<creating, temporary, mine, changes, destroyed, connection, keyVars>>
  /\ UNCHANGED <<persistent, alive, restarts, currentType, step, bindKey, update, serverVars,
                 faults>>

\* Error -404, or AUTH_KEY_PERM_EMPTY: the server does not know the key in use.
Refused(s) ==
  /\ ReleaseOnFail(s) /\ DestroyTemporaryKey(s)
  /\ UNCHANGED <<persistent, alive, destroyed, restarts, currentType, step, bindKey, update,
                 lastKey, forgotten, boundTo>>

KeyUnknown(s) ==
  /\ Idle(s) /\ connection[s] # "none" /\ Fault
  /\ unknown' = unknown \union ({encryption[s]} \ {0})
  /\ Refused(s)

\* Every other session that still uses the key is answered the same.
KeyStillUnknown(s) ==
  /\ Idle(s) /\ connection[s] = "ready" /\ keyId[s] \in unknown
  /\ Refused(s) /\ UNCHANGED <<unknown, faults>>

ConnectionLost(s) ==
  /\ Idle(s) /\ connection[s] # "none" /\ Fault
  /\ Disconnected(s) /\ creator' = [creator EXCEPT ![s] = Stopped(@)]
  /\ UNCHANGED <<dcVars, mainVars, currentType, step, keyVars, bindKey, update, serverVars>>

\* restartNow, queued by Session::restart.
RestartNow(s) ==
  /\ Idle(s) /\ s \in restarts /\ restarts' = restarts \ {s}
  /\ Disconnected(s) /\ creator' = [creator EXCEPT ![s] = Stopped(@)]
  /\ UNCHANGED <<dcVars, mine, alive, changes, destroyed, currentType, step, keyVars, bindKey,
                 update, serverVars, faults>>

-----------------------------------------------------------------------------
(* The main thread *)

\* dcTemporaryKeyChanged queues updateAuthKey in every session.
Told == [s \in Sessions |-> update[s] \/ Running(s)]

KeyChanged ==
  /\ changes > 0 /\ changes' = changes - 1
  /\ update' = Told
  /\ UNCHANGED <<dcVars, mine, alive, destroyed, restarts, connVars, keyVars, creatorVars,
                 serverVars, faults>>

\* keyDestroyedOnServer: with its persistent key all keys of the data center go,
\* and its sessions are restarted in any case.
KeyDestroyed(k) ==
  /\ k \in destroyed /\ destroyed' = destroyed \ {k}
  /\ IF persistent = k
       THEN /\ persistent' = 0 /\ temporary' = [i \in KeyTypes |-> 0]
            /\ update' = Told
       ELSE UNCHANGED <<persistent, temporary, update>>
  /\ restarts' = restarts \union {s \in Sessions : Running(s)}
  /\ UNCHANGED <<creating, mine, alive, changes, connVars, keyVars, creatorVars, serverVars,
                 faults>>

\* kill: from now on SessionPrivate has no owner to call, and ~Session releases
\* what it held.
Kill(s) ==
  /\ Running(s) /\ s \in Killable
  /\ alive' = [alive EXCEPT ![s] = "killed"]
  /\ UNCHANGED <<dcVars, mine, changes, destroyed, restarts, connVars, keyVars, creatorVars, update,
                 serverVars, faults>>

DestroySession(s) ==
  /\ alive[s] = "killed" /\ alive' = [alive EXCEPT ![s] = "gone"]
  /\ creating' = Failed(mine[s]) /\ mine' = [mine EXCEPT ![s] = "None"]
  /\ UNCHANGED <<persistent, temporary, changes, destroyed, restarts, connVars, keyVars,
                 creatorVars, update, serverVars, faults>>

-----------------------------------------------------------------------------
(* The server *)

ServerBinds(s) ==
  /\ Running(s) /\ connection[s] = "ready" /\ creator[s] = "binding"
  /\ encryption[s] \notin unknown
  /\ creator' = [creator EXCEPT ![s] = IF bindKey[s] \in forgotten THEN "refused" ELSE "bound"]
  /\ boundTo' = IF bindKey[s] \in forgotten THEN boundTo
                ELSE [boundTo EXCEPT ![encryption[s]] = bindKey[s]]
  /\ UNCHANGED <<dcVars, mainVars, connVars, keyVars, bindKey, update, lastKey, forgotten,
                 unknown, faults>>

ServerForgets == /\ OldKeys /\ persistent \notin forgotten \union {0}
                 /\ forgotten' = forgotten \union {persistent} /\ Fault
                 /\ UNCHANGED <<dcVars, mainVars, connVars, keyVars, creatorVars, update,
                                lastKey, unknown, boundTo>>

Works(s) == \/ ConnectToServer(s) \/ Connected(s) \/ UpdateAuthKey(s)
            \/ NoKey(s) \/ Acquire(s) \/ Start(s) \/ RestartNow(s)
            \/ UnboundReady(s) \/ CdnReady(s)
            \/ BindAccepted(s) \/ BindTooLate(s) \/ BindRefused(s) \/ KeyStillUnknown(s)

Main == KeyChanged \/ (\E k \in Keys : KeyDestroyed(k)) \/ (\E s \in Sessions : DestroySession(s))

Next == \/ \E s \in Sessions : Works(s) \/ UnboundFailed(s) \/ KeyUnknown(s) \/ ConnectionLost(s)
                               \/ Kill(s) \/ ServerBinds(s)
        \/ Main \/ ServerForgets

Spec == Init /\ [][Next]_vars

\* Every event loop runs and the server answers.
FairSpec == /\ Spec /\ WF_vars(Main)
            /\ \A s \in Sessions : WF_vars(Works(s)) /\ WF_vars(ServerBinds(s))

-----------------------------------------------------------------------------
(* Properties *)

\* Two sessions never create the same key at once, and while a session creates
\* one the data center has none: what releaseKeyCreationOnDone and
\* releaseKeyCreationOnFail expect (Expects) when they are called.
OneCreator ==
  /\ \A s, t \in Sessions :
       mine[s] # "None" /\ mine[t] # "None" /\ IndexOf(mine[s]) = IndexOf(mine[t]) => s = t
  /\ \A s \in Sessions : mine[s] # "None" => /\ creating[IndexOf(mine[s])]
                                             /\ temporary[IndexOf(mine[s])] = 0

\* The temporary keys of a data center are bound to its persistent key, however
\* the binding of one and the loss of the other interleave.
BoundToPersistent ==
  \A i \in KeyTypes : temporary[i] # 0 => boundTo[temporary[i]] = persistent

\* A session holds a right exactly as long as it has a creator: what
\* Session::acquireKeyCreation and both releases expect of _myKeyCreation.
RightWithCreator == \A s \in Sessions : Running(s) => (creator[s] = "none" <=> mine[s] = "None")

\* Whatever fails on the way, a session gets a key it can send with, unless it is
\* killed before.
CanSend(s) == connection[s] = "ready" /\ keyId[s] # 0 /\ creator[s] = "none"

GetsKey == \A s \in Sessions : Running(s) ~> CanSend(s) \/ ~Running(s)
=============================================================================
