---------------------------- MODULE DcKeysProofs -----------------------------
(***************************************************************************)
(* Proofs about DcKeys for any sessions, any bounds and any faults: who    *)
(* holds the right to create a key, and what the temporary keys are bound  *)
(* to.  Binding(s) is a session whose new key waits for the server's       *)
(* answer.                                                                 *)
(***************************************************************************)
EXTENDS DcKeys, TLAPS

Binding(s) == Running(s) /\ creator[s] \in {"binding", "bound", "refused"}

\* Where a session can be with its creator.
Places ==
  \A s \in Sessions : Running(s) =>
    /\ creator[s] \in {"creating", "bound", "refused"} => connection[s] = "ready"
    /\ step[s] # "idle" => connection[s] = "ready" /\ creator[s] \in {"none", "idle"}

\* The key that is being bound is the one the session uses, nobody else's, and
\* not stored yet.
Fresh ==
  /\ \A i \in KeyTypes : temporary[i] <= lastKey
  /\ \A s \in Sessions : Binding(s) =>
       /\ keyId[s] = encryption[s] /\ encryption[s] # 0 /\ encryption[s] <= lastKey
       /\ bindKey[s] # 0
       /\ \A i \in KeyTypes : temporary[i] # encryption[s]
  /\ \A s, t \in Sessions : Binding(s) /\ Binding(t) /\ encryption[s] = encryption[t] => s = t

\* What the server's answer to a binding means.
Answered ==
  /\ \A k \in Keys : k > lastKey => boundTo[k] = 0
  /\ \A s \in Sessions : Running(s) /\ creator[s] = "bound" => boundTo[encryption[s]] = bindKey[s]

\* A persistent key is created only where there is none.
FirstKey == \A s \in Sessions : mine[s] = "Persistent" => persistent = 0 /\ RealType[s] # "Cdn"

\* Without a persistent key there are no temporary keys, except in a CDN.
NoKeyWithout ==
  \A i \in KeyTypes : temporary[i] # 0 /\ persistent = 0 => \A s \in Sessions : RealType[s] = "Cdn"

Holders == OneCreator /\ RightWithCreator

IInv == /\ TypeOK /\ Holders /\ Places /\ Fresh /\ Answered
        /\ FirstKey /\ NoKeyWithout /\ BoundToPersistent

-----------------------------------------------------------------------------
(* What the shared pieces of the handlers do *)

\* acquireKeyCreation grants only a key that nobody creates and that is missing,
\* and a persistent key only where there is none.
LEMMA AcquiredFacts ==
  ASSUME TypeOK, NEW type \in DcTypes, Acquired(type) # "None"
  PROVE  /\ Acquired(type) \in Kinds /\ IndexOf(Acquired(type)) \in KeyTypes
         /\ ~creating[IndexOf(Acquired(type))] /\ temporary[IndexOf(Acquired(type))] = 0
         /\ Acquired(type) = "Persistent" =>
              persistent = 0 /\ type # "Cdn" /\ temporary["Regular"] = 0
  BY DEF TypeOK, Acquired, IndexOf, KeyType, KeyTypes, Kinds, DcTypes

\* The types of tryAcquireKeyCreation.
LEMMA TryAcquireTypes ==
  ASSUME TypeOK, NEW s \in Sessions, TryAcquire(s)
  PROVE  /\ mine' \in [Sessions -> Kinds] /\ creating' \in [KeyTypes -> BOOLEAN]
         /\ creator' \in [Sessions -> {"none", "idle", "creating", "binding", "bound", "refused"}]
         /\ TypeAfterAcquire(s) \in DcTypes
<1>1. RealType[s] \in DcTypes
  BY TypesAssumption
<1>2. Acquired(RealType[s]) \in Kinds
  BY <1>1, AcquiredFacts DEF Kinds
<1> QED BY <1>1, <1>2 DEF TypeOK, TryAcquire, TypeAfterAcquire, Kinds, DcTypes

\* The key applyAuthKey is called with is a key.
LEMMA KeyInRange ==
  ASSUME TypeOK, NEW s \in Sessions
  PROVE  temporary[KeyType(currentType[s])] \in Keys
  BY DEF TypeOK, KeyType, KeyTypes

\* The types of applyAuthKey.
LEMMA ApplyTypes ==
  ASSUME TypeOK, NEW s \in Sessions, NEW key \in Keys, ApplyAuthKey(s, key)
  PROVE  /\ encryption' \in [Sessions -> Keys] /\ keyId' \in [Sessions -> Keys]
         /\ connection' \in [Sessions -> {"none", "connecting", "ready"}]
         /\ step' \in [Sessions -> {"idle", "noKey", "acquire", "start"}]
<1>1. encryption' \in [Sessions -> Keys]
  BY DEF ApplyAuthKey, TypeOK
<1>2. CASE keyId[s] # 0 /\ keyId[s] # key
  <2>1. 0 \in Keys
    BY BoundsAssumption DEF Keys
  <2> QED BY <1>1, <1>2, <2>1 DEF ApplyAuthKey, TypeOK, Disconnected
<1>3. CASE ~(keyId[s] # 0 /\ keyId[s] # key)
  BY <1>1, <1>3 DEF ApplyAuthKey, TypeOK
<1> QED BY <1>2, <1>3

\* The types of releaseKeyCreationOnFail.
LEMMA FailTypes ==
  ASSUME TypeOK, NEW s \in Sessions, ReleaseOnFail(s)
  PROVE  /\ creating' \in [KeyTypes -> BOOLEAN] /\ mine' \in [Sessions -> Kinds]
         /\ creator' \in [Sessions -> {"none", "idle", "creating", "binding", "bound", "refused"}]
  BY DEF ReleaseOnFail, Failed, TypeOK, Kinds

\* The types of destroyTemporaryKey.
LEMMA DestroyTypes ==
  ASSUME TypeOK, NEW s \in Sessions, DestroyTemporaryKey(s)
  PROVE  /\ temporary' \in [KeyTypes -> Keys] /\ changes' \in Nat
         /\ keyId' \in [Sessions -> Keys] /\ encryption' \in [Sessions -> Keys]
         /\ connection' \in [Sessions -> {"none", "connecting", "ready"}]
<1>1. 0 \in Keys
  BY BoundsAssumption DEF Keys
<1> QED BY <1>1 DEF DestroyTemporaryKey, Without, Disconnected, TypeOK

\* The types of releaseKeyCreationOnDone.
LEMMA DoneTypes ==
  ASSUME TypeOK, NEW s \in Sessions, NEW key \in Keys, NEW bound \in Keys,
         ReleaseOnDone(s, key, bound)
  PROVE  /\ temporary' \in [KeyTypes -> Keys] /\ creating' \in [KeyTypes -> BOOLEAN]
         /\ persistent' \in Keys /\ mine' \in [Sessions -> Kinds] /\ changes' \in Nat
         /\ creator' \in [Sessions -> {"none", "idle", "creating", "binding", "bound", "refused"}]
<1>1. persistent' = IF mine[s] = "Persistent" THEN bound ELSE persistent
  BY DEF ReleaseOnDone
<1>2. persistent' \in Keys
  BY <1>1 DEF TypeOK
<1>3. temporary' \in [KeyTypes -> Keys] /\ creating' \in [KeyTypes -> BOOLEAN]
  BY DEF ReleaseOnDone, TypeOK
<1>5. mine' \in [Sessions -> Kinds]
  BY DEF ReleaseOnDone, TypeOK, Kinds
<1>6. changes' \in Nat
  BY DEF ReleaseOnDone, TypeOK
<1>4. creator' \in [Sessions -> {"none", "idle", "creating", "binding", "bound", "refused"}]
  BY DEF ReleaseOnDone, TypeOK
<1> QED BY <1>2, <1>3, <1>4, <1>5, <1>6

\* The numbers of the keys a creation makes.
LEMMA NewKeyNumbers ==
  ASSUME TypeOK, NEW s \in Sessions, LastOf(s) \in Keys
  PROVE  /\ lastKey \in Nat /\ LastOf(s) \in Nat
         /\ lastKey < LastOf(s) /\ lastKey + 1 <= LastOf(s)
         /\ lastKey + 1 # 0 /\ lastKey + 1 \in Keys /\ NewPersistent(s) \in Keys
<1>1. lastKey \in 0..MaxKey /\ persistent \in 0..MaxKey /\ MaxKey \in Nat
  BY BoundsAssumption DEF TypeOK, Keys
<1>2. CASE mine[s] = "Persistent"
  <2>1. LastOf(s) = lastKey + 2 /\ NewPersistent(s) = lastKey + 2
    BY <1>2 DEF LastOf, NewPersistent
  <2>2. lastKey + 2 \in 0..MaxKey
    BY <2>1 DEF Keys
  <2> QED BY <1>1, <2>1, <2>2 DEF Keys
<1>3. CASE mine[s] # "Persistent"
  <2>1. LastOf(s) = lastKey + 1 /\ NewPersistent(s) = persistent
    BY <1>3 DEF LastOf, NewPersistent
  <2>2. lastKey + 1 \in 0..MaxKey
    BY <2>1 DEF Keys
  <2> QED BY <1>1, <2>1, <2>2 DEF Keys
<1> QED BY <1>2, <1>3

-----------------------------------------------------------------------------
(* Type correctness *)

\* A step keeps the types.
LEMMA TypeStep ==
  ASSUME TypeOK, [Next]_vars
  PROVE  TypeOK'
<1> USE DEF TypeOK, dcVars, mainVars, connVars, keyVars, creatorVars, serverVars
<1>1. ASSUME NEW s \in Sessions, ConnectToServer(s) PROVE TypeOK'
  BY <1>1, TryAcquireTypes DEF ConnectToServer
<1>2. ASSUME NEW s \in Sessions, Connected(s) PROVE TypeOK'
  <2>1. CASE keyId[s] # 0
    BY <1>2, <2>1 DEF Connected
  <2>2. CASE keyId[s] = 0
    BY <1>2, <2>2, ApplyTypes, KeyInRange DEF Connected
  <2> QED BY <2>1, <2>2
<1>3. ASSUME NEW s \in Sessions, UpdateAuthKey(s) PROVE TypeOK'
  <2>1. CASE creator[s] # "none" \/ connection[s] # "ready"
    BY <1>3, <2>1 DEF UpdateAuthKey
  <2>2. CASE ~(creator[s] # "none" \/ connection[s] # "ready")
    <3>1. ApplyAuthKey(s, temporary[KeyType(currentType[s])])
      BY <1>3, <2>2 DEF UpdateAuthKey
    <3> QED BY <1>3, <3>1, ApplyTypes, KeyInRange DEF UpdateAuthKey
  <2> QED BY <2>1, <2>2
<1>4. ASSUME NEW s \in Sessions, NoKey(s) PROVE TypeOK'
  BY <1>4 DEF NoKey
<1>5. ASSUME NEW s \in Sessions, Acquire(s) PROVE TypeOK'
  BY <1>5, TryAcquireTypes DEF Acquire, Disconnected
<1>6. ASSUME NEW s \in Sessions, Start(s) PROVE TypeOK'
  BY <1>6 DEF Start
<1>7. ASSUME NEW s \in Sessions, UnboundReady(s) PROVE TypeOK'
  <2>1. LastOf(s) \in Keys
    BY <1>7 DEF UnboundReady
  <2>2. lastKey + 1 \in Keys /\ NewPersistent(s) \in Keys
    BY <2>1, NewKeyNumbers
  <2> QED BY <1>7, <2>1, <2>2 DEF UnboundReady
<1>8. ASSUME NEW s \in Sessions, CdnReady(s) PROVE TypeOK'
  <2>1. lastKey + 1 \in Keys /\ 0 \in Keys
    BY <1>8, BoundsAssumption DEF CdnReady, LastOf, Keys
  <2> QED BY <1>8, <2>1, DoneTypes DEF CdnReady
<1>9. ASSUME NEW s \in Sessions, BindAccepted(s) PROVE TypeOK'
  BY <1>9, DoneTypes DEF BindAccepted
<1>10. ASSUME NEW s \in Sessions, BindTooLate(s) PROVE TypeOK'
  BY <1>10, DestroyTypes DEF BindTooLate, Kinds
<1>11. ASSUME NEW s \in Sessions, BindRefused(s) PROVE TypeOK'
  <2>1. CASE ReleaseOnFail(s) /\ DestroyTemporaryKey(s)
             /\ destroyed' = destroyed \union {bindKey[s]}
    BY <1>11, <2>1, FailTypes, DestroyTypes DEF BindRefused
  <2>2. CASE ~(ReleaseOnFail(s) /\ DestroyTemporaryKey(s)
               /\ destroyed' = destroyed \union {bindKey[s]})
    BY <1>11, <2>2 DEF BindRefused
  <2> QED BY <2>1, <2>2
<1>12. ASSUME NEW s \in Sessions, KeyStillUnknown(s) PROVE TypeOK'
  BY <1>12, FailTypes, DestroyTypes DEF KeyStillUnknown, Refused
<1>13. ASSUME NEW s \in Sessions, UnboundFailed(s) PROVE TypeOK'
  <2>1. faults' \in 0..MaxFaults
    BY <1>13, BoundsAssumption DEF UnboundFailed, Fault
  <2> QED BY <1>13, <2>1, FailTypes DEF UnboundFailed, Disconnected
<1>14. ASSUME NEW s \in Sessions, KeyUnknown(s) PROVE TypeOK'
  <2>1. faults' \in 0..MaxFaults
    BY <1>14, BoundsAssumption DEF KeyUnknown, Fault
  <2> QED BY <1>14, <2>1, FailTypes, DestroyTypes DEF KeyUnknown, Refused
<1>15. ASSUME NEW s \in Sessions, ConnectionLost(s) PROVE TypeOK'
  <2>1. faults' \in 0..MaxFaults
    BY <1>15, BoundsAssumption DEF ConnectionLost, Fault
  <2> QED BY <1>15, <2>1 DEF ConnectionLost, Disconnected, Stopped
<1>16. ASSUME NEW s \in Sessions, Kill(s) PROVE TypeOK'
  BY <1>16 DEF Kill
<1>17. ASSUME NEW s \in Sessions, ServerBinds(s) PROVE TypeOK'
  BY <1>17 DEF ServerBinds
<1>18. ASSUME NEW s \in Sessions, DestroySession(s) PROVE TypeOK'
  BY <1>18 DEF DestroySession, Failed, Kinds
<1>19. CASE KeyChanged
  BY <1>19 DEF KeyChanged, Told, Running
<1>20. ASSUME NEW k \in Keys, KeyDestroyed(k) PROVE TypeOK'
  <2>1. Told \in [Sessions -> BOOLEAN]
    BY DEF Told, Running
  <2>2. 0 \in Keys
    BY BoundsAssumption DEF Keys
  <2>3. CASE persistent = k
    BY <1>20, <2>1, <2>2, <2>3 DEF KeyDestroyed
  <2>4. CASE persistent # k
    BY <1>20, <2>4 DEF KeyDestroyed
  <2> QED BY <2>3, <2>4
<1>21. CASE ServerForgets
  <2>1. faults' \in 0..MaxFaults
    BY <1>21, BoundsAssumption DEF ServerForgets, Fault
  <2> QED BY <1>21, <2>1 DEF ServerForgets
<1>22. CASE UNCHANGED vars
  BY <1>22 DEF vars
<1>23. ASSUME NEW s \in Sessions, RestartNow(s) PROVE TypeOK'
  BY <1>23 DEF RestartNow, Disconnected, Stopped
<1> QED BY <1>1, <1>2, <1>3, <1>4, <1>5, <1>6, <1>7, <1>8, <1>9, <1>10, <1>11, <1>12, <1>13,
           <1>14, <1>15, <1>16, <1>17, <1>18, <1>19, <1>20, <1>21, <1>22, <1>23
        DEF Next, Works, Main

-----------------------------------------------------------------------------
(* Who holds the right to create a key *)

\* A step that gives and takes no right.
LEMMA HoldersKept ==
  ASSUME TypeOK, Holders, creating' = creating, mine' = mine,
         \A t \in Sessions : Running(t)' =>
           Running(t) /\ (creator'[t] = "none" <=> creator[t] = "none"),
         \A i \in KeyTypes : temporary[i] = 0 => temporary'[i] = 0
  PROVE  Holders'
<1>1. \A t \in Sessions : mine[t] # "None" => IndexOf(mine[t]) \in KeyTypes
  BY DEF IndexOf, KeyTypes
<1>2. OneCreator'
  BY <1>1 DEF Holders, OneCreator, IndexOf
<1>3. RightWithCreator'
  BY DEF Holders, RightWithCreator
<1> QED BY <1>2, <1>3 DEF Holders

\* A step that takes the right of one session leaves those of the others.
LEMMA HoldersReleased ==
  ASSUME TypeOK, Holders, NEW s \in Sessions, mine' = [mine EXCEPT ![s] = "None"],
         Running(s)' => creator'[s] = "none",
         \A t \in Sessions \ {s} : creator'[t] = creator[t] /\ alive'[t] = alive[t],
         \A i \in KeyTypes : mine[s] = "None" \/ i # IndexOf(mine[s]) =>
           (creating[i] => creating'[i]) /\ (temporary[i] = 0 => temporary'[i] = 0)
  PROVE  Holders'
<1>1. mine'[s] = "None" /\ \A t \in Sessions \ {s} : mine'[t] = mine[t]
  BY DEF TypeOK
<1>2. \A t \in Sessions : mine[t] # "None" => IndexOf(mine[t]) \in KeyTypes
  BY DEF IndexOf, KeyTypes
<1>3. ASSUME NEW t \in Sessions, mine'[t] # "None"
      PROVE  t # s /\ mine'[t] = mine[t] /\ creating'[IndexOf(mine[t])]
             /\ temporary'[IndexOf(mine[t])] = 0
  <2>1. t # s /\ mine'[t] = mine[t]
    BY <1>1, <1>3
  <2>2. mine[s] = "None" \/ IndexOf(mine[t]) # IndexOf(mine[s])
    BY <1>3, <2>1 DEF Holders, OneCreator
  <2>3. creating[IndexOf(mine[t])] /\ temporary[IndexOf(mine[t])] = 0
    BY <1>3, <2>1 DEF Holders, OneCreator
  <2> QED BY <1>2, <1>3, <2>1, <2>2, <2>3
<1>4. OneCreator'
  <2>1. \A t, u \in Sessions : mine'[t] # "None" /\ mine'[u] # "None"
          /\ IndexOf(mine'[t]) = IndexOf(mine'[u]) => t = u
    BY <1>3 DEF Holders, OneCreator
  <2>2. \A t \in Sessions : mine'[t] # "None" =>
          creating'[IndexOf(mine'[t])] /\ temporary'[IndexOf(mine'[t])] = 0
    BY <1>3
  <2> QED BY <2>1, <2>2 DEF OneCreator, IndexOf
<1>5. RightWithCreator'
  BY <1>1 DEF Holders, RightWithCreator, Running
<1> QED BY <1>4, <1>5 DEF Holders

\* releaseKeyCreationOnFail of a session.
LEMMA HoldersFail ==
  ASSUME TypeOK, Holders, NEW s \in Sessions, Running(s), ReleaseOnFail(s), alive' = alive,
         \A i \in KeyTypes : temporary[i] = 0 => temporary'[i] = 0
  PROVE  Holders'
<1>1. CASE creator[s] = "none"
  <2>1. creator' = creator /\ creating' = creating /\ mine' = mine
    BY <1>1 DEF ReleaseOnFail, TypeOK
  <2> QED BY <2>1, HoldersKept DEF Running
<1>2. CASE creator[s] # "none"
  <2>1. mine' = [mine EXCEPT ![s] = "None"]
    BY <1>2 DEF ReleaseOnFail
  <2>2. creator'[s] = "none" /\ \A t \in Sessions \ {s} : creator'[t] = creator[t]
    BY DEF ReleaseOnFail, TypeOK
  <2>3. \A i \in KeyTypes : mine[s] = "None" \/ i # IndexOf(mine[s]) => (creating[i] => creating'[i])
    BY <1>2 DEF ReleaseOnFail, Failed
  <2> QED BY <2>1, <2>2, <2>3, HoldersReleased
<1> QED BY <1>1, <1>2

\* releaseKeyCreationOnDone of a session.
LEMMA HoldersDone ==
  ASSUME TypeOK, Holders, NEW s \in Sessions, Running(s), creator[s] # "none",
         NEW key, NEW bound, ReleaseOnDone(s, key, bound), alive' = alive
  PROVE  Holders'
<1>1. mine[s] # "None"
  BY DEF Holders, RightWithCreator
<1>2. \A i \in KeyTypes : i # IndexOf(mine[s]) =>
        creating'[i] = creating[i] /\ temporary'[i] = temporary[i]
  BY DEF ReleaseOnDone, TypeOK
<1>3. mine' = [mine EXCEPT ![s] = "None"]
  BY DEF ReleaseOnDone
<1>4. creator'[s] = "none" /\ \A t \in Sessions \ {s} : creator'[t] = creator[t]
  BY DEF ReleaseOnDone, TypeOK
<1> QED BY <1>1, <1>2, <1>3, <1>4, HoldersReleased

\* tryAcquireKeyCreation of a session: a new right is to a key nobody creates.
LEMMA HoldersAcquire ==
  ASSUME TypeOK, Holders, NEW s \in Sessions, Running(s), TryAcquire(s),
         alive' = alive, temporary' = temporary
  PROVE  Holders'
<1>1. CASE creator[s] # "none"
  <2>1. mine' = mine /\ creator' = creator
    BY <1>1 DEF TryAcquire, TypeOK
  <2>2. creating' = creating
    <3>1. creating[IndexOf(mine[s])]
      BY <1>1 DEF Holders, OneCreator, RightWithCreator
    <3>2. creating' = [i \in KeyTypes |-> creating[i] \/ (mine[s] # "None" /\ IndexOf(mine[s]) = i)]
      BY <1>1 DEF TryAcquire
    <3> QED BY <3>1, <3>2, Zenon DEF TypeOK
  <2> QED BY <2>1, <2>2, HoldersKept DEF Running
<1>2. CASE creator[s] = "none"
  <2> DEFINE kind == Acquired(RealType[s])
  <2>1. mine[s] = "None"
    BY <1>2 DEF Holders, RightWithCreator
  <2>2. CASE kind = "None"
    <3>1. mine' = mine /\ creator' = creator
      BY <1>2, <2>1, <2>2 DEF TryAcquire, TypeOK
    <3>2. creating' = creating
      BY <1>2, <2>2, Zenon DEF TryAcquire, TypeOK
    <3> QED BY <3>1, <3>2, HoldersKept DEF Running
  <2>3. CASE kind # "None"
    <3> HIDE DEF kind
    <3>1. IndexOf(kind) \in KeyTypes /\ ~creating[IndexOf(kind)] /\ temporary[IndexOf(kind)] = 0
      BY <2>3, AcquiredFacts, TypesAssumption DEF kind
    <3>2. mine'[s] = kind /\ \A t \in Sessions \ {s} : mine'[t] = mine[t]
      BY <1>2 DEF TryAcquire, TypeOK, kind
    <3>3. creator'[s] # "none" /\ \A t \in Sessions \ {s} : creator'[t] = creator[t]
      BY <1>2, <2>3 DEF TryAcquire, TypeOK, kind
    <3>4. creating'[IndexOf(kind)] /\ \A i \in KeyTypes : creating[i] => creating'[i]
      BY <1>2, <2>3, <3>1 DEF TryAcquire, TypeOK, kind
    <3>5. \A t \in Sessions \ {s} : mine[t] # "None" => /\ IndexOf(mine[t]) # IndexOf(kind)
                                                        /\ IndexOf(mine[t]) \in KeyTypes
      BY <3>1 DEF Holders, OneCreator, IndexOf, KeyTypes
    <3>6. \A t \in Sessions : mine'[t] # "None" =>
            creating'[IndexOf(mine'[t])] /\ temporary'[IndexOf(mine'[t])] = 0
      BY <3>1, <3>2, <3>4, <3>5 DEF Holders, OneCreator
    <3>7. \A t, u \in Sessions : mine'[t] # "None" /\ mine'[u] # "None"
            /\ IndexOf(mine'[t]) = IndexOf(mine'[u]) => t = u
      BY <3>2, <3>5 DEF Holders, OneCreator
    <3>8. OneCreator'
      BY <3>6, <3>7 DEF OneCreator, IndexOf
    <3>9. RightWithCreator'
      BY <2>3, <3>2, <3>3 DEF Holders, RightWithCreator, Running
    <3> QED BY <3>8, <3>9 DEF Holders
  <2> QED BY <2>2, <2>3
<1> QED BY <1>1, <1>2

\* A step keeps the rights apart.
LEMMA HoldersStep ==
  ASSUME TypeOK, Holders, [Next]_vars
  PROVE  Holders'
<1> USE DEF Running, dcVars, mainVars, connVars, keyVars, creatorVars, serverVars
<1>1. ASSUME NEW s \in Sessions, ConnectToServer(s) PROVE Holders'
  BY <1>1, HoldersAcquire DEF ConnectToServer, Idle
<1>2. ASSUME NEW s \in Sessions, Connected(s) PROVE Holders'
  BY <1>2, HoldersKept DEF Connected
<1>3. ASSUME NEW s \in Sessions, UpdateAuthKey(s) PROVE Holders'
  BY <1>3, HoldersKept DEF UpdateAuthKey
<1>4. ASSUME NEW s \in Sessions, NoKey(s) PROVE Holders'
  BY <1>4, HoldersKept DEF NoKey
<1>5. ASSUME NEW s \in Sessions, Acquire(s) PROVE Holders'
  BY <1>5, HoldersAcquire DEF Acquire
<1>6. ASSUME NEW s \in Sessions, Start(s) PROVE Holders'
  <2>1. \A t \in Sessions : creator'[t] = "none" <=> creator[t] = "none"
    BY <1>6 DEF Start, TypeOK
  <2> QED BY <1>6, <2>1, HoldersKept DEF Start
<1>7. ASSUME NEW s \in Sessions, UnboundReady(s) PROVE Holders'
  <2>1. \A t \in Sessions : creator'[t] = "none" <=> creator[t] = "none"
    BY <1>7 DEF UnboundReady, Unbound, TypeOK
  <2> QED BY <1>7, <2>1, HoldersKept DEF UnboundReady
<1>8. ASSUME NEW s \in Sessions, CdnReady(s) PROVE Holders'
  BY <1>8, HoldersDone DEF CdnReady, Unbound, Idle
<1>9. ASSUME NEW s \in Sessions, BindAccepted(s) PROVE Holders'
  BY <1>9, HoldersDone DEF BindAccepted, Idle
<1>10. ASSUME NEW s \in Sessions, BindTooLate(s) PROVE Holders'
  <2>1. \A i \in KeyTypes : temporary[i] = 0 => temporary'[i] = 0
    BY <1>10 DEF BindTooLate, DestroyTemporaryKey, Without
  <2>2. creator'[s] = "none" /\ \A t \in Sessions \ {s} : creator'[t] = creator[t]
    BY <1>10 DEF BindTooLate, TypeOK
  <2>3. mine' = [mine EXCEPT ![s] = "None"]
    BY <1>10 DEF BindTooLate
  <2> QED BY <1>10, <2>1, <2>2, <2>3, HoldersReleased DEF BindTooLate
<1>11. ASSUME NEW s \in Sessions, BindRefused(s) PROVE Holders'
  <2>1. CASE ReleaseOnFail(s) /\ DestroyTemporaryKey(s)
    <3>1. \A i \in KeyTypes : temporary[i] = 0 => temporary'[i] = 0
      BY <2>1 DEF DestroyTemporaryKey, Without
    <3> QED BY <1>11, <2>1, <3>1, HoldersFail DEF BindRefused, Idle
  <2>2. CASE ~(ReleaseOnFail(s) /\ DestroyTemporaryKey(s))
    <3>1. \A t \in Sessions : creator'[t] = "none" <=> creator[t] = "none"
      BY <1>11, <2>2 DEF BindRefused, TypeOK
    <3> QED BY <1>11, <2>2, <3>1, HoldersKept DEF BindRefused
  <2> QED BY <2>1, <2>2
<1>12. ASSUME NEW s \in Sessions, KeyStillUnknown(s) PROVE Holders'
  <2>1. \A i \in KeyTypes : temporary[i] = 0 => temporary'[i] = 0
    BY <1>12 DEF KeyStillUnknown, Refused, DestroyTemporaryKey, Without
  <2> QED BY <1>12, <2>1, HoldersFail DEF KeyStillUnknown, Refused, Idle
<1>13. ASSUME NEW s \in Sessions, UnboundFailed(s) PROVE Holders'
  BY <1>13, HoldersFail DEF UnboundFailed, Unbound, Idle
<1>14. ASSUME NEW s \in Sessions, KeyUnknown(s) PROVE Holders'
  <2>1. \A i \in KeyTypes : temporary[i] = 0 => temporary'[i] = 0
    BY <1>14 DEF KeyUnknown, Refused, DestroyTemporaryKey, Without
  <2> QED BY <1>14, <2>1, HoldersFail DEF KeyUnknown, Refused, Idle
<1>15. ASSUME NEW s \in Sessions, ConnectionLost(s) PROVE Holders'
  <2>1. \A t \in Sessions : creator'[t] = "none" <=> creator[t] = "none"
    BY <1>15 DEF ConnectionLost, Stopped, TypeOK
  <2> QED BY <1>15, <2>1, HoldersKept DEF ConnectionLost
<1>16. ASSUME NEW s \in Sessions, Kill(s) PROVE Holders'
  <2>1. \A t \in Sessions : Running(t)' => Running(t)
    BY <1>16 DEF Kill, TypeOK
  <2> QED BY <1>16, <2>1, HoldersKept DEF Kill
<1>17. ASSUME NEW s \in Sessions, ServerBinds(s) PROVE Holders'
  <2>1. \A t \in Sessions : creator'[t] = "none" <=> creator[t] = "none"
    BY <1>17 DEF ServerBinds, TypeOK
  <2> QED BY <1>17, <2>1, HoldersKept DEF ServerBinds
<1>18. ASSUME NEW s \in Sessions, DestroySession(s) PROVE Holders'
  <2>1. ~Running(s)' /\ \A t \in Sessions \ {s} : alive'[t] = alive[t]
    BY <1>18 DEF DestroySession, TypeOK
  <2>2. \A i \in KeyTypes : mine[s] = "None" \/ i # IndexOf(mine[s]) => (creating[i] => creating'[i])
    BY <1>18 DEF DestroySession, Failed
  <2> QED BY <1>18, <2>1, <2>2, HoldersReleased DEF DestroySession
<1>19. CASE KeyChanged
  BY <1>19, HoldersKept DEF KeyChanged
<1>20. ASSUME NEW k \in Keys, KeyDestroyed(k) PROVE Holders'
  <2>1. \A i \in KeyTypes : temporary[i] = 0 => temporary'[i] = 0
    BY <1>20 DEF KeyDestroyed
  <2> QED BY <1>20, <2>1, HoldersKept DEF KeyDestroyed
<1>21. CASE ServerForgets
  BY <1>21, HoldersKept DEF ServerForgets
<1>22. CASE UNCHANGED vars
  BY <1>22, HoldersKept DEF vars
<1>23. ASSUME NEW s \in Sessions, RestartNow(s) PROVE Holders'
  <2>1. \A t \in Sessions : creator'[t] = "none" <=> creator[t] = "none"
    BY <1>23 DEF RestartNow, Stopped, TypeOK
  <2> QED BY <1>23, <2>1, HoldersKept DEF RestartNow
<1> QED BY <1>1, <1>2, <1>3, <1>4, <1>5, <1>6, <1>7, <1>8, <1>9, <1>10, <1>11, <1>12, <1>13,
           <1>14, <1>15, <1>16, <1>17, <1>18, <1>19, <1>20, <1>21, <1>22, <1>23
        DEF Next, Works, Main

\* A step leaves each session where it can be with its creator.
LEMMA PlacesStep ==
  ASSUME TypeOK, Places, Fresh, [Next]_vars
  PROVE  Places'
<1> USE DEF TypeOK, Places, Running, Idle, dcVars, mainVars, connVars, keyVars, creatorVars,
            serverVars
<1>1. ASSUME NEW s \in Sessions, ConnectToServer(s) PROVE Places'
  BY <1>1 DEF ConnectToServer, TryAcquire
<1>2. ASSUME NEW s \in Sessions, Connected(s) PROVE Places'
  <2>1. CASE keyId[s] # 0
    BY <1>2, <2>1 DEF Connected
  <2>2. CASE keyId[s] = 0
    <3>1. creator[s] \notin {"creating", "binding", "bound", "refused"}
      BY <1>2, <2>2 DEF Connected, Fresh, Binding
    <3> QED BY <1>2, <2>2, <3>1 DEF Connected, ApplyAuthKey, Disconnected
  <2> QED BY <2>1, <2>2
<1>3. ASSUME NEW s \in Sessions, UpdateAuthKey(s) PROVE Places'
  BY <1>3 DEF UpdateAuthKey, ApplyAuthKey, Disconnected
<1>4. ASSUME NEW s \in Sessions, NoKey(s) PROVE Places'
  BY <1>4 DEF NoKey
<1>5. ASSUME NEW s \in Sessions, Acquire(s) PROVE Places'
  BY <1>5 DEF Acquire, TryAcquire, Disconnected
<1>6. ASSUME NEW s \in Sessions, Start(s) PROVE Places'
  BY <1>6 DEF Start
<1>7. ASSUME NEW s \in Sessions, UnboundReady(s) PROVE Places'
  BY <1>7 DEF UnboundReady, Unbound
<1>8. ASSUME NEW s \in Sessions, CdnReady(s) PROVE Places'
  BY <1>8 DEF CdnReady, Unbound, ReleaseOnDone
<1>9. ASSUME NEW s \in Sessions, BindAccepted(s) PROVE Places'
  BY <1>9 DEF BindAccepted, ReleaseOnDone
<1>10. ASSUME NEW s \in Sessions, BindTooLate(s) PROVE Places'
  BY <1>10 DEF BindTooLate, DestroyTemporaryKey, Disconnected
<1>11. ASSUME NEW s \in Sessions, BindRefused(s) PROVE Places'
  BY <1>11 DEF BindRefused, ReleaseOnFail, DestroyTemporaryKey, Disconnected
<1>12. ASSUME NEW s \in Sessions, KeyStillUnknown(s) PROVE Places'
  BY <1>12 DEF KeyStillUnknown, Refused, ReleaseOnFail, DestroyTemporaryKey, Disconnected
<1>13. ASSUME NEW s \in Sessions, UnboundFailed(s) PROVE Places'
  BY <1>13 DEF UnboundFailed, Unbound, ReleaseOnFail, Disconnected
<1>14. ASSUME NEW s \in Sessions, KeyUnknown(s) PROVE Places'
  BY <1>14 DEF KeyUnknown, Refused, ReleaseOnFail, DestroyTemporaryKey, Disconnected
<1>15. ASSUME NEW s \in Sessions, ConnectionLost(s) PROVE Places'
  BY <1>15 DEF ConnectionLost, Stopped, Disconnected
<1>16. ASSUME NEW s \in Sessions, Kill(s) PROVE Places'
  BY <1>16 DEF Kill
<1>17. ASSUME NEW s \in Sessions, ServerBinds(s) PROVE Places'
  BY <1>17 DEF ServerBinds
<1>18. ASSUME NEW s \in Sessions, DestroySession(s) PROVE Places'
  BY <1>18 DEF DestroySession
<1>19. CASE KeyChanged
  BY <1>19 DEF KeyChanged
<1>20. ASSUME NEW k \in Keys, KeyDestroyed(k) PROVE Places'
  BY <1>20 DEF KeyDestroyed
<1>21. CASE ServerForgets
  BY <1>21 DEF ServerForgets
<1>22. CASE UNCHANGED vars
  BY <1>22 DEF vars
<1>23. ASSUME NEW s \in Sessions, RestartNow(s) PROVE Places'
  BY <1>23 DEF RestartNow, Stopped, Disconnected
<1> QED BY <1>1, <1>2, <1>3, <1>4, <1>5, <1>6, <1>7, <1>8, <1>9, <1>10, <1>11, <1>12, <1>13,
           <1>14, <1>15, <1>16, <1>17, <1>18, <1>19, <1>20, <1>21, <1>22, <1>23
        DEF Next, Works, Main

-----------------------------------------------------------------------------
(* What the keys are bound to *)

\* Most steps: they store and bind no key, and a session that goes on binding
\* goes on with the same keys.
Tame ==
  /\ UNCHANGED <<persistent, boundTo, lastKey>>
  /\ \A i \in KeyTypes : temporary'[i] \in {0, temporary[i]}
  /\ \A s \in Sessions : Binding(s)' =>
       /\ Binding(s)
       /\ creator'[s] = "bound" => creator[s] = "bound"
       /\ keyId'[s] = keyId[s] /\ encryption'[s] = encryption[s] /\ bindKey'[s] = bindKey[s]

\* The part of the invariant that is about the keys and not about the rights.
KeysInv == Fresh /\ Answered /\ NoKeyWithout /\ BoundToPersistent

\* Keys are numbers.
LEMMA KeyNumbers ==
  ASSUME TypeOK
  PROVE  /\ lastKey \in Nat /\ 0 <= lastKey
         /\ \A i \in KeyTypes : temporary[i] \in Nat
         /\ \A s \in Sessions : encryption[s] \in Nat
<1>1. \A k \in Keys : k \in Nat
  BY BoundsAssumption DEF Keys
<1> QED BY <1>1 DEF TypeOK

\* A tame step keeps what is known of the keys.
LEMMA TameKeeps ==
  ASSUME TypeOK, KeysInv, Tame
  PROVE  KeysInv'
<1>1. Fresh'
  <2>1. \A i \in KeyTypes : temporary'[i] <= lastKey'
    BY KeyNumbers DEF KeysInv, Fresh, Tame
  <2>2. \A s \in Sessions : Binding(s)' =>
          /\ keyId'[s] = encryption'[s] /\ encryption'[s] # 0 /\ encryption'[s] <= lastKey'
          /\ bindKey'[s] # 0
          /\ \A i \in KeyTypes : temporary'[i] # encryption'[s]
    BY DEF KeysInv, Fresh, Tame
  <2>3. \A s, u \in Sessions :
          Binding(s)' /\ Binding(u)' /\ encryption'[s] = encryption'[u] => s = u
    BY DEF KeysInv, Fresh, Tame
  <2> QED BY <2>1, <2>2, <2>3 DEF Fresh
<1>2. Answered'
  <2>1. \A k \in Keys : k > lastKey' => boundTo'[k] = 0
    BY DEF KeysInv, Answered, Tame
  <2>2. ASSUME NEW s \in Sessions, Running(s)', creator'[s] = "bound"
        PROVE  boundTo'[encryption'[s]] = bindKey'[s]
    <3>1. Binding(s)'
      BY <2>2 DEF Binding, Running
    <3>2. /\ Running(s) /\ creator[s] = "bound"
          /\ encryption'[s] = encryption[s] /\ bindKey'[s] = bindKey[s]
      BY <2>2, <3>1 DEF Tame, Binding
    <3> QED BY <3>2 DEF KeysInv, Answered, Tame
  <2> QED BY <2>1, <2>2 DEF Answered, Running
<1>3. NoKeyWithout' /\ BoundToPersistent'
  BY DEF KeysInv, NoKeyWithout, BoundToPersistent, Tame
<1> QED BY <1>1, <1>2, <1>3 DEF KeysInv

\* The steps that are tame.
LEMMA TameSteps ==
  ASSUME TypeOK, Fresh, Places, [Next]_vars
  PROVE  \/ Tame
         \/ \E s \in Sessions : \/ UnboundReady(s) \/ CdnReady(s) \/ BindAccepted(s)
                                \/ ServerBinds(s)
         \/ \E k \in Keys : KeyDestroyed(k)
<1> USE DEF TypeOK, Tame, Binding, Running, Idle, dcVars, mainVars, connVars, keyVars,
            creatorVars, serverVars
<1>1. ASSUME NEW s \in Sessions, ConnectToServer(s) PROVE Tame
  BY <1>1 DEF ConnectToServer, TryAcquire
<1>2. ASSUME NEW s \in Sessions, Connected(s) PROVE Tame
  <2>1. CASE keyId[s] # 0
    BY <1>2, <2>1 DEF Connected
  <2>2. CASE keyId[s] = 0
    <3>1. creator[s] \notin {"binding", "bound", "refused"}
      BY <1>2, <2>2 DEF Connected, Fresh
    <3> QED BY <1>2, <2>2, <3>1 DEF Connected, ApplyAuthKey
  <2> QED BY <2>1, <2>2
<1>3. ASSUME NEW s \in Sessions, UpdateAuthKey(s) PROVE Tame
  BY <1>3 DEF UpdateAuthKey, ApplyAuthKey
<1>4. ASSUME NEW s \in Sessions, NoKey(s) PROVE Tame
  BY <1>4 DEF NoKey
<1>5. ASSUME NEW s \in Sessions, Acquire(s) PROVE Tame
  BY <1>5 DEF Acquire, TryAcquire
<1>6. ASSUME NEW s \in Sessions, Start(s) PROVE Tame
  BY <1>6 DEF Start, Places
<1>7. ASSUME NEW s \in Sessions, BindTooLate(s) PROVE Tame
  BY <1>7 DEF BindTooLate, DestroyTemporaryKey, Without
<1>8. ASSUME NEW s \in Sessions, BindRefused(s) PROVE Tame
  BY <1>8 DEF BindRefused, ReleaseOnFail, DestroyTemporaryKey, Without
<1>9. ASSUME NEW s \in Sessions, KeyStillUnknown(s) PROVE Tame
  BY <1>9 DEF KeyStillUnknown, Refused, ReleaseOnFail, DestroyTemporaryKey, Without
<1>10. ASSUME NEW s \in Sessions, UnboundFailed(s) PROVE Tame
  BY <1>10 DEF UnboundFailed, ReleaseOnFail
<1>11. ASSUME NEW s \in Sessions, KeyUnknown(s) PROVE Tame
  BY <1>11 DEF KeyUnknown, Refused, ReleaseOnFail, DestroyTemporaryKey, Without
<1>12. ASSUME NEW s \in Sessions, ConnectionLost(s) PROVE Tame
  BY <1>12 DEF ConnectionLost, Stopped
<1>13. ASSUME NEW s \in Sessions, Kill(s) PROVE Tame
  BY <1>13 DEF Kill
<1>14. ASSUME NEW s \in Sessions, DestroySession(s) PROVE Tame
  BY <1>14 DEF DestroySession
<1>15. CASE KeyChanged
  BY <1>15 DEF KeyChanged
<1>16. CASE ServerForgets
  BY <1>16 DEF ServerForgets
<1>17. CASE UNCHANGED vars
  BY <1>17 DEF vars
<1>18. ASSUME NEW s \in Sessions, RestartNow(s) PROVE Tame
  BY <1>18 DEF RestartNow, Stopped
<1> QED BY <1>1, <1>2, <1>3, <1>4, <1>5, <1>6, <1>7, <1>8, <1>9, <1>10, <1>11, <1>12, <1>13,
           <1>14, <1>15, <1>16, <1>17, <1>18 DEF Next, Works, Main

\* The new key is one nobody has, so it is neither stored nor being bound.
LEMMA KeysReady ==
  ASSUME TypeOK, KeysInv, NEW s \in Sessions, UnboundReady(s)
  PROVE  KeysInv'
<1> USE DEF UnboundReady, Unbound, Idle, Running, dcVars, mainVars, connVars
<1>1. /\ lastKey' > lastKey /\ lastKey + 1 <= lastKey' /\ lastKey + 1 # 0
      /\ lastKey \in Nat /\ lastKey' \in Nat
  <2>1. LastOf(s) \in Keys /\ lastKey' = LastOf(s)
    OBVIOUS
  <2> QED BY <2>1, NewKeyNumbers
<1>2. /\ keyId'[s] = lastKey + 1 /\ encryption'[s] = lastKey + 1
      /\ creator'[s] = "binding" /\ bindKey'[s] # 0
  BY DEF TypeOK
<1>3. \A t \in Sessions \ {s} : /\ Binding(t)' <=> Binding(t)
                                /\ creator'[t] = creator[t] /\ bindKey'[t] = bindKey[t]
                                /\ keyId'[t] = keyId[t] /\ encryption'[t] = encryption[t]
  BY DEF TypeOK, Binding
<1>4. temporary' = temporary /\ persistent' = persistent /\ boundTo' = boundTo /\ alive' = alive
  BY DEF TypeOK
<1>5. /\ \A i \in KeyTypes : temporary[i] <= lastKey /\ temporary[i] \in Nat
      /\ \A t \in Sessions : encryption[t] \in Nat
      /\ \A t \in Sessions : Binding(t) => encryption[t] <= lastKey
  BY KeyNumbers DEF KeysInv, Fresh
<1>6. Fresh'
  <2>1. \A i \in KeyTypes : temporary'[i] <= lastKey'
    BY <1>1, <1>4, <1>5
  <2>2. \A t \in Sessions : Binding(t)' =>
          /\ keyId'[t] = encryption'[t] /\ encryption'[t] # 0 /\ encryption'[t] <= lastKey'
          /\ bindKey'[t] # 0
          /\ \A i \in KeyTypes : temporary'[i] # encryption'[t]
    BY <1>1, <1>2, <1>3, <1>4, <1>5 DEF KeysInv, Fresh
  <2>3. \A t, u \in Sessions :
          Binding(t)' /\ Binding(u)' /\ encryption'[t] = encryption'[u] => t = u
    BY <1>1, <1>2, <1>3, <1>5 DEF KeysInv, Fresh
  <2> QED BY <2>1, <2>2, <2>3 DEF Fresh
<1>7. Answered'
  <2>1. \A k \in Keys : k > lastKey' => boundTo'[k] = 0
    BY <1>1, <1>4, BoundsAssumption DEF KeysInv, Answered, Keys
  <2>2. \A t \in Sessions :
          Running(t)' /\ creator'[t] = "bound" => boundTo'[encryption'[t]] = bindKey'[t]
    BY <1>2, <1>3, <1>4 DEF KeysInv, Answered
  <2> QED BY <2>1, <2>2 DEF Answered
<1>8. NoKeyWithout' /\ BoundToPersistent'
  BY <1>4 DEF KeysInv, NoKeyWithout, BoundToPersistent
<1> QED BY <1>6, <1>7, <1>8 DEF KeysInv

\* The server binds a key that is not stored and that no other session binds.
LEMMA KeysBound ==
  ASSUME TypeOK, KeysInv, NEW s \in Sessions, ServerBinds(s)
  PROVE  KeysInv'
<1> USE DEF ServerBinds, Running, dcVars, mainVars, connVars, keyVars
<1>1. creator' = [creator EXCEPT ![s] = IF bindKey[s] \in forgotten THEN "refused" ELSE "bound"]
  BY DEF TypeOK
<1>2. \A t \in Sessions : Binding(t)' <=> Binding(t)
  BY <1>1 DEF TypeOK, Binding
<1>3. Binding(s)
  BY DEF Binding
<1>4. Fresh'
  BY <1>2 DEF KeysInv, Fresh
<1>5. CASE bindKey[s] \in forgotten
  <2>1. Answered'
    BY <1>1, <1>5 DEF KeysInv, Answered, TypeOK
  <2>2. NoKeyWithout' /\ BoundToPersistent'
    BY <1>5 DEF KeysInv, NoKeyWithout, BoundToPersistent
  <2> QED BY <1>4, <2>1, <2>2 DEF KeysInv
<1>6. CASE bindKey[s] \notin forgotten
  <2>1. /\ boundTo'[encryption[s]] = bindKey[s]
        /\ \A k \in Keys : k # encryption[s] => boundTo'[k] = boundTo[k]
    BY <1>6 DEF TypeOK
  <2>2. Answered'
    <3>1. \A k \in Keys : k > lastKey' => boundTo'[k] = 0
      <4>1. encryption[s] <= lastKey /\ encryption[s] \in Nat /\ lastKey \in Nat
        BY <1>3, KeyNumbers DEF KeysInv, Fresh
      <4>2. \A k \in Keys : k > lastKey => k # encryption[s]
        BY <4>1, BoundsAssumption DEF Keys
      <4> QED BY <2>1, <4>2 DEF KeysInv, Answered
    <3>2. ASSUME NEW t \in Sessions, Running(t)', creator'[t] = "bound"
          PROVE  boundTo'[encryption'[t]] = bindKey'[t]
      <4>1. CASE t = s
        BY <2>1, <4>1
      <4>2. CASE t # s
        <5>1. creator[t] = "bound" /\ Binding(t)
          BY <1>1, <3>2, <4>2 DEF TypeOK, Binding
        <5>2. encryption[t] # encryption[s] /\ encryption[t] \in Keys
          BY <1>3, <4>2, <5>1 DEF KeysInv, Fresh, TypeOK
        <5> QED BY <2>1, <3>2, <5>1, <5>2 DEF KeysInv, Answered
      <4> QED BY <4>1, <4>2
    <3> QED BY <3>1, <3>2 DEF Answered
  <2>3. NoKeyWithout'
    BY DEF KeysInv, NoKeyWithout
  <2>4. BoundToPersistent'
    <3>1. \A i \in KeyTypes : temporary[i] # encryption[s] /\ temporary[i] \in Keys
      BY <1>3 DEF KeysInv, Fresh, TypeOK
    <3> QED BY <2>1, <3>1 DEF KeysInv, BoundToPersistent
  <2> QED BY <1>4, <2>2, <2>3, <2>4 DEF KeysInv
<1> QED BY <1>5, <1>6

\* The data center takes a key that is bound to what its persistent key is from
\* now on; the keys it has already are bound to the same, or there are none.
LEMMA KeysAccepted ==
  ASSUME TypeOK, KeysInv, FirstKey, NEW s \in Sessions, BindAccepted(s)
  PROVE  KeysInv'
<1> DEFINE key == encryption[s]
           index == IndexOf(mine[s])
<1> USE DEF BindAccepted, Idle, Running, dcVars, mainVars, connVars, keyVars, serverVars
<1>1. /\ Binding(s) /\ key # 0 /\ key <= lastKey /\ bindKey[s] # 0
      /\ boundTo[key] = bindKey[s] /\ \A i \in KeyTypes : temporary[i] # key
  BY DEF KeysInv, Fresh, Answered, Binding
<1>2. persistent' = bindKey[s] /\ (mine[s] = "Persistent" \/ persistent' = persistent)
  BY DEF Accepts, ReleaseOnDone
<1>3. index \in KeyTypes /\ temporary' = [temporary EXCEPT ![index] = key]
  BY DEF ReleaseOnDone, IndexOf, KeyTypes
<1>4. temporary'[index] = key /\ \A i \in KeyTypes \ {index} : temporary'[i] = temporary[i]
  BY <1>3 DEF TypeOK
<1>5. /\ creator'[s] = "none" /\ alive' = alive /\ boundTo' = boundTo /\ lastKey' = lastKey
      /\ \A t \in Sessions \ {s} : creator'[t] = creator[t]
      /\ encryption' = encryption /\ keyId' = keyId /\ bindKey' = bindKey
  BY DEF ReleaseOnDone, TypeOK
<1>6. \A t \in Sessions : Binding(t)' => t # s /\ Binding(t)
  BY <1>5 DEF Binding
<1> HIDE DEF key, index
<1>7. Fresh'
  <2>1. \A i \in KeyTypes : temporary'[i] <= lastKey'
    BY <1>1, <1>4, <1>5 DEF KeysInv, Fresh
  <2>2. ASSUME NEW t \in Sessions, Binding(t)'
        PROVE  /\ keyId'[t] = encryption'[t] /\ encryption'[t] # 0 /\ encryption'[t] <= lastKey'
               /\ bindKey'[t] # 0
               /\ \A i \in KeyTypes : temporary'[i] # encryption'[t]
    <3>1. t # s /\ Binding(t)
      BY <1>6, <2>2
    <3>2. encryption[t] # key
      BY <1>1, <3>1 DEF KeysInv, Fresh, key
    <3> QED BY <1>4, <1>5, <3>1, <3>2 DEF KeysInv, Fresh
  <2>3. \A t, u \in Sessions :
          Binding(t)' /\ Binding(u)' /\ encryption'[t] = encryption'[u] => t = u
    BY <1>5, <1>6 DEF KeysInv, Fresh
  <2> QED BY <2>1, <2>2, <2>3 DEF Fresh
<1>8. Answered'
  BY <1>5 DEF KeysInv, Answered
<1>9. NoKeyWithout'
  BY <1>1, <1>2 DEF NoKeyWithout
<1>10. ASSUME NEW i \in KeyTypes, temporary'[i] # 0 PROVE boundTo'[temporary'[i]] = persistent'
  <2>1. CASE i = index
    BY <1>1, <1>2, <1>4, <1>5, <2>1
  <2>2. CASE i # index /\ mine[s] = "Persistent"
    BY <1>4, <1>10, <2>2 DEF KeysInv, NoKeyWithout, FirstKey
  <2>3. CASE i # index /\ persistent' = persistent
    BY <1>4, <1>5, <1>10, <2>3 DEF KeysInv, BoundToPersistent
  <2> QED BY <1>2, <2>1, <2>2, <2>3
<1> QED BY <1>7, <1>8, <1>9, <1>10 DEF KeysInv, BoundToPersistent

\* In a CDN there is no persistent key and a new key is bound to none.
LEMMA KeysCdn ==
  ASSUME TypeOK, KeysInv, FirstKey, NEW s \in Sessions, CdnReady(s)
  PROVE  KeysInv'
<1> DEFINE index == IndexOf(mine[s])
<1> USE DEF CdnReady, Unbound, Idle, Running, connVars
<1>1. RealType[s] = "Cdn" /\ mine[s] # "Persistent" /\ persistent = 0 /\ persistent' = 0
  BY DEF FirstKey, Accepts, ReleaseOnDone
<1>2. /\ lastKey' = lastKey + 1 /\ lastKey + 1 \in Keys /\ lastKey \in Nat
      /\ boundTo[lastKey + 1] = 0
  BY <1>1, KeyNumbers DEF LastOf, KeysInv, Answered
<1>3. /\ index \in KeyTypes /\ temporary'[index] = lastKey + 1
      /\ \A i \in KeyTypes \ {index} : temporary'[i] = temporary[i]
  <2>1. index \in KeyTypes /\ temporary' = [temporary EXCEPT ![index] = lastKey + 1]
    BY DEF ReleaseOnDone, IndexOf, KeyTypes
  <2> QED BY <2>1 DEF TypeOK
<1>4. /\ creator'[s] = "none" /\ alive' = alive /\ boundTo' = boundTo /\ bindKey' = bindKey
      /\ \A t \in Sessions \ {s} : creator'[t] = creator[t] /\ encryption'[t] = encryption[t]
                                   /\ keyId'[t] = keyId[t]
  BY DEF ReleaseOnDone, TypeOK
<1>5. \A t \in Sessions : Binding(t)' => t # s /\ Binding(t)
  BY <1>4 DEF Binding
<1> HIDE DEF index
<1>6. /\ \A i \in KeyTypes : temporary[i] <= lastKey /\ temporary[i] \in Nat
      /\ \A t \in Sessions : encryption[t] \in Nat
  BY KeyNumbers DEF KeysInv, Fresh
<1>7. Fresh'
  <2>1. \A i \in KeyTypes : temporary'[i] <= lastKey'
    BY <1>2, <1>3, <1>6
  <2>2. ASSUME NEW t \in Sessions, Binding(t)'
        PROVE  /\ keyId'[t] = encryption'[t] /\ encryption'[t] # 0 /\ encryption'[t] <= lastKey'
               /\ bindKey'[t] # 0
               /\ \A i \in KeyTypes : temporary'[i] # encryption'[t]
    <3>1. t # s /\ Binding(t)
      BY <1>5, <2>2
    <3>2. encryption[t] <= lastKey /\ encryption[t] # lastKey + 1 /\ encryption[t] <= lastKey + 1
      BY <1>2, <1>6, <3>1 DEF KeysInv, Fresh
    <3> QED BY <1>2, <1>3, <1>4, <3>1, <3>2 DEF KeysInv, Fresh
  <2>3. \A t, u \in Sessions :
          Binding(t)' /\ Binding(u)' /\ encryption'[t] = encryption'[u] => t = u
    BY <1>4, <1>5 DEF KeysInv, Fresh
  <2> QED BY <2>1, <2>2, <2>3 DEF Fresh
<1>8. Answered'
  <2>1. \A k \in Keys : k > lastKey' => boundTo'[k] = 0
    BY <1>2, <1>4, BoundsAssumption DEF KeysInv, Answered, Keys
  <2>2. \A t \in Sessions :
          Running(t)' /\ creator'[t] = "bound" => boundTo'[encryption'[t]] = bindKey'[t]
    BY <1>4 DEF KeysInv, Answered
  <2> QED BY <2>1, <2>2 DEF Answered
<1>9. NoKeyWithout'
  BY <1>1, TypesAssumption DEF NoKeyWithout
<1>10. BoundToPersistent'
  BY <1>1, <1>2, <1>3, <1>4 DEF KeysInv, BoundToPersistent
<1> QED BY <1>7, <1>8, <1>9, <1>10 DEF KeysInv

\* With the persistent key all temporary keys go.
LEMMA KeysDestroyed ==
  ASSUME TypeOK, KeysInv, NEW k \in Keys, KeyDestroyed(k)
  PROVE  KeysInv'
<1> USE DEF KeyDestroyed, Running, Binding, connVars, keyVars, creatorVars, serverVars
<1>1. \A t \in Sessions : Binding(t)' <=> Binding(t)
  OBVIOUS
<1>2. Answered'
  BY DEF KeysInv, Answered
<1>3. CASE persistent # k
  <2>1. Fresh'
    BY <1>3 DEF KeysInv, Fresh
  <2> QED BY <1>2, <1>3, <2>1 DEF KeysInv, NoKeyWithout, BoundToPersistent
<1>4. CASE persistent = k
  <2>1. \A i \in KeyTypes : temporary'[i] = 0
    BY <1>4
  <2>2. Fresh'
    BY <2>1, KeyNumbers DEF KeysInv, Fresh
  <2> QED BY <1>2, <2>1, <2>2 DEF KeysInv, NoKeyWithout, BoundToPersistent
<1> QED BY <1>3, <1>4

\* A step keeps what is known of the keys.
LEMMA KeysStep ==
  ASSUME TypeOK, KeysInv, FirstKey, Places, [Next]_vars
  PROVE  KeysInv'
<1>1. Fresh
  BY DEF KeysInv
<1>2. CASE Tame
  BY <1>2, TameKeeps
<1>3. ASSUME NEW s \in Sessions,
             UnboundReady(s) \/ CdnReady(s) \/ BindAccepted(s) \/ ServerBinds(s)
      PROVE  KeysInv'
  BY <1>3, KeysReady, KeysCdn, KeysAccepted, KeysBound
<1>4. ASSUME NEW k \in Keys, KeyDestroyed(k) PROVE KeysInv'
  BY <1>4, KeysDestroyed
<1> QED BY <1>1, <1>2, <1>3, <1>4, TameSteps

-----------------------------------------------------------------------------
(* The first key *)

\* A step that creates no right to a persistent key and no persistent key.
LEMMA FirstKept ==
  ASSUME TypeOK, FirstKey, persistent' \in {0, persistent},
         \A t \in Sessions : mine'[t] = "Persistent" => mine[t] = "Persistent"
  PROVE  FirstKey'
  BY DEF FirstKey

\* acquireKeyCreation gives a right to a persistent key only where there is none.
LEMMA FirstAcquired ==
  ASSUME TypeOK, FirstKey, NEW s \in Sessions, TryAcquire(s), persistent' = persistent
  PROVE  FirstKey'
<1>1. \A t \in Sessions \ {s} : mine'[t] = mine[t]
  BY DEF TryAcquire, TypeOK
<1>2. mine'[s] = "Persistent" => persistent = 0 /\ RealType[s] # "Cdn"
  <2>1. CASE creator[s] = "none"
    <3>1. mine'[s] = Acquired(RealType[s])
      BY <2>1 DEF TryAcquire, TypeOK
    <3> QED BY <3>1, AcquiredFacts, TypesAssumption
  <2>2. CASE creator[s] # "none"
    <3>1. mine'[s] = mine[s]
      BY <2>2 DEF TryAcquire, TypeOK
    <3> QED BY <3>1 DEF FirstKey
  <2> QED BY <2>1, <2>2
<1> QED BY <1>1, <1>2 DEF FirstKey

\* A step keeps the persistent key the first one.
LEMMA FirstStep ==
  ASSUME TypeOK, Holders, FirstKey, [Next]_vars
  PROVE  FirstKey'
<1> USE DEF dcVars, mainVars, connVars, keyVars, creatorVars, serverVars
<1>1. ASSUME NEW s \in Sessions, ConnectToServer(s) PROVE FirstKey'
  BY <1>1, FirstAcquired DEF ConnectToServer
<1>2. ASSUME NEW s \in Sessions, Connected(s) PROVE FirstKey'
  BY <1>2, FirstKept DEF Connected
<1>3. ASSUME NEW s \in Sessions, UpdateAuthKey(s) PROVE FirstKey'
  BY <1>3, FirstKept DEF UpdateAuthKey
<1>4. ASSUME NEW s \in Sessions, NoKey(s) PROVE FirstKey'
  BY <1>4, FirstKept DEF NoKey
<1>5. ASSUME NEW s \in Sessions, Acquire(s) PROVE FirstKey'
  BY <1>5, FirstAcquired DEF Acquire
<1>6. ASSUME NEW s \in Sessions, Start(s) PROVE FirstKey'
  BY <1>6, FirstKept DEF Start
<1>7. ASSUME NEW s \in Sessions, UnboundReady(s) PROVE FirstKey'
  BY <1>7, FirstKept DEF UnboundReady
<1>8. ASSUME NEW s \in Sessions, CdnReady(s) PROVE FirstKey'
  <2>1. persistent' = persistent
    BY <1>8 DEF CdnReady, ReleaseOnDone, FirstKey
  <2>2. \A t \in Sessions : mine'[t] = "Persistent" => mine[t] = "Persistent"
    BY <1>8 DEF CdnReady, ReleaseOnDone, TypeOK
  <2> QED BY <2>1, <2>2, FirstKept
<1>9. ASSUME NEW s \in Sessions, BindAccepted(s) PROVE FirstKey'
  <2>1. mine'[s] = "None" /\ \A t \in Sessions \ {s} : mine'[t] = mine[t]
    BY <1>9 DEF BindAccepted, ReleaseOnDone, TypeOK
  <2>2. CASE mine[s] = "Persistent"
    <3>1. \A t \in Sessions : mine'[t] # "Persistent"
      BY <2>1, <2>2 DEF Holders, OneCreator, IndexOf
    <3> QED BY <3>1 DEF FirstKey
  <2>3. CASE mine[s] # "Persistent"
    <3>1. persistent' = persistent
      BY <1>9, <2>3 DEF BindAccepted, ReleaseOnDone
    <3> QED BY <2>1, <3>1, FirstKept
  <2> QED BY <2>2, <2>3
<1>10. ASSUME NEW s \in Sessions, BindTooLate(s) PROVE FirstKey'
  <2>1. \A t \in Sessions : mine'[t] = "Persistent" => mine[t] = "Persistent"
    BY <1>10 DEF BindTooLate, TypeOK
  <2> QED BY <1>10, <2>1, FirstKept DEF BindTooLate
<1>11. ASSUME NEW s \in Sessions, BindRefused(s) PROVE FirstKey'
  <2>1. \A t \in Sessions : mine'[t] = "Persistent" => mine[t] = "Persistent"
    BY <1>11 DEF BindRefused, ReleaseOnFail, TypeOK
  <2> QED BY <1>11, <2>1, FirstKept DEF BindRefused
<1>12. ASSUME NEW s \in Sessions, KeyStillUnknown(s) PROVE FirstKey'
  <2>1. \A t \in Sessions : mine'[t] = "Persistent" => mine[t] = "Persistent"
    BY <1>12 DEF KeyStillUnknown, Refused, ReleaseOnFail, TypeOK
  <2> QED BY <1>12, <2>1, FirstKept DEF KeyStillUnknown, Refused
<1>13. ASSUME NEW s \in Sessions, UnboundFailed(s) PROVE FirstKey'
  <2>1. \A t \in Sessions : mine'[t] = "Persistent" => mine[t] = "Persistent"
    BY <1>13 DEF UnboundFailed, ReleaseOnFail, TypeOK
  <2> QED BY <1>13, <2>1, FirstKept DEF UnboundFailed
<1>14. ASSUME NEW s \in Sessions, KeyUnknown(s) PROVE FirstKey'
  <2>1. \A t \in Sessions : mine'[t] = "Persistent" => mine[t] = "Persistent"
    BY <1>14 DEF KeyUnknown, Refused, ReleaseOnFail, TypeOK
  <2> QED BY <1>14, <2>1, FirstKept DEF KeyUnknown, Refused
<1>15. ASSUME NEW s \in Sessions, ConnectionLost(s) PROVE FirstKey'
  BY <1>15, FirstKept DEF ConnectionLost
<1>16. ASSUME NEW s \in Sessions, Kill(s) PROVE FirstKey'
  BY <1>16, FirstKept DEF Kill
<1>17. ASSUME NEW s \in Sessions, ServerBinds(s) PROVE FirstKey'
  BY <1>17, FirstKept DEF ServerBinds
<1>18. ASSUME NEW s \in Sessions, DestroySession(s) PROVE FirstKey'
  <2>1. \A t \in Sessions : mine'[t] = "Persistent" => mine[t] = "Persistent"
    BY <1>18 DEF DestroySession, TypeOK
  <2> QED BY <1>18, <2>1, FirstKept DEF DestroySession
<1>19. CASE KeyChanged
  BY <1>19, FirstKept DEF KeyChanged
<1>20. ASSUME NEW k \in Keys, KeyDestroyed(k) PROVE FirstKey'
  BY <1>20, FirstKept DEF KeyDestroyed
<1>21. CASE ServerForgets
  BY <1>21, FirstKept DEF ServerForgets
<1>22. CASE UNCHANGED vars
  BY <1>22, FirstKept DEF vars
<1>23. ASSUME NEW s \in Sessions, RestartNow(s) PROVE FirstKey'
  BY <1>23, FirstKept DEF RestartNow
<1> QED BY <1>1, <1>2, <1>3, <1>4, <1>5, <1>6, <1>7, <1>8, <1>9, <1>10, <1>11, <1>12, <1>13,
           <1>14, <1>15, <1>16, <1>17, <1>18, <1>19, <1>20, <1>21, <1>22, <1>23
        DEF Next, Works, Main

-----------------------------------------------------------------------------
(* The theorems *)

\* Before anybody connects there are no keys and no rights.
LEMMA InitInvariant == Init => IInv
<1> SUFFICES ASSUME Init PROVE IInv
  OBVIOUS
<1> USE DEF Init, KeyTypes
<1>1. TypeOK
  BY TypesAssumption, BoundsAssumption DEF TypeOK, Keys, Kinds
<1>2. Holders
  BY DEF Holders, OneCreator, RightWithCreator
<1>3. Places /\ Answered /\ FirstKey /\ NoKeyWithout /\ BoundToPersistent
  BY DEF Places, Answered, FirstKey, NoKeyWithout, BoundToPersistent
<1>4. Fresh
  BY DEF Fresh, Binding
<1> QED BY <1>1, <1>2, <1>3, <1>4 DEF IInv

\* The invariant from which the others follow.
THEOREM KeyInvariant == Spec => []IInv
<1>1. IInv /\ [Next]_vars => IInv'
  <2> SUFFICES ASSUME IInv, [Next]_vars PROVE IInv'
    OBVIOUS
  <2>1. TypeOK /\ Holders /\ Places /\ Fresh /\ FirstKey /\ KeysInv
    BY DEF IInv, KeysInv
  <2>2. TypeOK' /\ Holders' /\ Places' /\ FirstKey' /\ KeysInv'
    BY <2>1, TypeStep, HoldersStep, PlacesStep, FirstStep, KeysStep
  <2> QED BY <2>2 DEF IInv, KeysInv
<1> QED BY <1>1, InitInvariant, PTL DEF Spec

\* Dcenter and the sessions stay within their types, whatever interleaves: every
\* key that is stored, used or bound is in the range of the keys that exist.
THEOREM KeyTypesCorrect == Spec => []TypeOK
<1>1. IInv => TypeOK
  BY DEF IInv
<1> QED BY <1>1, KeyInvariant, PTL

\* For any number of sessions of any kind, however they connect, fail, are killed
\* and are told of keys: never two of them create the same key, and the right to
\* create one is held only while it is missing.
THEOREM OneCreatorAtATime == Spec => []OneCreator
<1>1. IInv => OneCreator
  BY DEF IInv, Holders
<1> QED BY <1>1, KeyInvariant, PTL

\* Every session that runs holds a right exactly while it has a creator.
THEOREM RightsMatchCreators == Spec => []RightWithCreator
<1>1. IInv => RightWithCreator
  BY DEF IInv, Holders
<1> QED BY <1>1, KeyInvariant, PTL

\* Every temporary key a data center hands out is bound to the persistent key it
\* has at that moment, although the binding and the loss of a persistent key are
\* handled by different threads.
THEOREM KeysStayBound == Spec => []BoundToPersistent
<1>1. IInv => BoundToPersistent
  BY DEF IInv
<1> QED BY <1>1, KeyInvariant, PTL
=============================================================================
