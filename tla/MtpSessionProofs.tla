-------------------------- MODULE MtpSessionProofs --------------------------
(***************************************************************************)
(* What holds of a request between the two threads for every set of        *)
(* requests, every number of message ids and of faults, every size of the  *)
(* buffer of ids, and a clock that may be set back.  The inductive         *)
(* invariant IInv comes first: types, what the threads hold, and that an   *)
(* id has one owner unless one was given while it was in use.  The other   *)
(* results add to it: Cancelling and KeepsAll for the request that is      *)
(* never lost, Marked for the ids of a session, Lonely and PacketIds for   *)
(* the request that is sent alone.                                         *)
(***************************************************************************)
EXTENDS MtpSession, FiniteSetTheorems, SequenceTheorems, TLAPS

\* Whatever a thread holds belongs to a request that was given to sendRequest.
Known ==
  /\ \A m \in Ids : /\ haveSent[m] \in started \union {None}
                    /\ resendingIds[m] \in started \union {None}
                    /\ ackedIds[m] \in started \union {None}
  /\ \A p \in hand : p[2] \in started
  /\ \A i \in DOMAIN haveReceived : haveReceived[i].request \in started
  /\ mainReq \in started \union {None} /\ (main # "idle" => mainReq # None)

\* What the session thread holds in the middle of what it does.
Hands ==
  /\ thread = "idle" => hand = {}
  /\ thread \in {"sending", "sendingFirst"} =>
       toResend = {} /\ lastMsgId < MaxMsgId /\ \E p \in hand : hand = {p}
  /\ thread = "resending" => \A p \in hand : p[1] \in Ids

IInv == TypeOK /\ Known /\ Hands /\ IdHasOneOwner

-----------------------------------------------------------------------------
(* The ids prepareToSend gives *)

\* What a send gives to prepareToSend.
Sends(chunk, force, ids, others) ==
  /\ chunk \subseteq started /\ chunk \subseteq Requests /\ force \in BOOLEAN
  /\ ids \in [chunk -> Ids] /\ others \subseteq Ids
  /\ Prepare(chunk, force, ids, others)

\* An id is the old one or a new one, which is ahead of those before it.
LEMMA PreparedFacts ==
  ASSUME NEW chunk, NEW force, NEW ids, NEW others, Sends(chunk, force, ids, others)
  PROVE  \A r \in chunk :
           \/ ids[r] = msgIdOf[r]
           \/ /\ \A q \in chunk : q < r => ids[r] > ids[q]
              /\ msgIdOf[r] # 0 => ids[r] \notin Taken(chunk, r)
<1>1. ASSUME NEW r \in chunk, ids[r] # msgIdOf[r]
      PROVE  /\ ids[r] \in Ahead(Before(chunk, r), ids)
             /\ msgIdOf[r] # 0 => ids[r] \notin Taken(chunk, r)
  BY <1>1 DEF Sends, Prepare, Prepared, Least
<1>2. ASSUME NEW r \in chunk, ids[r] \in Ahead(Before(chunk, r), ids)
      PROVE  \A q \in chunk : q < r => ids[r] > ids[q]
  BY <1>2 DEF Ahead, Before
<1> QED
  BY <1>1, <1>2

Held(r, m) == haveSent[m] = r \/ resendingIds[m] = r \/ ackedIds[m] = r \/ msgIdOf[r] = m

LEMMA HeldIsOwned ==
  ASSUME OneOwner, NEW r \in Requests, NEW m \in Ids, Held(r, m)
  PROVE  /\ InUse(m) /\ Owns(r, m)
         /\ \A q \in Requests : Held(q, m) => q = r
  BY DEF Held, Owns, OneOwner, InUse

\* If no id collides, what is new is not in use.
LEMMA NewIsUnused ==
  ASSUME NEW chunk, NEW force, NEW ids, NEW others, Sends(chunk, force, ids, others),
         ~collided'
  PROVE  /\ ~collided
         /\ \A r \in chunk : ids[r] = msgIdOf[r] \/ ~InUse(ids[r])
         /\ \A m \in others : ~InUse(m)
<1>1. ~collided /\ ~Collides(chunk, ids, others)
  BY DEF Sends, Prepare
<1>2. ASSUME NEW r \in chunk, ids[r] # msgIdOf[r] PROVE ~InUse(ids[r])
  <2>1. msgIdOf[r] = 0 \/ ids[r] \notin Taken(chunk, r)
    BY <1>2, PreparedFacts
  <2> QED
    BY <1>1, <1>2, <2>1 DEF Collides
<1> QED
  BY <1>1, <1>2 DEF Collides

\* Two requests of a chunk never get the same id then.
LEMMA IdInjective ==
  ASSUME OneOwner, NEW chunk, NEW force, NEW ids, NEW others,
         Sends(chunk, force, ids, others), ~collided',
         NEW r \in chunk, NEW q \in chunk, ids[r] = ids[q]
  PROVE  r = q
<1>1. chunk \subseteq Requests /\ \A x \in chunk : x \in Nat /\ ids[x] \in Ids /\ ids[x] \in Nat
  BY RequestsAssumption DEF Sends, Ids
<1>2. ASSUME NEW x \in chunk, NEW y \in chunk, ids[x] = ids[y], x < y PROVE FALSE
  <2>1. ids[y] = msgIdOf[y]
    BY <1>1, <1>2, PreparedFacts
  <2>2. Held(y, ids[y]) /\ InUse(ids[y])
    BY <1>1, <2>1, HeldIsOwned DEF Held
  <2>3. ids[x] = msgIdOf[x]
    BY <1>2, <2>2, NewIsUnused
  <2>4. Held(x, ids[y])
    BY <1>2, <2>3 DEF Held
  <2>5. x = y
    BY <1>1, <2>2, <2>4, HeldIsOwned
  <2> QED
    BY <1>1, <1>2, <2>5
<1> QED
  BY <1>1, <1>2

\* What is moved with an id stays what it was.
LEMMA MovedTypes ==
  ASSUME TypeOK, NEW chunk, NEW force, NEW ids, NEW others,
         Sends(chunk, force, ids, others), NEW map \in IdMap
  PROVE  /\ Moved(map, chunk, ids) \in IdMap
         /\ \A m \in Ids : \/ Moved(map, chunk, ids)[m] \in {map[m], None}
                           \/ \E r \in Replaced(chunk, ids) :
                                ids[r] = m /\ Moved(map, chunk, ids)[m] = map[msgIdOf[r]]
<1> DEFINE P == Replaced(chunk, ids)
           New == Moved(map, chunk, ids)
<1>1. \A r \in P : r \in Requests /\ ids[r] \in Ids /\ msgIdOf[r] \in Ids
  BY DEF Sends, Replaced, TypeOK, Ids
<1>2. ASSUME NEW m \in Ids
      PROVE  New[m] \in {map[m], None} \/ \E r \in P : ids[r] = m /\ New[m] = map[msgIdOf[r]]
  <2>1. CASE \E r \in P : ids[r] = m /\ map[msgIdOf[r]] # None
    <3>1. PICK r \in P : r = CHOOSE x \in P : ids[x] = m /\ map[msgIdOf[x]] # None
      BY <2>1
    <3>2. New[m] = map[msgIdOf[r]] /\ ids[r] = m
      BY <2>1, <3>1 DEF Moved
    <3> QED
      BY <3>2
  <2>2. CASE ~\E r \in P : ids[r] = m /\ map[msgIdOf[r]] # None
    BY <2>2 DEF Moved
  <2> QED
    BY <2>1, <2>2
<1>3. New = [m \in Ids |-> New[m]]
  BY DEF Moved
<1> HIDE DEF P, New
<1>4. \A m \in Ids : New[m] \in Requests \union {None}
  BY <1>1, <1>2 DEF IdMap
<1> QED
  BY <1>2, <1>3, <1>4 DEF P, New, IdMap

LEMMA MovedFacts ==
  ASSUME TypeOK, OneOwner, NEW chunk, NEW force, NEW ids, NEW others,
         Sends(chunk, force, ids, others), ~collided',
         NEW map \in IdMap, \A m \in Ids : \A r \in Requests : map[m] = r => Held(r, m)
  PROVE  /\ \A m \in Ids : \A r \in Requests : Moved(map, chunk, ids)[m] = r =>
              map[m] = r \/ (r \in Replaced(chunk, ids) /\ ids[r] = m)
         /\ \A m \in Ids : map[m] # None => \E n \in Ids : Moved(map, chunk, ids)[n] = map[m]
         /\ \A m \in Ids : (\A r \in Replaced(chunk, ids) : msgIdOf[r] # m) /\ InUse(m) =>
              Moved(map, chunk, ids)[m] = map[m]
<1> DEFINE P == Replaced(chunk, ids)
           New == Moved(map, chunk, ids)
<1>1. \A r \in P : /\ r \in chunk /\ r \in Requests /\ ids[r] \in Ids /\ ~InUse(ids[r])
                   /\ msgIdOf[r] \in Ids /\ Held(r, msgIdOf[r])
  <2>1. ASSUME NEW r \in P
        PROVE  /\ r \in chunk /\ r \in Requests /\ ids[r] \in Ids /\ msgIdOf[r] \in Ids
               /\ ids[r] # msgIdOf[r]
    BY DEF Sends, Replaced, TypeOK, Ids
  <2>2. \A r \in chunk : ids[r] = msgIdOf[r] \/ ~InUse(ids[r])
    BY NewIsUnused
  <2> QED
    BY <2>1, <2>2 DEF Held
<1>2. \A r, q \in P : ids[r] = ids[q] => r = q
  BY IdInjective DEF Replaced
<1>3. ASSUME NEW r \in P, map[msgIdOf[r]] # None PROVE New[ids[r]] = map[msgIdOf[r]]
  <2>1. (CHOOSE q \in P : ids[q] = ids[r] /\ map[msgIdOf[q]] # None) = r
    BY <1>2, <1>3
  <2> QED
    BY <1>1, <1>3, <2>1 DEF Moved
<1>4. ASSUME NEW m \in Ids, \A r \in P : ids[r] # m
      PROVE  New[m] = IF \E r \in P : msgIdOf[r] = m THEN None ELSE map[m]
  BY <1>4 DEF Moved
<1>5. \A m \in Ids : New[m] \in {map[m], None} \/ \E r \in P : ids[r] = m /\ New[m] = map[msgIdOf[r]]
  BY MovedTypes
<1> HIDE DEF P, New
<1>6. ASSUME NEW m \in Ids, NEW r \in Requests, New[m] = r
      PROVE  map[m] = r \/ (r \in P /\ ids[r] = m)
  <2>1. ASSUME NEW q \in P, ids[q] = m, New[m] = map[msgIdOf[q]] PROVE r = q
    <3>1. Held(r, msgIdOf[q]) /\ Held(q, msgIdOf[q]) /\ msgIdOf[q] \in Ids /\ q \in Requests
      BY <1>1, <1>6, <2>1
    <3> QED
      BY <3>1, HeldIsOwned
  <2> QED
    BY <1>5, <1>6, <2>1, RequestsAssumption
<1>7. ASSUME NEW m \in Ids, map[m] # None PROVE \E n \in Ids : New[n] = map[m]
  <2>1. map[m] \in Requests /\ Held(map[m], m)
    BY <1>7 DEF IdMap
  <2>2. CASE \E q \in P : msgIdOf[q] = m
    BY <1>1, <1>3, <1>7, <2>2
  <2>3. CASE \A q \in P : msgIdOf[q] # m
    <3>1. InUse(m)
      BY <2>1, HeldIsOwned
    <3>2. \A q \in P : ids[q] # m
      BY <1>1, <3>1
    <3> QED
      BY <1>4, <2>3, <3>2
  <2> QED
    BY <2>2, <2>3
<1>8. ASSUME NEW m \in Ids, \A r \in P : msgIdOf[r] # m, InUse(m) PROVE New[m] = map[m]
  <2>1. \A q \in P : ids[q] # m
    BY <1>1, <1>8
  <2> QED
    BY <1>4, <1>8, <2>1
<1> QED
  BY <1>6, <1>7, <1>8 DEF P, New

LEMMA EmplacedTypes ==
  ASSUME NEW chunk, NEW force, NEW ids, NEW others,
         Sends(chunk, force, ids, others), NEW map \in IdMap
  PROVE  /\ Emplaced(map, chunk, ids) \in IdMap
         /\ \A m \in Ids : \/ Emplaced(map, chunk, ids)[m] = map[m]
                           \/ \E r \in chunk : ids[r] = m /\ Emplaced(map, chunk, ids)[m] = r
         /\ \A m \in Ids : map[m] # None \/ m \notin ChunkIds(chunk, ids) =>
              Emplaced(map, chunk, ids)[m] = map[m]
<1> DEFINE New == Emplaced(map, chunk, ids)
<1>1. ASSUME NEW m \in Ids, m \in ChunkIds(chunk, ids), map[m] = None
      PROVE  \E r \in chunk : ids[r] = m /\ New[m] = r
  <2>1. \E r \in chunk : ids[r] = m
    BY <1>1 DEF ChunkIds
  <2>2. PICK r \in chunk : r = CHOOSE x \in chunk : ids[x] = m
    BY <2>1
  <2>3. ids[r] = m /\ New[m] = r
    BY <1>1, <2>1, <2>2 DEF Emplaced
  <2> QED
    BY <2>3
<1>2. \A m \in Ids : map[m] # None \/ m \notin ChunkIds(chunk, ids) => New[m] = map[m]
  BY DEF Emplaced
<1>3. New = [m \in Ids |-> New[m]]
  BY DEF Emplaced
<1>4. chunk \subseteq Requests
  BY DEF Sends
<1> HIDE DEF New
<1>5. \A m \in Ids : New[m] = map[m] \/ \E r \in chunk : ids[r] = m /\ New[m] = r
  BY <1>1, <1>2
<1>6. \A m \in Ids : New[m] \in Requests \union {None}
  BY <1>4, <1>5 DEF IdMap
<1> QED
  BY <1>2, <1>3, <1>5, <1>6 DEF New, IdMap

LEMMA EmplacedFacts ==
  ASSUME TypeOK, OneOwner, NEW chunk, NEW force, NEW ids, NEW others,
         Sends(chunk, force, ids, others), ~collided', NEW map \in IdMap,
         \A m \in Ids : \A r \in Requests :
           map[m] = r => Held(r, m) \/ (r \in chunk /\ ids[r] = m)
  PROVE  \A r \in chunk : Emplaced(map, chunk, ids)[ids[r]] = r
<1> DEFINE New == Emplaced(map, chunk, ids)
<1>1. \A r \in chunk : r \in Requests /\ ids[r] \in Ids /\ ids[r] \in ChunkIds(chunk, ids)
  BY DEF Sends, ChunkIds
<1>2. \A r, q \in chunk : ids[r] = ids[q] => r = q
  BY IdInjective
<1>3. \A m \in Ids : /\ New[m] = map[m] \/ \E r \in chunk : ids[r] = m /\ New[m] = r
                     /\ map[m] # None => New[m] = map[m]
  BY EmplacedTypes
<1>4. ASSUME NEW r \in chunk, map[ids[r]] # None PROVE map[ids[r]] = r
  <2>1. PICK q \in Requests : q = map[ids[r]]
    BY <1>1, <1>4 DEF IdMap
  <2>2. CASE q \in chunk /\ ids[q] = ids[r]
    BY <1>2, <2>1, <2>2
  <2>3. CASE Held(q, ids[r])
    <3>1. InUse(ids[r])
      BY <1>1, <2>3, HeldIsOwned
    <3>2. ids[r] = msgIdOf[r]
      BY <3>1, NewIsUnused
    <3>3. Held(r, ids[r])
      BY <3>2 DEF Held
    <3> QED
      BY <1>1, <2>1, <2>3, <3>3, HeldIsOwned
  <2> QED
    BY <1>1, <2>1, <2>2, <2>3
<1>5. ASSUME NEW r \in chunk, map[ids[r]] = None PROVE New[ids[r]] = r
  <2>1. (CHOOSE q \in chunk : ids[q] = ids[r]) = r
    BY <1>2
  <2> QED
    BY <1>1, <1>5, <2>1 DEF Emplaced
<1> HIDE DEF New
<1>6. \A r \in chunk : New[ids[r]] = r
  BY <1>1, <1>3, <1>4, <1>5
<1> QED
  BY <1>6 DEF New

\* The types of what a send changes, even if an id collides.
LEMMA PrepareTypes ==
  ASSUME TypeOK, Known, NEW chunk, NEW force, NEW ids, NEW others,
         Sends(chunk, force, ids, others)
  PROVE  /\ msgIdOf' \in [Requests -> 0..MaxMsgId]
         /\ haveSent' \in IdMap /\ resendingIds' \in IdMap /\ ackedIds' \in IdMap
         /\ \A m \in Ids : /\ haveSent'[m] \in started \union {None}
                           /\ resendingIds'[m] \in {resendingIds[m], None}
                           /\ resendingIds'[m] \in started \union {None}
                           /\ ackedIds'[m] \in started \union {None}
         /\ collided' \in BOOLEAN /\ given' \subseteq Ids
         /\ ChunkIds(chunk, ids) \subseteq Ids
<1> DEFINE Sent == Moved(haveSent, chunk, ids)
<1>0. /\ msgIdOf' = [r \in Requests |-> IF r \in chunk THEN ids[r] ELSE msgIdOf[r]]
      /\ resendingIds' = [m \in Ids |-> IF \E r \in chunk : msgIdOf[r] = m
                                          THEN None ELSE resendingIds[m]]
      /\ ackedIds' = Moved(ackedIds, chunk, ids)
      /\ haveSent' = Emplaced(Sent, chunk, ids)
      /\ collided' = (collided \/ Collides(chunk, ids, others))
      /\ given' = given \union FromClock(chunk, force, ids) \union others
      /\ chunk \subseteq started /\ chunk \subseteq Requests /\ ids \in [chunk -> Ids]
      /\ others \subseteq Ids
  BY DEF Sends, Prepare
<1>1. /\ haveSent \in IdMap /\ resendingIds \in IdMap /\ ackedIds \in IdMap
      /\ \A m \in Ids : /\ haveSent[m] \in started \union {None}
                        /\ resendingIds[m] \in started \union {None}
                        /\ ackedIds[m] \in started \union {None}
      /\ \A r \in Replaced(chunk, ids) : msgIdOf[r] \in Ids
  BY <1>0 DEF TypeOK, Known, Replaced, Ids
<1>2. msgIdOf' \in [Requests -> 0..MaxMsgId]
  BY <1>0 DEF TypeOK, Ids
<1>3. /\ ackedIds' \in IdMap
      /\ \A m \in Ids : \/ ackedIds'[m] \in {ackedIds[m], None}
                        \/ \E r \in Replaced(chunk, ids) : ackedIds'[m] = ackedIds[msgIdOf[r]]
  BY <1>0, <1>1, MovedTypes
<1>4. /\ Sent \in IdMap
      /\ \A m \in Ids : \/ Sent[m] \in {haveSent[m], None}
                        \/ \E r \in Replaced(chunk, ids) : Sent[m] = haveSent[msgIdOf[r]]
  BY <1>1, MovedTypes
<1> HIDE DEF Sent
<1>5. /\ haveSent' \in IdMap
      /\ \A m \in Ids : haveSent'[m] = Sent[m] \/ \E r \in chunk : haveSent'[m] = r
  BY <1>0, <1>4, EmplacedTypes
<1>6. resendingIds' \in IdMap /\ \A m \in Ids : resendingIds'[m] \in {resendingIds[m], None}
  BY <1>0, <1>1 DEF IdMap
<1>7. collided' \in BOOLEAN
  BY <1>0 DEF TypeOK
<1>8. ChunkIds(chunk, ids) \subseteq Ids /\ FromClock(chunk, force, ids) \subseteq Ids
  BY <1>0 DEF ChunkIds, FromClock
<1>9. given' \subseteq Ids
  BY <1>0, <1>8 DEF TypeOK
<1>10. \A m \in Ids : ackedIds'[m] \in started \union {None}
  BY <1>1, <1>3
<1>11. \A m \in Ids : Sent[m] \in started \union {None}
  BY <1>1, <1>4
<1>12. \A m \in Ids : haveSent'[m] \in started \union {None}
  BY <1>0, <1>5, <1>11
<1>13. \A m \in Ids : resendingIds'[m] \in started \union {None}
  BY <1>1, <1>6
<1> QED
  BY <1>2, <1>3, <1>5, <1>6, <1>7, <1>8, <1>9, <1>10, <1>12, <1>13

LEMMA PrepareFacts ==
  ASSUME TypeOK, OneOwner, NEW chunk, NEW force, NEW ids, NEW others,
         Sends(chunk, force, ids, others), ~collided'
  PROVE  /\ \A m \in Ids : \A r \in Requests :
              haveSent'[m] = r \/ resendingIds'[m] = r \/ ackedIds'[m] = r \/ msgIdOf'[r] = m =>
                Held(r, m) \/ (r \in chunk /\ ids[r] = m)
         /\ \A m \in Ids : \A r \in Requests :
              /\ haveSent'[m] = r => haveSent[m] = r \/ (r \in chunk /\ ids[r] = m)
              /\ resendingIds'[m] = r => resendingIds[m] = r
              /\ ackedIds'[m] = r => ackedIds[m] = r \/ r \in Replaced(chunk, ids)
         /\ \A m \in Ids : haveSent[m] # None => \E n \in Ids : haveSent'[n] = haveSent[m]
         /\ \A r \in chunk : haveSent'[ids[r]] = r
<1> DEFINE P == Replaced(chunk, ids)
           Sent == Moved(haveSent, chunk, ids)
<1>0. /\ msgIdOf' = [r \in Requests |-> IF r \in chunk THEN ids[r] ELSE msgIdOf[r]]
      /\ resendingIds' = [m \in Ids |-> IF \E r \in chunk : msgIdOf[r] = m
                                          THEN None ELSE resendingIds[m]]
      /\ ackedIds' = Moved(ackedIds, chunk, ids)
      /\ haveSent' = Emplaced(Sent, chunk, ids)
  BY DEF Sends, Prepare
<1>1. /\ haveSent \in IdMap /\ resendingIds \in IdMap /\ ackedIds \in IdMap
      /\ \A m \in Ids : \A r \in Requests :
           (haveSent[m] = r => Held(r, m)) /\ (resendingIds[m] = r => Held(r, m))
           /\ (ackedIds[m] = r => Held(r, m)) /\ (msgIdOf[r] = m => Held(r, m))
  BY DEF TypeOK, Held
<1>2. \A r \in P : r \in chunk
  BY DEF Replaced
<1>3. \A m \in Ids : \A r \in Requests :
        ackedIds'[m] = r => ackedIds[m] = r \/ (r \in P /\ ids[r] = m)
  BY <1>0, <1>1, MovedFacts
<1>4. /\ \A m \in Ids : \A r \in Requests : Sent[m] = r => haveSent[m] = r \/ (r \in P /\ ids[r] = m)
      /\ \A m \in Ids : haveSent[m] # None => \E n \in Ids : Sent[n] = haveSent[m]
  BY <1>1, MovedFacts
<1>5. Sent \in IdMap
  BY <1>1, MovedTypes
<1> HIDE DEF Sent, P
<1>6. \A m \in Ids : \A r \in Requests : Sent[m] = r => Held(r, m) \/ (r \in chunk /\ ids[r] = m)
  BY <1>1, <1>2, <1>4
<1>7. /\ \A m \in Ids : haveSent'[m] = Sent[m] \/ \E r \in chunk : ids[r] = m /\ haveSent'[m] = r
      /\ \A m \in Ids : Sent[m] # None => haveSent'[m] = Sent[m]
  BY <1>0, <1>5, EmplacedTypes
<1>8. \A r \in chunk : haveSent'[ids[r]] = r
  BY <1>0, <1>5, <1>6, EmplacedFacts
<1>9. \A m \in Ids : resendingIds'[m] \in {resendingIds[m], None}
  BY <1>0, <1>1 DEF IdMap
<1>10. ASSUME NEW m \in Ids, NEW r \in Requests
       PROVE  /\ haveSent'[m] = r => haveSent[m] = r \/ (r \in chunk /\ ids[r] = m)
              /\ resendingIds'[m] = r => resendingIds[m] = r
              /\ ackedIds'[m] = r => ackedIds[m] = r \/ (r \in P /\ ids[r] = m)
  BY <1>2, <1>3, <1>4, <1>7, <1>9, RequestsAssumption
<1>11. ASSUME NEW m \in Ids, NEW r \in Requests,
              haveSent'[m] = r \/ resendingIds'[m] = r \/ ackedIds'[m] = r \/ msgIdOf'[r] = m
       PROVE  Held(r, m) \/ (r \in chunk /\ ids[r] = m)
  BY <1>0, <1>1, <1>2, <1>10, <1>11
<1>12. \A m \in Ids : haveSent[m] # None => \E n \in Ids : haveSent'[n] = haveSent[m]
  BY <1>4, <1>7
<1> QED
  BY <1>8, <1>10, <1>11, <1>12 DEF P

-----------------------------------------------------------------------------
(* The steps of the main thread *)

USE DEF mainVars, sharedVars, sessionVars, serverVars, loopVars, stateVars, idVars, checkVars,
        historyVars, idHistory

\* A step that gives no id to a request.
OwnersKept == /\ \A m \in Ids, r \in Requests : Owns(r, m)' => Owns(r, m)
              /\ collided => collided'

LEMMA OwnersKeptFacts ==
  ASSUME IInv, OwnersKept
  PROVE  IdHasOneOwner'
<1>1. CASE collided
  BY <1>1 DEF OwnersKept, IdHasOneOwner
<1>2. CASE OneOwner
  BY <1>2 DEF IdHasOneOwner, OneOwner, OwnersKept
<1> QED
  BY <1>1, <1>2 DEF IInv, IdHasOneOwner

\* What the session thread and the server keep in a step of the main thread.
LEMMA MainFrame ==
  ASSUME IInv, UNCHANGED <<sessionVars, serverVars>>
  PROVE  Hands'
  BY DEF IInv, Hands

LEMMA SendRequestStep ==
  ASSUME IInv, NEW r \in Requests, SendRequest(r)
  PROVE  IInv' /\ OwnersKept
<1>1. TypeOK'
  BY DEF IInv, TypeOK, SendRequest
<1>2. Known'
  BY RequestsAssumption DEF IInv, Known, SendRequest
<1>3. OwnersKept
  BY DEF OwnersKept, Owns, SendRequest
<1>4. Hands'
  BY MainFrame DEF SendRequest
<1> QED
  BY <1>1, <1>2, <1>3, <1>4, OwnersKeptFacts DEF IInv

\* The request the main thread gives to the session is one of those started.
LEMMA SendPreparedFacts ==
  ASSUME TypeOK, NEW r \in started, SendPrepared(r)
  PROVE  /\ toSend' \subseteq started /\ msgIdOf' \in [Requests -> 0..MaxMsgId]
         /\ abandoned' \subseteq Requests
         /\ \A q \in Requests, m \in Ids : msgIdOf'[q] = m => msgIdOf[q] = m
<1>1. 0 \in 0..MaxMsgId /\ 0 \notin Ids
  BY BoundsAssumption DEF Ids
<1> QED
  BY <1>1 DEF TypeOK, SendPrepared

LEMMA GiveToSessionStep ==
  ASSUME IInv, GiveToSession
  PROVE  IInv' /\ OwnersKept
<1>1. mainReq \in started
  BY DEF IInv, Known, GiveToSession
<1>2. /\ toSend' \subseteq started /\ msgIdOf' \in [Requests -> 0..MaxMsgId]
      /\ abandoned' \subseteq Requests
      /\ \A q \in Requests, m \in Ids : msgIdOf'[q] = m => msgIdOf[q] = m
  BY <1>1, SendPreparedFacts DEF IInv, GiveToSession
<1>3. TypeOK'
  BY <1>2 DEF IInv, TypeOK, GiveToSession
<1>4. Known'
  BY DEF IInv, Known, GiveToSession
<1>5. OwnersKept
  BY <1>2 DEF OwnersKept, Owns, GiveToSession
<1>6. Hands'
  BY MainFrame DEF GiveToSession
<1> QED
  BY <1>3, <1>4, <1>5, <1>6, OwnersKeptFacts DEF IInv

LEMMA CancelRequestStep ==
  ASSUME IInv, NEW r \in Requests, CancelRequest(r)
  PROVE  IInv' /\ OwnersKept
<1>1. TypeOK'
  BY DEF IInv, TypeOK, CancelRequest
<1>2. Known'
  BY RequestsAssumption DEF IInv, TypeOK, Known, CancelRequest
<1>3. OwnersKept
  BY DEF OwnersKept, Owns, CancelRequest
<1>4. Hands'
  BY MainFrame DEF CancelRequest
<1> QED
  BY <1>1, <1>2, <1>3, <1>4, OwnersKeptFacts DEF IInv

LEMMA CancelToSendStep ==
  ASSUME IInv, CancelToSend
  PROVE  IInv' /\ OwnersKept
<1>1. TypeOK'
  BY DEF IInv, TypeOK, CancelToSend
<1>2. Known'
  BY DEF IInv, Known, CancelToSend
<1>3. OwnersKept
  BY DEF OwnersKept, Owns, CancelToSend
<1>4. Hands'
  BY MainFrame DEF CancelToSend
<1> QED
  BY <1>1, <1>2, <1>3, <1>4, OwnersKeptFacts DEF IInv

LEMMA CancelHaveSentStep ==
  ASSUME IInv, CancelHaveSent
  PROVE  IInv' /\ OwnersKept
<1>1. \A m \in Ids : haveSent'[m] \in {haveSent[m], None}
  BY DEF CancelHaveSent
<1>2. haveSent' \in IdMap
  BY DEF IInv, TypeOK, IdMap, CancelHaveSent
<1>3. TypeOK'
  BY <1>2, BoundsAssumption DEF IInv, TypeOK, CancelHaveSent
<1>4. Known'
  BY <1>1 DEF IInv, Known, CancelHaveSent
<1>5. OwnersKept
  BY <1>1, RequestsAssumption DEF OwnersKept, Owns, CancelHaveSent
<1>6. Hands'
  BY MainFrame DEF CancelHaveSent
<1> QED
  BY <1>3, <1>4, <1>5, <1>6, OwnersKeptFacts DEF IInv

\* Taking the first answer of a queue.
LEMMA TailFacts ==
  ASSUME NEW S, NEW s \in Seq(S), s # <<>>
  PROVE  /\ Tail(s) \in Seq(S) /\ Head(s) = s[1] /\ Head(s) \in S
         /\ 1 \in DOMAIN s
         /\ \A i \in DOMAIN Tail(s) : i + 1 \in DOMAIN s /\ Tail(s)[i] = s[i + 1]
  BY HeadTailProperties, EmptySeq

\* The answer the main thread takes, and those that stay.
LEMMA TakenFacts ==
  ASSUME IInv, ProcessCallback
  PROVE  /\ haveReceived' \in Seq([request : Requests, answer : Answers])
         /\ 1 \in DOMAIN haveReceived /\ Head(haveReceived) = haveReceived[1]
         /\ Head(haveReceived).answer \in Answers /\ Head(haveReceived).request \in started
         /\ \A i \in DOMAIN haveReceived' : /\ i + 1 \in DOMAIN haveReceived
                                            /\ haveReceived'[i] = haveReceived[i + 1]
<1> DEFINE S == [request : Requests, answer : Answers]
<1>1. haveReceived \in Seq(S) /\ haveReceived # <<>> /\ haveReceived' = Tail(haveReceived)
  BY DEF IInv, TypeOK, ProcessCallback
<1> HIDE DEF S
<1>2. /\ haveReceived' \in Seq(S) /\ 1 \in DOMAIN haveReceived
      /\ Head(haveReceived) = haveReceived[1] /\ Head(haveReceived) \in S
      /\ \A i \in DOMAIN haveReceived' : /\ i + 1 \in DOMAIN haveReceived
                                         /\ haveReceived'[i] = haveReceived[i + 1]
  BY <1>1, TailFacts
<1>3. Head(haveReceived).answer \in Answers /\ Head(haveReceived).request \in started
  BY <1>2 DEF IInv, Known, S
<1> QED
  BY <1>2, <1>3 DEF S

LEMMA ProcessCallbackStep ==
  ASSUME IInv, ProcessCallback
  PROVE  IInv' /\ OwnersKept
<1>1. /\ haveReceived' \in Seq([request : Requests, answer : Answers])
      /\ 1 \in DOMAIN haveReceived
      /\ \A i \in DOMAIN haveReceived' : /\ i + 1 \in DOMAIN haveReceived
                                         /\ haveReceived'[i] = haveReceived[i + 1]
  BY TakenFacts
<1>2. Head(haveReceived).answer \in Answers /\ Head(haveReceived).request \in started
  BY TakenFacts
<1>3. TypeOK'
  BY <1>1, <1>2 DEF IInv, TypeOK, ProcessCallback
<1>4. Known'
  BY <1>1, <1>2, RequestsAssumption DEF IInv, TypeOK, Known, ProcessCallback, Answers
<1>5. OwnersKept
  BY <1>2 DEF OwnersKept, Owns, ProcessCallback, Answers
<1>6. Hands'
  BY MainFrame DEF ProcessCallback
<1> QED
  BY <1>3, <1>4, <1>5, <1>6, OwnersKeptFacts DEF IInv

LEMMA HandleFinalStep ==
  ASSUME IInv, HandleFinal
  PROVE  IInv' /\ OwnersKept
<1>1. TypeOK'
  BY DEF IInv, TypeOK, HandleFinal
<1>2. Known'
  BY DEF IInv, Known, HandleFinal
<1>3. OwnersKept
  BY DEF OwnersKept, Owns, HandleFinal
<1>4. Hands'
  BY MainFrame DEF HandleFinal
<1> QED
  BY <1>1, <1>2, <1>3, <1>4, OwnersKeptFacts DEF IInv

LEMMA HandleLaterStep ==
  ASSUME IInv, HandleLater
  PROVE  IInv' /\ OwnersKept
<1>1. TypeOK'
  BY DEF IInv, TypeOK, Known, HandleLater
<1>2. Known'
  BY DEF IInv, Known, HandleLater
<1>3. OwnersKept
  BY DEF OwnersKept, Owns, HandleLater
<1>4. Hands'
  BY MainFrame DEF HandleLater
<1> QED
  BY <1>1, <1>2, <1>3, <1>4, OwnersKeptFacts DEF IInv

LEMMA HandleNowStep ==
  ASSUME IInv, HandleNow
  PROVE  IInv' /\ OwnersKept
<1>1. mainReq \in started
  BY DEF IInv, Known, HandleNow
<1>2. /\ toSend' \subseteq started /\ msgIdOf' \in [Requests -> 0..MaxMsgId]
      /\ abandoned' \subseteq Requests
      /\ \A q \in Requests, m \in Ids : msgIdOf'[q] = m => msgIdOf[q] = m
  BY <1>1, SendPreparedFacts DEF IInv, HandleNow
<1>3. TypeOK'
  BY <1>2 DEF IInv, TypeOK, HandleNow
<1>4. Known'
  BY DEF IInv, Known, HandleNow
<1>5. OwnersKept
  BY <1>2 DEF OwnersKept, Owns, HandleNow
<1>6. Hands'
  BY MainFrame DEF HandleNow
<1> QED
  BY <1>3, <1>4, <1>5, <1>6, OwnersKeptFacts DEF IInv

LEMMA RestoreHandlerStep ==
  ASSUME IInv, RestoreHandler
  PROVE  IInv' /\ OwnersKept
<1>1. TypeOK'
  BY DEF IInv, TypeOK, Known, RestoreHandler
<1>2. Known'
  BY DEF IInv, Known, RestoreHandler
<1>3. OwnersKept
  BY DEF OwnersKept, Owns, RestoreHandler
<1>4. Hands'
  BY MainFrame DEF RestoreHandler
<1> QED
  BY <1>1, <1>2, <1>3, <1>4, OwnersKeptFacts DEF IInv

LEMMA CheckDelayedStep ==
  ASSUME IInv, NEW r \in Requests, CheckDelayed(r)
  PROVE  IInv' /\ OwnersKept
<1>1. r \in started
  BY DEF IInv, TypeOK, CheckDelayed
<1>2. /\ toSend' \subseteq started /\ msgIdOf' \in [Requests -> 0..MaxMsgId]
      /\ abandoned' \subseteq Requests
      /\ \A q \in Requests, m \in Ids : msgIdOf'[q] = m => msgIdOf[q] = m
  BY <1>1, SendPreparedFacts DEF IInv, TypeOK, CheckDelayed
<1>3. TypeOK'
  BY <1>2 DEF IInv, TypeOK, CheckDelayed
<1>4. Known'
  BY DEF IInv, Known, CheckDelayed
<1>5. OwnersKept
  BY <1>2 DEF OwnersKept, Owns, CheckDelayed
<1>6. Hands'
  BY MainFrame DEF CheckDelayed
<1> QED
  BY <1>3, <1>4, <1>5, <1>6, OwnersKeptFacts DEF IInv

-----------------------------------------------------------------------------
(* The steps of the session thread: sending *)

\* A send gives no request an id that means something, or says so.
LEMMA PreparedOwners ==
  ASSUME IInv, NEW chunk, NEW force, NEW ids, NEW others, Sends(chunk, force, ids, others),
         hand' \subseteq hand, UNCHANGED mainVars
  PROVE  IdHasOneOwner'
<1> DEFINE New(r, m) == r \in chunk /\ ids[r] = m /\ ids[r] # msgIdOf[r]
<1>1. SUFFICES ASSUME ~collided' PROVE OneOwner'
  BY DEF IdHasOneOwner
<1>2. TypeOK /\ OneOwner
  BY <1>1, NewIsUnused DEF IInv, IdHasOneOwner
<1>3. ASSUME NEW m \in Ids, NEW r \in Requests, Owns(r, m)' PROVE Owns(r, m) \/ New(r, m)
  <2>1. ASSUME haveSent'[m] = r \/ resendingIds'[m] = r \/ ackedIds'[m] = r \/ msgIdOf'[r] = m
        PROVE  Owns(r, m) \/ New(r, m)
    <3>1. Held(r, m) \/ New(r, m)
      BY <1>1, <1>2, <2>1, PrepareFacts DEF Held
    <3> QED
      BY <3>1 DEF Held, Owns
  <2>2. ASSUME \/ <<m, r>> \in hand'
               \/ main' \in {"cancel", "cancelSent"} /\ mainReq' = r /\ mainMsgId' = m
        PROVE  Owns(r, m)
    BY <2>2 DEF Owns
  <2> QED
    BY <1>3, <2>1, <2>2 DEF Owns
<1>4. ASSUME NEW m \in Ids, NEW r \in Requests, NEW q \in Requests, New(r, m) PROVE ~Owns(q, m)
  BY <1>1, <1>4, NewIsUnused DEF InUse
<1>5. \A m \in Ids : \A r, q \in Requests : New(r, m) /\ New(q, m) => r = q
  BY <1>1, <1>2, IdInjective
<1> HIDE DEF New
<1>6. ASSUME NEW m \in Ids, NEW r \in Requests, NEW q \in Requests, Owns(r, m)', Owns(q, m)'
      PROVE  r = q
  <2>1. (Owns(r, m) \/ New(r, m)) /\ (Owns(q, m) \/ New(q, m))
    BY <1>3, <1>6
  <2>2. CASE Owns(r, m) /\ Owns(q, m)
    BY <1>2, <2>2 DEF OneOwner
  <2> QED
    BY <1>4, <1>5, <2>1, <2>2
<1> QED
  BY <1>6 DEF OneOwner

\* The ids of a container that was sent before stay message ids.
LEMMA MovedIdsFacts ==
  ASSUME NEW chunk, NEW force, NEW ids, NEW others, Sends(chunk, force, ids, others),
         NEW old \in SUBSET Ids
  PROVE  MovedIds(old, chunk, ids) \subseteq Ids
  BY DEF MovedIds, Replaced, Sends

\* What may be sent of toSend was started.
LEMMA ChunkFacts ==
  ASSUME TypeOK
  PROVE  Chunk \subseteq toSend /\ Chunk \subseteq started /\ Chunk \subseteq Requests
  BY DEF TypeOK, Chunk

LEMMA LeaveIdsFacts ==
  ASSUME TypeOK, NEW chunk, LeaveIds(chunk)
  PROVE  leftIds' \subseteq Ids
<1>1. \A r \in toSend : msgIdOf[r] \in 0..MaxMsgId
  BY DEF TypeOK
<1>2. \A r \in toSend : msgIdOf[r] # 0 => msgIdOf[r] \in Ids
  BY <1>1, BoundsAssumption DEF Ids
<1>3. {msgIdOf[r] : r \in toSend \ chunk} \ {0} \subseteq Ids
  BY <1>2
<1> QED
  BY <1>3 DEF TypeOK, LeaveIds

LEMMA SendSingleStep ==
  ASSUME IInv, NEW r \in Requests, SendSingle(r)
  PROVE  IInv' /\ OwnersKept
<1>1. r \in toSend /\ r \in started
  BY ChunkFacts DEF IInv, SendSingle
<1>2. leftIds' \subseteq Ids
  BY LeaveIdsFacts DEF IInv, SendSingle
<1>3. TypeOK'
  BY <1>1, <1>2 DEF IInv, TypeOK, SendSingle
<1>4. Known'
  BY <1>1 DEF IInv, Known, SendSingle
<1>5. OwnersKept
  BY DEF IInv, TypeOK, Hands, OwnersKept, Owns, SendSingle, Idle
<1>6. Hands'
  BY DEF IInv, Hands, SendSingle, Idle
<1> QED
  BY <1>3, <1>4, <1>5, <1>6, OwnersKeptFacts DEF IInv

\* What is sent alone.
LEMMA FinishSingleFacts ==
  ASSUME IInv, FinishSingle
  PROVE  \E p \in hand : \E ids \in [{p[2]} -> Ids] :
           /\ hand = {p} /\ p[2] \in started /\ p[2] \in Requests
           /\ Sends({p[2]}, thread = "sendingFirst", ids, {})
           /\ sentContainers' = [c \in Ids |-> MovedIds(sentContainers[c], {p[2]}, ids)]
           /\ lastMsgId' = IF ids[p[2]] > lastMsgId THEN ids[p[2]] ELSE lastMsgId + 1
           /\ inFlight' = inFlight \union {[id |-> ids[p[2]], inner |-> {ids[p[2]]}]}
<1>0. PICK p \in hand : \E ids \in [{p[2]} -> Ids] :
           /\ Prepare({p[2]}, thread = "sendingFirst", ids, {})
           /\ sentContainers' = [c \in Ids |-> MovedIds(sentContainers[c], {p[2]}, ids)]
           /\ lastMsgId' = IF ids[p[2]] > lastMsgId THEN ids[p[2]] ELSE lastMsgId + 1
           /\ inFlight' = inFlight \union {[id |-> ids[p[2]], inner |-> {ids[p[2]]}]}
  BY DEF FinishSingle
<1>1. PICK ids \in [{p[2]} -> Ids] :
           /\ Prepare({p[2]}, thread = "sendingFirst", ids, {})
           /\ sentContainers' = [c \in Ids |-> MovedIds(sentContainers[c], {p[2]}, ids)]
           /\ lastMsgId' = IF ids[p[2]] > lastMsgId THEN ids[p[2]] ELSE lastMsgId + 1
           /\ inFlight' = inFlight \union {[id |-> ids[p[2]], inner |-> {ids[p[2]]}]}
  BY <1>0
<1>2. hand = {p} /\ p[2] \in started /\ p[2] \in Requests
  BY DEF IInv, TypeOK, Known, Hands, FinishSingle
<1>3. Sends({p[2]}, thread = "sendingFirst", ids, {})
  BY <1>1, <1>2 DEF Sends
<1> QED
  BY <1>1, <1>2, <1>3

LEMMA FinishSingleStep ==
  ASSUME IInv, FinishSingle
  PROVE  IInv'
<1>0. PICK p \in hand : \E ids \in [{p[2]} -> Ids] :
           /\ p[2] \in started
           /\ Sends({p[2]}, thread = "sendingFirst", ids, {})
           /\ sentContainers' = [c \in Ids |-> MovedIds(sentContainers[c], {p[2]}, ids)]
           /\ lastMsgId' = IF ids[p[2]] > lastMsgId THEN ids[p[2]] ELSE lastMsgId + 1
           /\ inFlight' = inFlight \union {[id |-> ids[p[2]], inner |-> {ids[p[2]]}]}
  BY FinishSingleFacts
<1>1. PICK ids \in [{p[2]} -> Ids] :
           /\ p[2] \in started
           /\ Sends({p[2]}, thread = "sendingFirst", ids, {})
           /\ sentContainers' = [c \in Ids |-> MovedIds(sentContainers[c], {p[2]}, ids)]
           /\ lastMsgId' = IF ids[p[2]] > lastMsgId THEN ids[p[2]] ELSE lastMsgId + 1
           /\ inFlight' = inFlight \union {[id |-> ids[p[2]], inner |-> {ids[p[2]]}]}
  BY <1>0
<1>2. /\ thread \in {"sending", "sendingFirst"} /\ thread' = "idle" /\ hand' = {}
      /\ UNCHANGED <<mainVars, toSend, haveReceived, forced, toResend, connected,
                     markedAsStarted, stateRequests, checkVars, seen, answers, forgot,
                     leftIds, abandoned, faults>>
  BY DEF FinishSingle
<1>3. TypeOK /\ Known /\ ids[p[2]] \in Ids
  BY DEF IInv
<1>4. lastMsgId' \in 0..MaxMsgId
  BY <1>1, <1>2, <1>3, BoundsAssumption DEF IInv, TypeOK, Hands, Ids
<1>5. IdHasOneOwner'
  BY <1>1, <1>2, PreparedOwners
<1>6. /\ msgIdOf' \in [Requests -> 0..MaxMsgId]
      /\ haveSent' \in IdMap /\ resendingIds' \in IdMap /\ ackedIds' \in IdMap
      /\ \A m \in Ids : /\ haveSent'[m] \in started \union {None}
                        /\ resendingIds'[m] \in started \union {None}
                        /\ ackedIds'[m] \in started \union {None}
      /\ collided' \in BOOLEAN /\ given' \subseteq Ids
  BY <1>1, <1>3, PrepareTypes
<1>7. sentContainers' \in IdSets
  BY <1>1, <1>3, MovedIdsFacts DEF TypeOK, IdSets
<1>8. inFlight' \subseteq Packets
  BY <1>1, <1>3 DEF TypeOK, Packets
<1>9. TypeOK'
  BY <1>2, <1>3, <1>4, <1>6, <1>7, <1>8 DEF TypeOK
<1>10. Known'
  BY <1>2, <1>3, <1>6 DEF Known
<1>11. Hands'
  BY <1>2 DEF Hands
<1> QED
  BY <1>5, <1>9, <1>10, <1>11 DEF IInv

\* What is sent in a container.
LEMMA SendContainerFacts ==
  ASSUME IInv, SendContainer
  PROVE  \E ids \in [Chunk -> Ids], container \in Ids, states \in SUBSET Ids :
           /\ Sends(Chunk, ~markedAsStarted, ids, states \union {container})
           /\ states = IF stateData = {} THEN {} ELSE {container - 1}
           /\ Least(IF stateData = {} THEN container ELSE container - 1, Ahead(Chunk, ids))
           /\ sentContainers' = [c \in Ids |->
                IF c = container /\ sentContainers[c] = {} THEN ChunkIds(Chunk, ids)
                ELSE MovedIds(sentContainers[c], Chunk, ids)]
           /\ stateRequests' = [s \in Ids |-> IF s \in states /\ stateRequests[s] = {}
                                                THEN stateData ELSE stateRequests[s]]
           /\ inFlight' = inFlight \union
                {[id |-> container, inner |-> ChunkIds(Chunk, ids) \union states]}
           /\ lastMsgId' = container
<1>1. PICK ids \in [Chunk -> Ids], container \in Ids :
       LET states == IF stateData = {} THEN {} ELSE {container - 1} IN
         /\ Least(IF stateData = {} THEN container ELSE container - 1, Ahead(Chunk, ids))
         /\ Prepare(Chunk, ~markedAsStarted, ids, states \union {container})
         /\ sentContainers' = [c \in Ids |->
              IF c = container /\ sentContainers[c] = {} THEN ChunkIds(Chunk, ids)
              ELSE MovedIds(sentContainers[c], Chunk, ids)]
         /\ stateRequests' = [s \in Ids |-> IF s \in states /\ stateRequests[s] = {}
                                              THEN stateData ELSE stateRequests[s]]
         /\ inFlight' = inFlight \union
              {[id |-> container, inner |-> ChunkIds(Chunk, ids) \union states]}
         /\ lastMsgId' = container
  BY DEF SendContainer
<1> DEFINE states == IF stateData = {} THEN {} ELSE {container - 1}
<1>2. states \in SUBSET Ids
  BY <1>1 DEF Least, Ahead
<1>3. Chunk \subseteq started /\ Chunk \subseteq Requests
  BY ChunkFacts DEF IInv
<1>4. Sends(Chunk, ~markedAsStarted, ids, states \union {container})
  BY <1>1, <1>2, <1>3 DEF Sends, IInv, TypeOK
<1> QED
  BY <1>1, <1>2, <1>4

LEMMA SendContainerStep ==
  ASSUME IInv, SendContainer
  PROVE  IInv'
<1>1. PICK ids \in [Chunk -> Ids], container \in Ids, states \in SUBSET Ids :
           /\ Sends(Chunk, ~markedAsStarted, ids, states \union {container})
           /\ sentContainers' = [c \in Ids |->
                IF c = container /\ sentContainers[c] = {} THEN ChunkIds(Chunk, ids)
                ELSE MovedIds(sentContainers[c], Chunk, ids)]
           /\ stateRequests' = [s \in Ids |-> IF s \in states /\ stateRequests[s] = {}
                                                THEN stateData ELSE stateRequests[s]]
           /\ inFlight' = inFlight \union
                {[id |-> container, inner |-> ChunkIds(Chunk, ids) \union states]}
           /\ lastMsgId' = container
  BY SendContainerFacts
<1>2. /\ thread = "idle" /\ toSend' = toSend \ Chunk /\ stateData' = {}
      /\ markedAsStarted' = TRUE /\ checkTimer' = TRUE
      /\ UNCHANGED <<mainVars, haveReceived, forced, loopVars, connected,
                     seen, answers, forgot, abandoned, faults>>
      /\ LeaveIds(Chunk)
  BY DEF SendContainer, Idle
<1>3. TypeOK /\ Known
  BY DEF IInv
<1>4. IdHasOneOwner'
  BY <1>1, <1>2, PreparedOwners
<1>5. /\ msgIdOf' \in [Requests -> 0..MaxMsgId]
      /\ haveSent' \in IdMap /\ resendingIds' \in IdMap /\ ackedIds' \in IdMap
      /\ \A m \in Ids : /\ haveSent'[m] \in started \union {None}
                        /\ resendingIds'[m] \in started \union {None}
                        /\ ackedIds'[m] \in started \union {None}
      /\ collided' \in BOOLEAN /\ given' \subseteq Ids
      /\ ChunkIds(Chunk, ids) \subseteq Ids
  BY <1>1, <1>3, PrepareTypes
<1>6. sentContainers' \in IdSets /\ stateRequests' \in IdSets
  <2>1. \A c \in Ids : sentContainers[c] \in SUBSET Ids
    BY <1>3 DEF TypeOK, IdSets
  <2>2. \A c \in Ids : MovedIds(sentContainers[c], Chunk, ids) \subseteq Ids
    BY <1>1, <2>1, MovedIdsFacts
  <2>3. stateRequests' \in IdSets
    BY <1>1, <1>3 DEF TypeOK, IdSets
  <2> QED
    BY <1>1, <1>5, <2>2, <2>3 DEF IdSets
<1>7. inFlight' \subseteq Packets
  BY <1>1, <1>3, <1>5 DEF TypeOK, Packets
<1>8. leftIds' \subseteq Ids
  BY <1>2, <1>3, LeaveIdsFacts
<1>9. lastMsgId' \in 0..MaxMsgId
  BY <1>1 DEF Ids
<1>10. TypeOK'
  BY <1>2, <1>3, <1>5, <1>6, <1>7, <1>8, <1>9 DEF TypeOK
<1>11. Known'
  BY <1>2, <1>3, <1>5 DEF Known
<1>12. Hands'
  BY <1>2 DEF IInv, Hands
<1> QED
  BY <1>4, <1>10, <1>11, <1>12 DEF IInv

LEMMA SendStateRequestStep ==
  ASSUME IInv, SendStateRequest
  PROVE  IInv' /\ OwnersKept
<1>1. lastMsgId + 1 \in Ids /\ lastMsgId' = lastMsgId + 1
  BY DEF SendStateRequest
<1>2. /\ stateRequests' \in IdSets /\ inFlight' \subseteq Packets
      /\ given' \subseteq Ids /\ collided' \in BOOLEAN
  BY <1>1 DEF IInv, TypeOK, IdSets, Packets, SendStateRequest
<1>3. leftIds' \subseteq Ids
  BY LeaveIdsFacts DEF IInv, SendStateRequest
<1>4. TypeOK'
  BY <1>1, <1>2, <1>3 DEF IInv, TypeOK, Ids, SendStateRequest
<1>5. Known'
  BY DEF IInv, Known, SendStateRequest
<1>6. OwnersKept
  BY <1>1 DEF OwnersKept, Owns, SendStateRequest
<1>7. Hands'
  BY DEF IInv, Hands, SendStateRequest, Idle
<1> QED
  BY <1>4, <1>5, <1>6, <1>7, OwnersKeptFacts DEF IInv

LEMMA SendNothingStep ==
  ASSUME IInv, SendNothing
  PROVE  IInv' /\ OwnersKept
<1>1. leftIds' \subseteq Ids
  BY LeaveIdsFacts DEF IInv, SendNothing
<1>2. TypeOK'
  BY <1>1 DEF IInv, TypeOK, SendNothing
<1>3. Known'
  BY DEF IInv, Known, SendNothing
<1>4. OwnersKept
  BY DEF OwnersKept, Owns, SendNothing
<1>5. Hands'
  BY DEF IInv, Hands, SendNothing
<1> QED
  BY <1>2, <1>3, <1>4, <1>5, OwnersKeptFacts DEF IInv

-----------------------------------------------------------------------------
(* The steps of the session thread: resending *)

LEMMA TakeResentStep ==
  ASSUME IInv, TakeResent
  PROVE  IInv' /\ OwnersKept
<1>1. PICK m \in toResend :
        /\ toResend' = toResend \ {m}
        /\ IF haveSent[m] = None
             THEN UNCHANGED <<haveSent, hand, thread>>
             ELSE /\ haveSent' = [haveSent EXCEPT ![m] = None]
                  /\ hand' = {<<m, haveSent[m]>>}
                  /\ thread' = "resending"
  BY DEF TakeResent
<1>2. m \in Ids /\ thread = "idle" /\ hand = {} /\ haveSent[m] \in started \union {None}
  BY DEF IInv, TypeOK, Known, Hands, TakeResent
<1>3. haveSent' \in IdMap /\ \A n \in Ids : haveSent'[n] \in {haveSent[n], None}
  BY <1>1, <1>2 DEF IInv, TypeOK, IdMap
<1>4. \A p \in hand' : p[1] = m /\ p[2] = haveSent[m] /\ p[2] \in started /\ p = <<m, haveSent[m]>>
  BY <1>1, <1>2
<1>5. TypeOK'
  <2>1. hand' \subseteq (0..MaxMsgId) \X Requests
    BY <1>2, <1>4 DEF IInv, TypeOK, Ids
  <2> QED
    BY <1>1, <1>3, <2>1 DEF IInv, TypeOK, TakeResent
<1>6. Known'
  BY <1>3, <1>4 DEF IInv, Known, TakeResent
<1>7. OwnersKept
  BY <1>2, <1>3, <1>4, RequestsAssumption DEF IInv, TypeOK, OwnersKept, Owns, TakeResent
<1>9. Hands'
  BY <1>1, <1>2, <1>4 DEF IInv, Hands, TakeResent
<1> QED
  BY <1>5, <1>6, <1>7, <1>9, OwnersKeptFacts DEF IInv

LEMMA PutResentStep ==
  ASSUME IInv, PutResent
  PROVE  IInv' /\ OwnersKept
<1>1. \A p \in hand : p[1] \in Ids /\ p[2] \in started /\ p = <<p[1], p[2]>>
  BY DEF IInv, TypeOK, Known, Hands, PutResent
<1>2. ASSUME NEW m \in Ids
      PROVE  resendingIds'[m] = resendingIds[m] \/ \E p \in hand : p[1] = m /\ resendingIds'[m] = p[2]
  BY DEF PutResent
<1>3. resendingIds' \in IdMap
  <2>1. \A m \in Ids : resendingIds'[m] \in Requests \union {None}
    BY <1>1, <1>2 DEF IInv, TypeOK, IdMap
  <2> QED
    BY <2>1 DEF IdMap, PutResent
<1>4. TypeOK'
  BY <1>1, <1>3 DEF IInv, TypeOK, PutResent
<1>5. Known'
  BY <1>1, <1>2 DEF IInv, Known, PutResent
<1>6. OwnersKept
  <2>1. \A m \in Ids, r \in Requests :
          resendingIds'[m] = r => resendingIds[m] = r \/ <<m, r>> \in hand
    BY <1>1, <1>2
  <2>2. \A m \in Ids, r \in Requests : Owns(r, m)' => Owns(r, m)
    BY <2>1 DEF Owns, PutResent
  <2> QED
    BY <2>2 DEF IInv, TypeOK, OwnersKept, PutResent
<1>8. Hands'
  BY DEF Hands, PutResent
<1> QED
  BY <1>4, <1>5, <1>6, <1>8, OwnersKeptFacts DEF IInv

LEMMA ConnectStep ==
  ASSUME IInv, Connect
  PROVE  IInv' /\ OwnersKept
<1>1. \A p \in hand' : /\ p[1] \in Ids /\ p[2] = haveSent[p[1]] /\ p[2] \in started
                       /\ p[2] \in Requests /\ p \in (0..MaxMsgId) \X Requests
  BY DEF IInv, TypeOK, Known, Keys, Ids, Connect
<1>2. haveSent' \in IdMap /\ \A m \in Ids : haveSent'[m] = None
  BY DEF Connect, NoIds, IdMap
<1>3. TypeOK'
  BY <1>1, <1>2 DEF IInv, TypeOK, Connect
<1>4. Known'
  BY <1>1, <1>2 DEF IInv, Known, Connect
<1>5. OwnersKept
  <2>1. \A m \in Ids, r \in Requests : <<m, r>> \in hand' => haveSent[m] = r
    BY <1>1
  <2>2. \A m \in Ids, r \in Requests : Owns(r, m)' => Owns(r, m)
    BY <1>2, <2>1, RequestsAssumption DEF Owns, Connect
  <2> QED
    BY <2>2 DEF IInv, TypeOK, OwnersKept, Connect
<1>7. Hands'
  BY <1>1 DEF Hands, Connect
<1> QED
  BY <1>3, <1>4, <1>5, <1>7, OwnersKeptFacts DEF IInv

\* What the session thread keeps when it changes none of the requests.
LEMMA OwnersFrame ==
  ASSUME IInv, UNCHANGED <<mainVars, haveSent, resendingIds, ackedIds, msgIdOf, hand, collided>>
  PROVE  OwnersKept /\ IdHasOneOwner'
<1>1. OwnersKept
  BY DEF IInv, TypeOK, OwnersKept, Owns
<1> QED
  BY <1>1, OwnersKeptFacts

LEMMA CheckSentRequestsStep ==
  ASSUME IInv, CheckSentRequests
  PROVE  IInv' /\ OwnersKept
<1>1. PICK old \in SUBSET Keys(haveSent) :
        /\ old # {} => faults < MaxFaults
        /\ stateData' = stateData \union old
        /\ checkTimer' = (old # Keys(haveSent))
        /\ faults' = IF old # {} THEN faults + 1 ELSE faults
  BY DEF CheckSentRequests
<1>2. faults' \in 0..MaxFaults
  BY <1>1, BoundsAssumption DEF IInv, TypeOK
<1>3. stateData' \subseteq Ids /\ checkTimer' \in BOOLEAN
  BY <1>1 DEF IInv, TypeOK, Keys
<1>4. TypeOK'
  BY <1>2, <1>3 DEF IInv, TypeOK, CheckSentRequests
<1>5. Known' /\ Hands'
  BY DEF IInv, Known, Hands, CheckSentRequests
<1> QED
  BY <1>4, <1>5, OwnersFrame DEF IInv, CheckSentRequests

\* A loop over the ids of a container starts.
LEMMA StartResendFacts ==
  ASSUME TypeOK, NEW m \in Ids, StartResend(m)
  PROVE  /\ toResend' \subseteq Ids /\ sentContainers' \in IdSets
  BY DEF TypeOK, IdSets, StartResend

LEMMA ClearOldContainerStep ==
  ASSUME IInv, NEW c \in Ids, ClearOldContainer(c)
  PROVE  IInv' /\ OwnersKept
<1>1. /\ toResend' \subseteq Ids /\ sentContainers' \in IdSets
  BY StartResendFacts DEF IInv, ClearOldContainer
<1>2. faults' \in 0..MaxFaults
  BY BoundsAssumption DEF IInv, TypeOK, ClearOldContainer
<1>3. TypeOK'
  BY <1>1, <1>2 DEF IInv, TypeOK, ClearOldContainer
<1>4. Known' /\ Hands'
  BY DEF IInv, Known, Hands, ClearOldContainer, Idle
<1> QED
  BY <1>3, <1>4, OwnersFrame DEF IInv, ClearOldContainer

-----------------------------------------------------------------------------
(* The steps of the session thread: what it receives *)

\* Acknowledging takes requests away, or moves them to ackedIds.
LEMMA RequestsAckedFacts ==
  ASSUME TypeOK, NEW S \in SUBSET Ids, NEW byResponse \in BOOLEAN, RequestsAcked(S, byResponse)
  PROVE  /\ haveSent' \in IdMap /\ resendingIds' \in IdMap /\ ackedIds' \in IdMap
         /\ \A m \in Ids : /\ haveSent'[m] \in {haveSent[m], None}
                           /\ resendingIds'[m] \in {resendingIds[m], None}
                           /\ ackedIds'[m] \in {ackedIds[m], haveSent[m], resendingIds[m], None}
         /\ toSend' \subseteq toSend
         /\ sentContainers' \in IdSets /\ stateRequests' \in IdSets
         /\ \A c \in Ids : sentContainers'[c] \in {sentContainers[c], {}}
<1> DEFINE sent == AckedSent(S, byResponse)
           resending == AckedResending(S, byResponse)
           acked == [m \in Ids |->
             IF ackedIds[m] = None /\ m \in sent THEN haveSent[m]
             ELSE IF ackedIds[m] = None /\ m \in resending /\ resendingIds[m] \in toSend
               THEN resendingIds[m]
             ELSE ackedIds[m]]
<1>1. /\ haveSent' = [m \in Ids |-> IF m \in sent THEN None ELSE haveSent[m]]
      /\ resendingIds' = [m \in Ids |-> IF m \in resending THEN None ELSE resendingIds[m]]
      /\ toSend' = toSend \ {resendingIds[m] : m \in resending}
      /\ ackedIds' = Newest(acked)
      /\ sentContainers' = [c \in Ids |-> IF c \in S THEN {} ELSE sentContainers[c]]
      /\ stateRequests' = [s \in Ids |-> IF s \in Opened(S) THEN {} ELSE stateRequests[s]]
  BY DEF RequestsAcked
<1> HIDE DEF sent, resending
<1>2. haveSent' \in IdMap /\ resendingIds' \in IdMap
  BY <1>1 DEF TypeOK, IdMap
<1>3. \A m \in Ids : acked[m] \in {ackedIds[m], haveSent[m], resendingIds[m]}
  OBVIOUS
<1> HIDE DEF acked
<1>4. /\ ackedIds' = [m \in Ids |-> ackedIds'[m]]
      /\ \A m \in Ids : ackedIds'[m] \in {acked[m], None}
  BY <1>1 DEF Newest
<1>5. /\ \A m \in Ids : ackedIds'[m] \in {ackedIds[m], haveSent[m], resendingIds[m], None}
      /\ \A m \in Ids : ackedIds'[m] \in Requests \union {None}
  BY <1>3, <1>4 DEF TypeOK, IdMap
<1>6. ackedIds' \in IdMap
  BY <1>4, <1>5 DEF IdMap
<1>7. sentContainers' \in IdSets /\ stateRequests' \in IdSets
  BY <1>1 DEF TypeOK, IdSets
<1> QED
  BY <1>1, <1>2, <1>5, <1>6, <1>7

\* Acknowledging gives no id to a request and keeps what is known of them.
LEMMA AckedOwners ==
  ASSUME IInv, NEW S \in SUBSET Ids, NEW byResponse \in BOOLEAN, RequestsAcked(S, byResponse),
         UNCHANGED <<mainVars, msgIdOf, hand, collided>>
  PROVE  /\ OwnersKept /\ IdHasOneOwner'
         /\ \A m \in Ids : /\ haveSent'[m] \in started \union {None}
                           /\ resendingIds'[m] \in started \union {None}
                           /\ ackedIds'[m] \in started \union {None}
<1>1. \A m \in Ids : /\ haveSent'[m] \in {haveSent[m], None}
                     /\ resendingIds'[m] \in {resendingIds[m], None}
                     /\ ackedIds'[m] \in {ackedIds[m], haveSent[m], resendingIds[m], None}
  BY RequestsAckedFacts DEF IInv
<1>2. OwnersKept
  BY <1>1, RequestsAssumption DEF IInv, TypeOK, OwnersKept, Owns
<1> QED
  BY <1>1, <1>2, OwnersKeptFacts DEF IInv, Known

\* The answer that is saved is one of a request that was started.
LEMMA SaveAnswerFacts ==
  ASSUME IInv, NEW r \in started \union {None}, NEW answer \in Answers, SaveAnswer(r, answer)
  PROVE  /\ haveReceived' \in Seq([request : Requests, answer : Answers])
         /\ \A i \in DOMAIN haveReceived' : haveReceived'[i].request \in started
<1> DEFINE S == [request : Requests, answer : Answers]
           e == [request |-> r, answer |-> answer]
<1>1. haveReceived \in Seq(S) /\ \A i \in DOMAIN haveReceived : haveReceived[i].request \in started
  BY DEF IInv, TypeOK, Known
<1>2. CASE r = None
  BY <1>1, <1>2 DEF SaveAnswer
<1>3. CASE r # None
  <2>1. r \in started /\ e \in S /\ haveReceived' = Append(haveReceived, e)
    BY <1>3 DEF IInv, TypeOK, SaveAnswer
  <2>2. e.request \in started
    BY <2>1
  <2> HIDE DEF S, e
  <2>3. /\ haveReceived' \in Seq(S)
        /\ \A i \in DOMAIN haveReceived' : haveReceived'[i] = e
             \/ (i \in DOMAIN haveReceived /\ haveReceived'[i] = haveReceived[i])
    BY <1>1, <2>1, AppendProperties
  <2> QED
    BY <1>1, <2>2, <2>3 DEF S
<1> QED
  BY <1>2, <1>3

\* The request an id was used for was started.
LEMMA WasSentFacts ==
  ASSUME TypeOK, Known, NEW m \in Ids
  PROVE  WasSent(m) \in started \union {None}
  BY DEF Known, WasSent

LEMMA AbandonFacts ==
  ASSUME TypeOK, NEW S \in SUBSET Ids, NEW byResponse \in BOOLEAN,
         NEW requests \in SUBSET TakenAway(S, byResponse), Abandon(requests)
  PROVE  abandoned' \subseteq Requests
  BY DEF TypeOK, Abandon, TakenAway

LEMMA RpcResultStep ==
  ASSUME IInv, NEW m \in Ids, RpcResult(m)
  PROVE  IInv' /\ OwnersKept
<1>1. /\ RequestsAcked({m}, TRUE) /\ thread = "idle"
      /\ UNCHANGED <<mainVars, msgIdOf, forced, loopVars, stateVars, checkVars, inFlight,
                     seen, forgot, idHistory>>
  BY DEF RpcResult, Idle
<1>2. /\ haveSent' \in IdMap /\ resendingIds' \in IdMap /\ ackedIds' \in IdMap
      /\ toSend' \subseteq toSend
      /\ sentContainers' \in IdSets /\ stateRequests' \in IdSets
      /\ \A c \in Ids : sentContainers'[c] \in {sentContainers[c], {}}
  BY <1>1, RequestsAckedFacts DEF IInv
<1>3. /\ OwnersKept /\ IdHasOneOwner'
      /\ \A n \in Ids : /\ haveSent'[n] \in started \union {None}
                        /\ resendingIds'[n] \in started \union {None}
                        /\ ackedIds'[n] \in started \union {None}
  BY <1>1, AckedOwners
<1>4. WasSent(m)' \in started \union {None}
  BY <1>3 DEF WasSent
<1>5. PICK answer \in Answers :
        /\ answer # "done" => faults < MaxFaults
        /\ faults' = IF answer = "done" THEN faults ELSE faults + 1
        /\ SaveAnswer(WasSent(m)', answer)
  BY DEF RpcResult
<1>6. /\ haveReceived' \in Seq([request : Requests, answer : Answers])
      /\ \A i \in DOMAIN haveReceived' : haveReceived'[i].request \in started
  BY <1>4, <1>5, SaveAnswerFacts
<1>7. faults' \in 0..MaxFaults
  BY <1>5, BoundsAssumption DEF IInv, TypeOK
<1>11. abandoned' \subseteq Requests
  BY <1>1, AbandonFacts DEF IInv, RpcResult
<1>8. TypeOK'
  BY <1>1, <1>2, <1>6, <1>7, <1>11 DEF IInv, TypeOK, RpcResult
<1>9. Known'
  BY <1>1, <1>3, <1>6 DEF IInv, Known
<1>10. Hands'
  BY <1>1 DEF IInv, Hands
<1> QED
  BY <1>3, <1>8, <1>9, <1>10 DEF IInv

LEMMA MsgsAckStep ==
  ASSUME IInv, NEW m \in Ids, MsgsAck(m)
  PROVE  IInv' /\ OwnersKept
<1>1. /\ RequestsAcked({m}, FALSE) /\ thread = "idle"
      /\ UNCHANGED <<mainVars, haveReceived, msgIdOf, forced, loopVars, stateVars, checkVars,
                     serverVars, idHistory, faults>>
  BY DEF MsgsAck, Idle
<1>2. /\ haveSent' \in IdMap /\ resendingIds' \in IdMap /\ ackedIds' \in IdMap
      /\ toSend' \subseteq toSend
      /\ sentContainers' \in IdSets /\ stateRequests' \in IdSets
      /\ \A c \in Ids : sentContainers'[c] \in {sentContainers[c], {}}
  BY <1>1, RequestsAckedFacts DEF IInv
<1>3. /\ OwnersKept /\ IdHasOneOwner'
      /\ \A n \in Ids : /\ haveSent'[n] \in started \union {None}
                        /\ resendingIds'[n] \in started \union {None}
                        /\ ackedIds'[n] \in started \union {None}
  BY <1>1, AckedOwners
<1>7. abandoned' \subseteq Requests
  BY <1>1, AbandonFacts DEF IInv, MsgsAck
<1>4. TypeOK'
  BY <1>1, <1>2, <1>7 DEF IInv, TypeOK
<1>5. Known'
  BY <1>1, <1>3 DEF IInv, Known
<1>6. Hands'
  BY <1>1 DEF IInv, Hands
<1> QED
  BY <1>3, <1>4, <1>5, <1>6 DEF IInv

LEMMA MsgsStateInfoStep ==
  ASSUME IInv, NEW s \in Ids, MsgsStateInfo(s)
  PROVE  IInv' /\ OwnersKept
<1>1. PICK known \in SUBSET (stateRequests[s] \intersect seen) :
        /\ toResend' = {m \in stateRequests[s] \ known : haveSent[m] # None}
        /\ RequestsAcked({s} \union known, FALSE)
        /\ Abandon(TakenAway({s} \union known, FALSE))
  BY DEF MsgsStateInfo
<1>2. /\ {s} \union known \in SUBSET Ids /\ toResend' \subseteq Ids /\ thread = "idle"
      /\ UNCHANGED <<mainVars, haveReceived, msgIdOf, forced, thread, hand, stateVars, checkVars,
                     inFlight, seen, forgot, idHistory, faults>>
  BY <1>1 DEF IInv, TypeOK, IdSets, MsgsStateInfo, Idle
<1>3. /\ haveSent' \in IdMap /\ resendingIds' \in IdMap /\ ackedIds' \in IdMap
      /\ toSend' \subseteq toSend
      /\ sentContainers' \in IdSets /\ stateRequests' \in IdSets
      /\ \A c \in Ids : sentContainers'[c] \in {sentContainers[c], {}}
  BY <1>1, <1>2, RequestsAckedFacts DEF IInv
<1>4. /\ OwnersKept /\ IdHasOneOwner'
      /\ \A n \in Ids : /\ haveSent'[n] \in started \union {None}
                        /\ resendingIds'[n] \in started \union {None}
                        /\ ackedIds'[n] \in started \union {None}
  BY <1>1, <1>2, AckedOwners
<1>8. abandoned' \subseteq Requests
  BY <1>1, <1>2, AbandonFacts DEF IInv
<1>5. TypeOK'
  BY <1>2, <1>3, <1>8 DEF IInv, TypeOK, MsgsStateInfo
<1>6. Known'
  BY <1>2, <1>4 DEF IInv, Known
<1>7. Hands'
  BY <1>2 DEF IInv, Hands
<1> QED
  BY <1>4, <1>5, <1>6, <1>7 DEF IInv

\* A message the server rejects leaves its packet, or takes the packet with it.
LEMMA RejectFacts ==
  ASSUME IInv, NEW p \in inFlight, NEW m \in Ids, Reject(p, m)
  PROVE  /\ inFlight' \subseteq Packets /\ faults' \in 0..MaxFaults
         /\ \A q \in inFlight' : \E o \in inFlight : q.id = o.id /\ q.inner \subseteq o.inner
<1>1. inFlight' = (inFlight \ {p})
                  \union (IF m = p.id THEN {} ELSE {[p EXCEPT !.inner = @ \ {m}]})
  BY DEF Reject
<1>2. p \in Packets
  BY DEF IInv, TypeOK
<1> DEFINE q == [p EXCEPT !.inner = @ \ {m}]
<1>3. q \in Packets /\ q.id = p.id /\ q.inner \subseteq p.inner
  BY <1>2 DEF Packets
<1> HIDE DEF q
<1>4. inFlight' \subseteq Packets
  BY <1>1, <1>3 DEF IInv, TypeOK, q
<1>5. \A x \in inFlight' : x \in inFlight \/ x = q
  BY <1>1 DEF q
<1>6. faults' \in 0..MaxFaults
  BY BoundsAssumption DEF IInv, TypeOK, Reject
<1> QED
  BY <1>3, <1>4, <1>5, <1>6

\* A clock that is set back stays in its range.
LEMMA ClockFacts ==
  ASSUME TypeOK, ClockIsSet
  PROVE  lastMsgId' \in 0..MaxMsgId /\ (lastMsgId < MaxMsgId => lastMsgId' < MaxMsgId)
  BY BoundsAssumption DEF TypeOK, ClockIsSet

LEMMA BadMsgResendStep ==
  ASSUME IInv, NEW p \in inFlight, NEW m \in Ids, BadMsgResend(p, m)
  PROVE  IInv' /\ OwnersKept
<1>1. /\ inFlight' \subseteq Packets /\ faults' \in 0..MaxFaults
      /\ \A q \in inFlight' : \E o \in inFlight : q.id = o.id /\ q.inner \subseteq o.inner
  BY RejectFacts DEF BadMsgResend
<1>2. /\ toResend' \subseteq Ids /\ sentContainers' \in IdSets
  BY StartResendFacts DEF IInv, BadMsgResend
<1>5. lastMsgId' \in 0..MaxMsgId
  BY ClockFacts DEF IInv, BadMsgResend
<1>3. TypeOK'
  BY <1>1, <1>2, <1>5 DEF IInv, TypeOK, BadMsgResend
<1>4. Known' /\ Hands'
  BY DEF IInv, Known, Hands, BadMsgResend, Reject, Idle
<1> QED
  BY <1>3, <1>4, OwnersFrame DEF IInv, BadMsgResend

LEMMA BadMsgFatalStep ==
  ASSUME IInv, NEW p \in inFlight, NEW m \in Ids, BadMsgFatal(p, m)
  PROVE  IInv' /\ OwnersKept
<1>1. /\ inFlight' \subseteq Packets /\ faults' \in 0..MaxFaults
      /\ \A q \in inFlight' : \E o \in inFlight : q.id = o.id /\ q.inner \subseteq o.inner
  BY RejectFacts DEF BadMsgFatal
<1>2. WasSent(m) \in started \union {None} /\ "later" \in Answers
  BY WasSentFacts DEF IInv, Answers
<1>3. /\ haveReceived' \in Seq([request : Requests, answer : Answers])
      /\ \A i \in DOMAIN haveReceived' : haveReceived'[i].request \in started
  BY <1>2, SaveAnswerFacts DEF BadMsgFatal
<1>4. TypeOK'
  BY <1>1, <1>3 DEF IInv, TypeOK, BadMsgFatal
<1>5. Known'
  BY <1>3 DEF IInv, Known, BadMsgFatal
<1>6. Hands'
  BY DEF IInv, Hands, BadMsgFatal
<1> QED
  BY <1>4, <1>5, <1>6, OwnersFrame DEF IInv, BadMsgFatal

LEMMA NewSessionIdStep ==
  ASSUME IInv, NewSessionId, thread = "idle", faults < MaxFaults, faults' = faults + 1,
         lastMsgId' \in 0..MaxMsgId,
         UNCHANGED <<mainVars, sharedVars, loopVars, idVars, checkTimer, collided, abandoned>>
  PROVE  IInv' /\ OwnersKept
<1>1. faults' \in 0..MaxFaults
  BY BoundsAssumption DEF IInv, TypeOK
<1>3. TypeOK'
  BY <1>1 DEF IInv, TypeOK, NewSessionId
<1>4. Known' /\ Hands'
  BY DEF IInv, Known, Hands, NewSessionId
<1> QED
  BY <1>3, <1>4, OwnersFrame DEF IInv

LEMMA SessionResetStep ==
  ASSUME IInv, KeyChanged \/ \E p \in inFlight : BadMsgReset(p)
  PROVE  IInv' /\ OwnersKept
<1>1. ASSUME KeyChanged PROVE IInv' /\ OwnersKept
  <2>1. lastMsgId' \in 0..MaxMsgId
    BY <1>1 DEF IInv, TypeOK, KeyChanged
  <2> QED
    BY <1>1, <2>1, NewSessionIdStep DEF KeyChanged, Idle
<1>2. ASSUME NEW p \in inFlight, BadMsgReset(p) PROVE IInv' /\ OwnersKept
  <2>1. lastMsgId' \in 0..MaxMsgId
    BY <1>2, ClockFacts DEF IInv, BadMsgReset
  <2> QED
    BY <1>2, <2>1, NewSessionIdStep DEF BadMsgReset, Idle
<1> QED
  BY <1>1, <1>2

LEMMA ClockSetBackStep ==
  ASSUME IInv, ClockSetBack
  PROVE  IInv' /\ OwnersKept
<1>1. faults' \in 0..MaxFaults
  BY BoundsAssumption DEF IInv, TypeOK, ClockSetBack
<1>2. lastMsgId' \in 0..MaxMsgId /\ (lastMsgId < MaxMsgId => lastMsgId' < MaxMsgId)
  BY ClockFacts DEF IInv, ClockSetBack
<1>3. TypeOK'
  BY <1>1, <1>2 DEF IInv, TypeOK, ClockSetBack
<1>4. Known' /\ Hands'
  BY <1>2 DEF IInv, Known, Hands, ClockSetBack
<1> QED
  BY <1>3, <1>4, OwnersFrame DEF IInv, ClockSetBack

LEMMA NewSessionCreatedStep ==
  ASSUME IInv, NewSessionCreated
  PROVE  IInv' /\ OwnersKept
<1>1. /\ toResend' \subseteq Ids
      /\ \/ /\ inFlight' \subseteq inFlight /\ seen' \subseteq Ids /\ answers' \subseteq seen'
            /\ \A m \in seen' : \E p \in inFlight : m \in p.inner \union {p.id}
         \/ UNCHANGED <<inFlight, seen, answers>>
  BY DEF IInv, TypeOK, Packets, Keys, NewSessionCreated
<1>2. TypeOK'
  BY <1>1 DEF IInv, TypeOK, NewSessionCreated
<1>3. Known' /\ Hands'
  BY DEF IInv, Known, Hands, NewSessionCreated, Idle
<1> QED
  BY <1>2, <1>3, OwnersFrame DEF IInv, NewSessionCreated

LEMMA ConnectionLostStep ==
  ASSUME IInv, ConnectionLost
  PROVE  IInv' /\ OwnersKept
<1>1. faults' \in 0..MaxFaults
  BY BoundsAssumption DEF IInv, TypeOK, ConnectionLost
<1>2. TypeOK'
  BY <1>1 DEF IInv, TypeOK, ConnectionLost
<1>3. Known' /\ Hands'
  BY DEF IInv, Known, Hands, ConnectionLost
<1> QED
  BY <1>2, <1>3, OwnersFrame DEF IInv, ConnectionLost

-----------------------------------------------------------------------------
(* The steps of the server *)

LEMMA ServerReceivesStep ==
  ASSUME IInv, NEW p \in inFlight, ServerReceives(p)
  PROVE  IInv' /\ OwnersKept
<1>1. /\ inFlight' \subseteq inFlight /\ seen' \subseteq Ids /\ answers' \subseteq seen'
      /\ \A m \in seen' : m \in seen \/ m \in p.inner \union {p.id}
  BY DEF IInv, TypeOK, Packets, ServerReceives
<1>2. TypeOK'
  BY <1>1 DEF IInv, TypeOK, ServerReceives
<1>3. Known' /\ Hands'
  BY DEF IInv, Known, Hands, ServerReceives
<1> QED
  BY <1>2, <1>3, OwnersFrame DEF IInv, ServerReceives

LEMMA ServerForgetsStep ==
  ASSUME IInv, ServerForgets
  PROVE  IInv' /\ OwnersKept
<1>1. faults' \in 0..MaxFaults
  BY BoundsAssumption DEF IInv, TypeOK, ServerForgets
<1>2. TypeOK'
  BY <1>1 DEF IInv, TypeOK, ServerForgets
<1>3. Known' /\ Hands'
  BY DEF IInv, Known, Hands, ServerForgets
<1> QED
  BY <1>2, <1>3, OwnersFrame DEF IInv, ServerForgets

-----------------------------------------------------------------------------
(* Types and owners *)

LEMMA InitIInv == Init => IInv
<1> SUFFICES ASSUME Init PROVE IInv
  OBVIOUS
<1>1. /\ 0 \in 0..MaxMsgId /\ 0 \in 0..MaxFaults /\ 0 \notin Ids
      /\ NoIds \in IdMap /\ NoSets \in IdSets /\ \A m \in Ids : NoIds[m] = None /\ NoSets[m] = {}
  BY BoundsAssumption DEF Ids, NoIds, NoSets, IdMap, IdSets
<1>2. TypeOK
  <2>1. /\ haveReceived \in Seq([request : Requests, answer : Answers])
        /\ msgIdOf \in [Requests -> 0..MaxMsgId]
    BY <1>1, EmptySeq DEF Init
  <2> QED
    BY <1>1, <2>1 DEF Init, TypeOK
<1>3. Known /\ Hands
  BY <1>1 DEF Init, Known, Hands
<1>4. \A m \in Ids : \A r \in Requests : ~Owns(r, m)
  BY <1>1, RequestsAssumption DEF Init, Owns
<1>5. IdHasOneOwner
  BY <1>4 DEF IdHasOneOwner, OneOwner
<1> QED
  BY <1>2, <1>3, <1>5 DEF IInv

LEMMA StutterStep ==
  ASSUME IInv, UNCHANGED vars
  PROVE  IInv' /\ OwnersKept
<1>1. TypeOK'
  BY DEF IInv, TypeOK, vars
<1>2. Known' /\ Hands'
  BY DEF IInv, Known, Hands, vars
<1> QED
  BY <1>1, <1>2, OwnersFrame DEF IInv, vars

\* Only the two sends give ids to requests.
Numbers == FinishSingle \/ SendContainer

LEMMA KeptStep ==
  ASSUME IInv, [Next]_vars, ~Numbers
  PROVE  IInv' /\ OwnersKept
<1>1. ASSUME Main PROVE IInv' /\ OwnersKept
  BY <1>1, SendRequestStep, CancelRequestStep, CheckDelayedStep, GiveToSessionStep,
     CancelToSendStep, CancelHaveSentStep, ProcessCallbackStep, HandleFinalStep,
     HandleLaterStep, HandleNowStep, RestoreHandlerStep DEF Main
<1>2. ASSUME Send PROVE IInv' /\ OwnersKept
  BY <1>2, SendSingleStep, SendStateRequestStep DEF Send, Numbers
<1>3. ASSUME Session PROVE IInv' /\ OwnersKept
  <2>1. ASSUME NEW m \in Ids,
               ClearOldContainer(m) \/ RpcResult(m) \/ MsgsAck(m) \/ MsgsStateInfo(m)
        PROVE  IInv' /\ OwnersKept
    BY <2>1, ClearOldContainerStep, RpcResultStep, MsgsAckStep, MsgsStateInfoStep
  <2>2. ASSUME NEW p \in inFlight, NEW m \in Ids, BadMsgResend(p, m) \/ BadMsgFatal(p, m)
        PROVE  IInv' /\ OwnersKept
    BY <2>2, BadMsgResendStep, BadMsgFatalStep
  <2>3. ASSUME KeyChanged \/ \E p \in inFlight : BadMsgReset(p) PROVE IInv' /\ OwnersKept
    BY <2>3, SessionResetStep
  <2> QED
    BY <1>2, <1>3, <2>1, <2>2, <2>3, SendNothingStep, TakeResentStep,
       PutResentStep, ConnectStep, CheckSentRequestsStep, ClockSetBackStep,
       NewSessionCreatedStep, ConnectionLostStep DEF Session, Numbers
<1>4. ASSUME Server PROVE IInv' /\ OwnersKept
  BY <1>4, ServerReceivesStep, ServerForgetsStep DEF Server
<1>5. ASSUME UNCHANGED vars PROVE IInv' /\ OwnersKept
  BY <1>5, StutterStep
<1> QED
  BY <1>1, <1>3, <1>4, <1>5 DEF Next

LEMMA StepIInv ==
  ASSUME IInv, [Next]_vars
  PROVE  IInv'
  BY KeptStep, FinishSingleStep, SendContainerStep DEF Numbers

\* The inductive invariant holds.
THEOREM Invariant == Spec => []IInv
<1>1. Init => IInv
  BY InitIInv
<1>2. IInv /\ [Next]_vars => IInv'
  BY StepIInv
<1> QED
  BY <1>1, <1>2, PTL DEF Spec

\* Every variable keeps its type, with any number of requests, ids and faults.
THEOREM TypesAreKept == Spec => []TypeOK
<1>1. IInv => TypeOK
  BY DEF IInv
<1> QED
  BY <1>1, Invariant, PTL

\* A message id is never that of two requests: not in haveSent, not in
\* resendingIds, ackedIds or the hand of the session thread, and not while cancel()
\* still holds the id it read, unless the clock was set back and gave an id that
\* was in use to a message for which nobody looks.  So an answer reaches the request
\* it is for, and cancel() takes no other request out of haveSent.
THEOREM IdsHaveOneOwner == Spec => []IdHasOneOwner
<1>1. IInv => IdHasOneOwner
  BY DEF IInv
<1> QED
  BY <1>1, Invariant, PTL

\* The session thread and the server touch nothing of the main thread.
LEMMA SessionKeepsMain ==
  ASSUME Session \/ Server
  PROVE  UNCHANGED mainVars
<1>1. ASSUME Send \/ SendNothing \/ FinishSingle PROVE UNCHANGED mainVars
  BY <1>1 DEF Send, SendSingle, SendContainer, SendStateRequest, SendNothing, FinishSingle
<1>2. ASSUME TakeResent \/ PutResent \/ Connect \/ CheckSentRequests PROVE UNCHANGED mainVars
  BY <1>2 DEF TakeResent, PutResent, Connect, CheckSentRequests
<1>3. ASSUME NEW m \in Ids, ClearOldContainer(m) \/ RpcResult(m) \/ MsgsAck(m) \/ MsgsStateInfo(m)
      PROVE  UNCHANGED mainVars
  BY <1>3 DEF ClearOldContainer, RpcResult, MsgsAck, MsgsStateInfo
<1>4. ASSUME NEW p \in inFlight, NEW m \in Ids,
             BadMsgReset(p) \/ BadMsgResend(p, m) \/ BadMsgFatal(p, m)
      PROVE  UNCHANGED mainVars
  BY <1>4 DEF BadMsgReset, BadMsgResend, BadMsgFatal
<1>5. ASSUME NEW p \in inFlight, BadMsgReset(p) PROVE UNCHANGED mainVars
  BY <1>5 DEF BadMsgReset
<1>6. ASSUME KeyChanged \/ ClockSetBack \/ NewSessionCreated \/ ConnectionLost
      PROVE  UNCHANGED mainVars
  BY <1>6 DEF KeyChanged, ClockSetBack, NewSessionCreated, ConnectionLost
<1>7. ASSUME Server PROVE UNCHANGED mainVars
  BY <1>7 DEF Server, ServerReceives, ServerForgets
<1> QED
  BY <1>1, <1>2, <1>3, <1>4, <1>5, <1>6, <1>7 DEF Session

-----------------------------------------------------------------------------
(* No request is lost *)

\* cancel() has unregistered the request it is busy with.
Cancelling == main \in {"cancel", "cancelSent"} => mainReq \notin registered

\* A request that waits for its answer, the one whose handler is about to be put
\* back included, and what has become of it.
Sought(r) == r \in registered /\ (r \in callbacks \/ (main = "restore" /\ mainReq = r))

Kept(r) == Located(r) \/ r \in abandoned

KeepsAll == collided \/ \A r \in Requests : Sought(r) => Kept(r)

LEMMA CancellingStep ==
  ASSUME IInv, Cancelling, [Next]_vars
  PROVE  Cancelling'
<1>1. ASSUME NEW r \in Requests, SendRequest(r) \/ CancelRequest(r) \/ CheckDelayed(r)
      PROVE  Cancelling'
  BY <1>1 DEF Cancelling, SendRequest, CancelRequest, CheckDelayed
<1>2. CASE GiveToSession \/ CancelToSend \/ CancelHaveSent \/ HandleFinal \/ HandleLater
           \/ HandleNow \/ RestoreHandler
  BY <1>2 DEF Cancelling, GiveToSession, CancelToSend, CancelHaveSent, HandleFinal, HandleLater,
              HandleNow, RestoreHandler
<1>3. CASE ProcessCallback
  <2>1. Head(haveReceived).answer \in Answers
    BY <1>3, TakenFacts
  <2> QED
    BY <1>3, <2>1 DEF Cancelling, ProcessCallback, Answers
<1>4. ASSUME UNCHANGED <<main, mainReq, registered>> PROVE Cancelling'
  BY <1>4 DEF Cancelling
<1>5. ASSUME Session \/ Server \/ UNCHANGED vars PROVE UNCHANGED <<main, mainReq, registered>>
  BY <1>5, SessionKeepsMain DEF vars
<1> QED
  BY <1>1, <1>2, <1>3, <1>4, <1>5 DEF Next, Main

\* The answers that stay in a queue move up by one.
LEMMA StaysFacts ==
  ASSUME NEW S, NEW s \in Seq(S), s # <<>>
  PROVE  \A i \in DOMAIN s : i # 1 => i - 1 \in DOMAIN Tail(s) /\ Tail(s)[i - 1] = s[i]
<1>1. /\ Len(Tail(s)) = Len(s) - 1 /\ Tail(s) \in Seq(S)
      /\ \A i \in 1..Len(Tail(s)) : Tail(s)[i] = s[i + 1]
  BY HeadTailProperties
<1>2. Len(s) \in Nat /\ DOMAIN s = 1..Len(s) /\ DOMAIN Tail(s) = 1..Len(Tail(s))
  BY <1>1, LenProperties
<1>3. ASSUME NEW i \in DOMAIN s, i # 1
      PROVE  i - 1 \in DOMAIN Tail(s) /\ Tail(s)[i - 1] = s[i]
  <2>1. i - 1 \in 1..Len(Tail(s)) /\ (i - 1) + 1 = i
    BY <1>1, <1>2, <1>3
  <2>2. Tail(s)[i - 1] = s[(i - 1) + 1]
    BY <1>1, <2>1
  <2> QED
    BY <1>2, <2>1, <2>2
<1> QED
  BY <1>3

\* An id that was given twice is not forgotten.
LEMMA CollidedStays ==
  ASSUME IInv, [Next]_vars, ~collided'
  PROVE  ~collided /\ OneOwner
<1>1. ~collided
  <2>1. CASE FinishSingle
    BY <2>1 DEF FinishSingle, Prepare
  <2>2. CASE SendContainer
    BY <2>2 DEF SendContainer, Prepare
  <2>3. CASE ~Numbers
    BY <2>3, KeptStep DEF OwnersKept
  <2> QED
    BY <2>1, <2>2, <2>3 DEF Numbers
<1> QED
  BY <1>1 DEF IInv, IdHasOneOwner

\* What is kept stays so when nothing is taken away.
LEMMA KeptFrame ==
  ASSUME NEW r \in Requests, Kept(r),
         r \in abandoned => r \in abandoned',
         r \in toSend \union delayed => r \in toSend' \union delayed',
         \A m \in Ids : haveSent[m] = r => haveSent'[m] = r,
         \A p \in hand : p[2] = r => p \in hand',
         \A i \in DOMAIN haveReceived : haveReceived[i].request = r =>
           i \in DOMAIN haveReceived' /\ haveReceived'[i].request = r,
         main = "send" /\ mainReq = r => main' = "send" /\ mainReq' = r
  PROVE  Kept(r)'
  BY DEF Kept, Located

LEMMA MainLosesNone ==
  ASSUME IInv, OneOwner, Cancelling, Main, NEW r \in Requests,
         Sought(r) => Kept(r), Sought(r)'
  PROVE  Kept(r)'
<1>1. ASSUME NEW q \in Requests, SendRequest(q) PROVE Kept(r)'
  <2>1. CASE q = r
    BY <1>1, <2>1 DEF Kept, Located, SendRequest
  <2>2. CASE q # r
    BY <1>1, <2>2, KeptFrame DEF Sought, SendRequest
  <2> QED
    BY <2>1, <2>2
<1>2. ASSUME NEW q \in Requests, CancelRequest(q) PROVE Kept(r)'
  BY <1>2, KeptFrame DEF Sought, CancelRequest
<1>3. ASSUME NEW q \in Requests, CheckDelayed(q) PROVE Kept(r)'
  <2>1. Kept(r) /\ r \in registered
    BY <1>3 DEF Sought, CheckDelayed
  <2>2. CASE q = r
    BY <1>3, <2>1, <2>2 DEF Kept, Located, SendPrepared, CheckDelayed
  <2>3. CASE q # r
    BY <1>3, <2>1, <2>3, KeptFrame DEF SendPrepared, CheckDelayed
  <2> QED
    BY <2>2, <2>3
<1>4. CASE GiveToSession
  <2>1. CASE mainReq = r
    BY <1>4, <2>1 DEF Kept, Located, GiveToSession, SendPrepared
  <2>2. CASE mainReq # r
    BY <1>4, <2>2, KeptFrame DEF Sought, GiveToSession, SendPrepared
  <2> QED
    BY <2>1, <2>2
<1>5. CASE CancelToSend
  <2>1. Kept(r) /\ mainReq # r
    BY <1>5 DEF Sought, Cancelling, CancelToSend
  <2> QED
    BY <1>5, <2>1, KeptFrame DEF CancelToSend
<1>6. CASE CancelHaveSent
  <2>1. Kept(r) /\ mainReq # r /\ mainReq \in Requests
    BY <1>6 DEF IInv, TypeOK, Known, Sought, Cancelling, CancelHaveSent
  <2>2. ASSUME NEW m \in Ids, haveSent[m] = r PROVE haveSent'[m] = r
    <3>1. m # mainMsgId
      <4>1. Owns(r, m) /\ (m = mainMsgId => Owns(mainReq, m))
        BY <1>6, <2>2 DEF Owns, CancelHaveSent
      <4> QED
        BY <2>1, <4>1 DEF OneOwner
    <3> QED
      BY <1>6, <2>2, <3>1 DEF CancelHaveSent
  <2> QED
    BY <1>6, <2>1, <2>2, KeptFrame DEF CancelHaveSent
<1>7. CASE ProcessCallback
  <2>1. /\ 1 \in DOMAIN haveReceived /\ Head(haveReceived) = haveReceived[1]
        /\ haveReceived \in Seq([request : Requests, answer : Answers])
        /\ haveReceived # <<>> /\ haveReceived' = Tail(haveReceived)
        /\ Head(haveReceived).answer \in Answers
    BY <1>7, TakenFacts DEF IInv, TypeOK, ProcessCallback
  <2>2. Kept(r) /\ Head(haveReceived).request # r /\ main = "idle"
    BY <1>7, <2>1 DEF Sought, ProcessCallback, Answers
  <2>3. \A i \in DOMAIN haveReceived : i # 1 =>
          i - 1 \in DOMAIN haveReceived' /\ haveReceived'[i - 1] = haveReceived[i]
    BY <2>1, StaysFacts
  <2>4. (\E i \in DOMAIN haveReceived : haveReceived[i].request = r) =>
          \E i \in DOMAIN haveReceived' : haveReceived'[i].request = r
    BY <2>1, <2>2, <2>3
  <2> QED
    BY <1>7, <2>2, <2>4 DEF Kept, Located, ProcessCallback
<1>8. CASE HandleFinal
  BY <1>8, KeptFrame DEF Sought, HandleFinal
<1>9. CASE HandleLater
  <2>1. CASE mainReq = r
    BY <1>9, <2>1 DEF Kept, Located, HandleLater
  <2>2. CASE mainReq # r
    BY <1>9, <2>2, KeptFrame DEF Sought, HandleLater
  <2> QED
    BY <2>1, <2>2
<1>10. CASE HandleNow
  <2>1. CASE mainReq = r
    BY <1>10, <2>1 DEF Kept, Located, HandleNow, SendPrepared
  <2>2. CASE mainReq # r
    BY <1>10, <2>2, KeptFrame DEF Sought, HandleNow, SendPrepared
  <2> QED
    BY <2>1, <2>2
<1>11. CASE RestoreHandler
  BY <1>11, KeptFrame DEF Sought, RestoreHandler
<1> QED
  BY <1>1, <1>2, <1>3, <1>4, <1>5, <1>6, <1>7, <1>8, <1>9, <1>10, <1>11 DEF Main

\* What is appended to a queue is its last element.
LEMMA AddedFacts ==
  ASSUME NEW S, NEW s \in Seq(S), NEW e \in S
  PROVE  /\ Len(s) + 1 \in DOMAIN Append(s, e) /\ Append(s, e)[Len(s) + 1] = e
         /\ \A i \in DOMAIN s : i \in DOMAIN Append(s, e) /\ Append(s, e)[i] = s[i]
         /\ \A i \in DOMAIN Append(s, e) : i \in DOMAIN s \/ i = Len(s) + 1
<1>1. /\ Append(s, e) \in Seq(S) /\ Len(Append(s, e)) = Len(s) + 1
      /\ \A i \in 1..Len(s) : Append(s, e)[i] = s[i]
      /\ Append(s, e)[Len(s) + 1] = e
  BY AppendProperties
<1>2. Len(s) \in Nat /\ DOMAIN s = 1..Len(s) /\ DOMAIN Append(s, e) = 1..Len(Append(s, e))
  BY <1>1, LenProperties
<1> QED
  BY <1>1, <1>2

\* An acknowledgement leaves a request where it is, or takes it away.
LEMMA AckedFacts ==
  ASSUME NEW S, NEW byResponse, RequestsAcked(S, byResponse), NEW r \in Requests,
         r \notin TakenAway(S, byResponse)
  PROVE  /\ r \in toSend => r \in toSend'
         /\ \A m \in Ids : haveSent[m] = r => haveSent'[m] = r
<1> DEFINE sent == AckedSent(S, byResponse)
           resending == AckedResending(S, byResponse)
<1>1. /\ haveSent' = [n \in Ids |-> IF n \in sent THEN None ELSE haveSent[n]]
      /\ toSend' = toSend \ {resendingIds[n] : n \in resending}
  BY DEF RequestsAcked
<1>2. /\ \A n \in sent : haveSent[n] # r
      /\ \A n \in resending : resendingIds[n] # r
  BY DEF TakenAway, AckedSent, AckedResending
<1> HIDE DEF sent, resending
<1> QED
  BY <1>1, <1>2

LEMMA AckLosesNone ==
  ASSUME NEW S \in SUBSET Ids, RequestsAcked(S, FALSE), Abandon(TakenAway(S, FALSE)),
         UNCHANGED <<mainVars, haveReceived, hand>>, NEW r \in Requests, Kept(r)
  PROVE  Kept(r)'
<1>1. CASE r \in TakenAway(S, FALSE)
  BY <1>1 DEF Abandon, Kept
<1>2. CASE r \notin TakenAway(S, FALSE)
  <2>1. /\ r \in toSend => r \in toSend'
        /\ \A m \in Ids : haveSent[m] = r => haveSent'[m] = r
    BY <1>2, AckedFacts
  <2>2. abandoned \subseteq abandoned'
    BY DEF Abandon
  <2> QED
    BY <2>1, <2>2, KeptFrame
<1> QED
  BY <1>1, <1>2

\* An answer that is saved is the last one, and leaves those before it.
LEMMA SavedLosesNone ==
  ASSUME IInv, NEW q \in Requests \union {None}, NEW answer \in Answers, SaveAnswer(q, answer)
  PROVE  /\ \A i \in DOMAIN haveReceived :
              i \in DOMAIN haveReceived' /\ haveReceived'[i] = haveReceived[i]
         /\ q # None => \E i \in DOMAIN haveReceived' : haveReceived'[i].request = q
<1> DEFINE S == [request : Requests, answer : Answers]
           e == [request |-> q, answer |-> answer]
<1>1. haveReceived \in Seq(S)
  BY DEF IInv, TypeOK
<1>2. CASE q = None
  BY <1>2 DEF SaveAnswer
<1>3. CASE q # None
  <2>1. haveReceived' = Append(haveReceived, e) /\ e \in S /\ e.request = q
    BY <1>3 DEF SaveAnswer
  <2> HIDE DEF S, e
  <2>2. /\ haveReceived'[Len(haveReceived) + 1] = e
        /\ Len(haveReceived) + 1 \in DOMAIN haveReceived'
        /\ \A i \in DOMAIN haveReceived :
             i \in DOMAIN haveReceived' /\ haveReceived'[i] = haveReceived[i]
    BY <1>1, <2>1, AddedFacts
  <2> QED
    BY <2>1, <2>2
<1> QED
  BY <1>2, <1>3

\* A response takes away the request its answer is saved for, or one that is
\* abandoned.
LEMMA ResponseLosesNone ==
  ASSUME IInv, NEW m \in Ids, RpcResult(m), NEW r \in Requests, Kept(r)
  PROVE  Kept(r)'
<1>1. /\ RequestsAcked({m}, TRUE)
      /\ Abandon(TakenAway({m}, TRUE) \ {WasSent(m)'})
      /\ UNCHANGED <<mainVars, hand>>
  BY DEF RpcResult
<1>2. PICK answer \in Answers : SaveAnswer(WasSent(m)', answer)
  BY DEF RpcResult
<1>3. WasSent(m)' \in Requests \union {None} /\ r # None
  <2>1. IInv'
    BY RpcResultStep
  <2> QED
    BY <2>1, RequestsAssumption DEF IInv, TypeOK, IdMap, WasSent
<1>4. /\ \A i \in DOMAIN haveReceived :
           i \in DOMAIN haveReceived' /\ haveReceived'[i] = haveReceived[i]
      /\ WasSent(m)' = r => \E i \in DOMAIN haveReceived' : haveReceived'[i].request = r
  BY <1>2, <1>3, SavedLosesNone
<1>5. CASE WasSent(m)' = r
  BY <1>4, <1>5 DEF Kept, Located
<1>6. CASE WasSent(m)' # r /\ r \in TakenAway({m}, TRUE)
  BY <1>1, <1>6 DEF Abandon, Kept
<1>7. CASE r \notin TakenAway({m}, TRUE)
  <2>1. /\ r \in toSend => r \in toSend'
        /\ \A n \in Ids : haveSent[n] = r => haveSent'[n] = r
    BY <1>1, <1>7, AckedFacts
  <2>2. abandoned \subseteq abandoned'
    BY <1>1 DEF Abandon
  <2> QED
    BY <1>1, <1>4, <2>1, <2>2, KeptFrame
<1> QED
  BY <1>5, <1>6, <1>7

LEMMA PreparedLosesNone ==
  ASSUME TypeOK, OneOwner, NEW chunk, NEW force, NEW ids, NEW others,
         Sends(chunk, force, ids, others), ~collided',
         UNCHANGED <<mainVars, haveReceived, abandoned>>,
         NEW r \in Requests, Kept(r),
         r \in toSend => r \in toSend' \/ r \in chunk,
         \A p \in hand : p \in hand' \/ p[2] \in chunk
  PROVE  Kept(r)'
<1>0. (\A q \in chunk : ids[q] \in Ids) /\ r # None
  BY RequestsAssumption DEF Sends
<1>1. /\ \A m \in Ids : haveSent[m] # None => \E n \in Ids : haveSent'[n] = haveSent[m]
      /\ \A q \in chunk : haveSent'[ids[q]] = q
  BY PrepareFacts
<1>2. CASE r \in chunk \/ \E m \in Ids : haveSent[m] = r
  BY <1>0, <1>1, <1>2 DEF Kept, Located
<1>3. CASE r \notin chunk /\ \A m \in Ids : haveSent[m] # r
  BY <1>3, KeptFrame
<1> QED
  BY <1>2, <1>3

LEMMA SendLosesNone ==
  ASSUME IInv, OneOwner, ~collided', NEW r \in Requests, Kept(r),
         (\E q \in Requests : SendSingle(q)) \/ FinishSingle \/ SendContainer
  PROVE  Kept(r)'
<1>0. TypeOK
  BY DEF IInv
<1>1. ASSUME NEW q \in Requests, SendSingle(q) PROVE Kept(r)'
  <2>1. hand = {} /\ toSend' = toSend \ {q} /\ hand' = {<<msgIdOf[q], q>>}
        /\ UNCHANGED <<mainVars, haveSent, haveReceived, abandoned>>
    BY <1>1 DEF IInv, Hands, Idle, SendSingle
  <2>2. CASE r = q
    BY <2>1, <2>2 DEF Kept, Located
  <2>3. CASE r # q
    BY <2>1, <2>3, KeptFrame
  <2> QED
    BY <2>2, <2>3
<1>2. ASSUME FinishSingle PROVE Kept(r)'
  <2>1. PICK p \in hand : \E ids \in [{p[2]} -> Ids] :
          hand = {p} /\ Sends({p[2]}, thread = "sendingFirst", ids, {})
    BY <1>2, FinishSingleFacts
  <2>2. PICK ids \in [{p[2]} -> Ids] :
          hand = {p} /\ Sends({p[2]}, thread = "sendingFirst", ids, {})
    BY <2>1
  <2>3. UNCHANGED <<mainVars, toSend, haveReceived, abandoned>>
    BY <1>2 DEF FinishSingle
  <2> QED
    BY <1>0, <2>2, <2>3, PreparedLosesNone
<1>3. ASSUME SendContainer PROVE Kept(r)'
  <2>1. PICK ids \in [Chunk -> Ids], container \in Ids, states \in SUBSET Ids :
          Sends(Chunk, ~markedAsStarted, ids, states \union {container})
    BY <1>3, SendContainerFacts
  <2>2. UNCHANGED <<mainVars, haveReceived, hand, abandoned>> /\ toSend' = toSend \ Chunk
    BY <1>3 DEF SendContainer
  <2> QED
    BY <1>0, <2>1, <2>2, PreparedLosesNone
<1> QED
  BY <1>1, <1>2, <1>3

LEMMA ResendLosesNone ==
  ASSUME IInv, NEW r \in Requests, Kept(r), TakeResent \/ PutResent \/ Connect
  PROVE  Kept(r)'
<1>0. r # None
  BY RequestsAssumption
<1>1. CASE TakeResent
  <2>1. /\ hand = {} /\ UNCHANGED <<mainVars, toSend, haveReceived, abandoned>>
        /\ \/ UNCHANGED <<haveSent, hand>>
           \/ \E m \in Ids : /\ haveSent' = [haveSent EXCEPT ![m] = None]
                             /\ hand' = {<<m, haveSent[m]>>}
    BY <1>1 DEF IInv, TypeOK, Hands, TakeResent
  <2>2. CASE UNCHANGED <<haveSent, hand>>
    BY <2>1, <2>2, KeptFrame
  <2>3. ASSUME NEW m \in Ids, haveSent' = [haveSent EXCEPT ![m] = None],
               hand' = {<<m, haveSent[m]>>}
        PROVE  Kept(r)'
    <3>1. CASE haveSent[m] = r
      BY <2>3, <3>1 DEF Kept, Located
    <3>2. CASE haveSent[m] # r
      <4>1. \A n \in Ids : haveSent[n] = r => haveSent'[n] = r
        BY <2>3, <3>2 DEF IInv, TypeOK, IdMap
      <4> QED
        BY <2>1, <4>1, KeptFrame
    <3> QED
      BY <3>1, <3>2
  <2> QED
    BY <2>1, <2>2, <2>3
<1>2. CASE PutResent
  <2>1. toSend' = toSend \union {p[2] : p \in hand} /\ UNCHANGED <<mainVars, haveReceived, haveSent, abandoned>>
    BY <1>2 DEF PutResent
  <2>2. CASE \E p \in hand : p[2] = r
    BY <2>1, <2>2 DEF Kept, Located
  <2>3. CASE ~\E p \in hand : p[2] = r
    BY <2>1, <2>3, KeptFrame
  <2> QED
    BY <2>2, <2>3
<1>3. CASE Connect
  <2>1. /\ hand = {} /\ hand' = {<<m, haveSent[m]>> : m \in Keys(haveSent)}
        /\ UNCHANGED <<mainVars, toSend, haveReceived, abandoned>>
    BY <1>3 DEF IInv, Hands, Idle, Connect
  <2>2. CASE \E m \in Ids : haveSent[m] = r
    <3>1. PICK m \in Keys(haveSent) : haveSent[m] = r
      BY <1>0, <2>2 DEF Keys
    <3>2. <<m, haveSent[m]>> \in hand' /\ <<m, haveSent[m]>>[2] = r
      BY <2>1, <3>1
    <3> QED
      BY <3>2 DEF Kept, Located
  <2>3. CASE \A m \in Ids : haveSent[m] # r
    BY <2>1, <2>3, KeptFrame
  <2> QED
    BY <2>2, <2>3
<1> QED
  BY <1>1, <1>2, <1>3

LEMMA SessionLosesNone ==
  ASSUME IInv, OneOwner, ~collided', Session \/ Server \/ UNCHANGED vars,
         NEW r \in Requests, Sought(r) => Kept(r), Sought(r)'
  PROVE  Kept(r)'
<1>0. Kept(r) /\ UNCHANGED mainVars
  BY SessionKeepsMain DEF Sought, vars
<1>1. CASE (\E q \in Requests : SendSingle(q)) \/ FinishSingle \/ SendContainer
  BY <1>0, <1>1, SendLosesNone
<1>2. CASE TakeResent \/ PutResent \/ Connect
  BY <1>0, <1>2, ResendLosesNone
<1>3. ASSUME NEW m \in Ids, RpcResult(m) PROVE Kept(r)'
  BY <1>0, <1>3, ResponseLosesNone
<1>4. ASSUME NEW m \in Ids, MsgsAck(m) PROVE Kept(r)'
  BY <1>0, <1>4, AckLosesNone DEF MsgsAck
<1>5. ASSUME NEW s \in Ids, MsgsStateInfo(s) PROVE Kept(r)'
  <2>1. PICK known \in SUBSET (stateRequests[s] \intersect seen) :
          /\ RequestsAcked({s} \union known, FALSE)
          /\ Abandon(TakenAway({s} \union known, FALSE))
    BY <1>5 DEF MsgsStateInfo
  <2>2. {s} \union known \in SUBSET Ids
    BY DEF IInv, TypeOK
  <2>3. UNCHANGED <<haveReceived, hand>>
    BY <1>5 DEF MsgsStateInfo
  <2> QED
    BY <1>0, <2>1, <2>2, <2>3, AckLosesNone
<1>6. ASSUME NEW p \in inFlight, NEW m \in Ids, BadMsgFatal(p, m) PROVE Kept(r)'
  <2>1. SaveAnswer(WasSent(m), "later") /\ UNCHANGED <<toSend, haveSent, hand, abandoned>>
    BY <1>6 DEF BadMsgFatal
  <2>2. WasSent(m) \in Requests \union {None} /\ "later" \in Answers
    BY DEF IInv, TypeOK, IdMap, WasSent, Answers
  <2>3. \A i \in DOMAIN haveReceived : i \in DOMAIN haveReceived' /\ haveReceived'[i] = haveReceived[i]
    BY <2>1, <2>2, SavedLosesNone
  <2> QED
    BY <1>0, <2>1, <2>3, KeptFrame
<1> DEFINE Same == UNCHANGED <<toSend, haveSent, hand, haveReceived, abandoned>>
<1>7. ASSUME Same PROVE Kept(r)'
  BY <1>0, <1>7, KeptFrame
<1>8. ASSUME NEW m \in Ids, ClearOldContainer(m) \/ \E p \in inFlight : BadMsgResend(p, m)
      PROVE  Same
  BY <1>8 DEF ClearOldContainer, BadMsgResend
<1>9. ASSUME SendStateRequest \/ SendNothing \/ CheckSentRequests \/ KeyChanged \/ ClockSetBack
             \/ NewSessionCreated \/ ConnectionLost \/ \E p \in inFlight : BadMsgReset(p)
      PROVE  Same
  BY <1>9 DEF SendStateRequest, SendNothing, CheckSentRequests, KeyChanged, ClockSetBack,
              NewSessionCreated, ConnectionLost, BadMsgReset
<1>10. ASSUME Server \/ UNCHANGED vars PROVE Same
  BY <1>10 DEF Server, ServerReceives, ServerForgets, vars
<1> QED
  BY <1>1, <1>2, <1>3, <1>4, <1>5, <1>6, <1>7, <1>8, <1>9, <1>10 DEF Session, Send

\* A request that is registered and waits for its answer is in a queue that brings
\* it to the server, or its answer is in the one that brings it to the main thread,
\* whatever the threads, the connection, the clock and the server do in between.
\* There are two ways out, and no other: the session has stopped to wait for it
\* (abandoned: an acknowledgement came while its handler was not there, or the
\* response came when its id was cut from _ackedIds), or an id was given while it
\* was in use.
THEOREM RequestsAreNotLost == Spec => []NoLostRequest
<1> DEFINE Inv == IInv /\ Cancelling /\ KeepsAll
<1>1. Init => Inv
  <2> SUFFICES ASSUME Init PROVE Inv
    OBVIOUS
  <2>1. Cancelling /\ KeepsAll
    BY DEF Init, Cancelling, KeepsAll, Sought
  <2> QED
    BY <2>1, InitIInv
<1>2. Inv /\ [Next]_vars => Inv'
  <2> SUFFICES ASSUME Inv, [Next]_vars PROVE Inv'
    OBVIOUS
  <2>1. IInv' /\ Cancelling'
    BY StepIInv, CancellingStep
  <2>2. ASSUME ~collided', NEW r \in Requests, Sought(r)' PROVE Kept(r)'
    <3>1. (Sought(r) => Kept(r)) /\ OneOwner
      BY <2>2, CollidedStays DEF KeepsAll
    <3> QED
      BY <2>2, <3>1, MainLosesNone, SessionLosesNone DEF Next
  <2>3. KeepsAll'
    BY <2>2 DEF KeepsAll
  <2> QED
    BY <2>1, <2>3
<1>3. Inv => NoLostRequest
  <2>1. ASSUME IInv, KeepsAll, ~collided, NEW r \in registered \intersect callbacks
        PROVE  Located(r) \/ r \in abandoned
    BY <2>1 DEF IInv, TypeOK, KeepsAll, Sought, Kept
  <2> QED
    BY <2>1 DEF NoLostRequest
<1> QED
  BY <1>1, <1>2, <1>3, PTL DEF Spec

\* The main thread touches nothing of the session thread and the server.
LEMMA MainKeepsSession ==
  ASSUME Main
  PROVE  UNCHANGED <<sessionVars, serverVars>>
<1>1. ASSUME NEW r \in Requests, SendRequest(r) \/ CancelRequest(r) \/ CheckDelayed(r)
      PROVE  UNCHANGED <<sessionVars, serverVars>>
  BY <1>1 DEF SendRequest, CancelRequest, CheckDelayed
<1> QED
  BY <1>1 DEF Main, GiveToSession, CancelToSend, CancelHaveSent, ProcessCallback, HandleFinal,
              HandleLater, HandleNow, RestoreHandler

-----------------------------------------------------------------------------
(* A session sends only ids of its own *)

\* A request that may be sent under the id it has, and one whose id is of this
\* session, or was left when its first chunk was sent.
MayKeepId(r) == \/ r \in toSend \/ \E m \in Ids : haveSent[m] = r
                \/ thread # "sendingFirst" /\ \E p \in hand : p[2] = r

Own(r) == msgIdOf[r] \in given \union leftIds \union {0}

\* Once a session is marked as started, nothing old is left to send: before that a
\* connection has made everything that was sent wait in toSend, and the first send
\* renews its chunk and leaves the ids of the others.
Marked ==
  /\ markedAsStarted => \A r \in Requests : MayKeepId(r) => Own(r)
  /\ ~markedAsStarted => leftIds = {}
  /\ connected /\ ~markedAsStarted => haveSent = NoIds
  /\ thread \in {"sending", "sendingFirst"} => markedAsStarted

OwnIds == Marked /\ OnlyIdsOfSession

\* A step that gives no ids, and sends nothing.
LEMMA OwnIdsFrame ==
  ASSUME IInv, OwnIds, UNCHANGED <<given, leftIds, markedAsStarted>>,
         \A r \in Requests : msgIdOf'[r] \in {msgIdOf[r], 0},
         \A r \in Requests : MayKeepId(r)' => MayKeepId(r) \/ msgIdOf'[r] = 0,
         connected' => connected \/ haveSent' = NoIds, haveSent = NoIds => haveSent' = NoIds,
         thread' \in {"sending", "sendingFirst"} => thread \in {"sending", "sendingFirst"},
         \A p \in inFlight' : \E q \in inFlight : p.inner \subseteq q.inner
  PROVE  OwnIds'
<1>1. ASSUME NEW r \in Requests, markedAsStarted', MayKeepId(r)' PROVE Own(r)'
  BY <1>1 DEF OwnIds, Marked, Own
<1>2. Marked'
  BY <1>1 DEF OwnIds, Marked
<1>3. OnlyIdsOfSession'
  BY DEF OwnIds, OnlyIdsOfSession
<1> QED
  BY <1>2, <1>3 DEF OwnIds

LEMMA MainKeepsIds ==
  ASSUME Main
  PROVE  UNCHANGED idHistory
<1>1. ASSUME NEW r \in Requests, SendRequest(r) \/ CancelRequest(r) \/ CheckDelayed(r)
      PROVE  UNCHANGED idHistory
  BY <1>1 DEF SendRequest, CancelRequest, CheckDelayed
<1> QED
  BY <1>1 DEF Main, GiveToSession, CancelToSend, CancelHaveSent, ProcessCallback, HandleFinal,
              HandleLater, HandleNow, RestoreHandler

LEMMA OwnIdsMain ==
  ASSUME IInv, OwnIds, Main
  PROVE  OwnIds'
<1>0. UNCHANGED <<sessionVars, serverVars, idHistory>>
  BY MainKeepsSession, MainKeepsIds
<1>1. ASSUME UNCHANGED haveSent,
             \A r \in Requests : msgIdOf'[r] \in {msgIdOf[r], 0},
             \A r \in Requests : r \in toSend' => r \in toSend \/ msgIdOf'[r] = 0
      PROVE  OwnIds'
  <2>1. \A r \in Requests : MayKeepId(r)' => MayKeepId(r) \/ msgIdOf'[r] = 0
    BY <1>0, <1>1 DEF MayKeepId
  <2> QED
    BY <1>0, <1>1, <2>1, OwnIdsFrame
<1>2. ASSUME NEW r \in Requests, SendPrepared(r), UNCHANGED haveSent PROVE OwnIds'
  <2>1. /\ \A q \in Requests : msgIdOf'[q] \in {msgIdOf[q], 0}
        /\ \A q \in Requests : q \in toSend' => q \in toSend \/ msgIdOf'[q] = 0
    BY <1>2 DEF IInv, TypeOK, SendPrepared
  <2> QED
    BY <1>1, <1>2, <2>1
<1>3. ASSUME UNCHANGED <<toSend, haveSent, msgIdOf>> PROVE OwnIds'
  BY <1>1, <1>3
<1>4. ASSUME NEW r \in Requests, SendRequest(r) \/ CancelRequest(r) PROVE OwnIds'
  BY <1>3, <1>4 DEF SendRequest, CancelRequest
<1>5. ASSUME NEW r \in Requests, CheckDelayed(r) PROVE OwnIds'
  BY <1>2, <1>3, <1>5 DEF CheckDelayed
<1>6. CASE GiveToSession \/ HandleNow
  <2>1. mainReq \in Requests
    BY <1>6 DEF IInv, TypeOK, Known, GiveToSession, HandleNow
  <2> QED
    BY <1>2, <1>6, <2>1 DEF GiveToSession, HandleNow
<1>7. CASE CancelToSend
  BY <1>1, <1>7 DEF CancelToSend
<1>8. CASE CancelHaveSent
  <2>1. /\ UNCHANGED <<toSend, msgIdOf>> /\ \A m \in Ids : haveSent'[m] \in {haveSent[m], None}
        /\ haveSent' = [m \in Ids |-> haveSent'[m]]
    BY <1>8 DEF CancelHaveSent
  <2>2. haveSent = NoIds => haveSent' = NoIds
    BY <2>1 DEF NoIds
  <2>3. \A r \in Requests : MayKeepId(r)' => MayKeepId(r)
    BY <1>0, <2>1, RequestsAssumption DEF MayKeepId
  <2> QED
    BY <1>0, <2>1, <2>2, <2>3, OwnIdsFrame
<1>9. CASE ProcessCallback \/ HandleFinal \/ HandleLater \/ RestoreHandler
  BY <1>3, <1>9 DEF ProcessCallback, HandleFinal, HandleLater, RestoreHandler
<1> QED
  BY <1>4, <1>5, <1>6, <1>7, <1>8, <1>9 DEF Main

\* What haveSent gets in a send was in it, or is sent.
LEMMA SentComes ==
  ASSUME TypeOK, NEW chunk, NEW force, NEW ids, NEW others, Sends(chunk, force, ids, others)
  PROVE  \A m \in Ids : \A r \in Requests :
           haveSent'[m] = r => r \in chunk \/ \E n \in Ids : haveSent[n] = r
<1> DEFINE Sent == Moved(haveSent, chunk, ids)
<1>1. haveSent \in IdMap /\ haveSent' = Emplaced(Sent, chunk, ids)
  BY DEF TypeOK, Sends, Prepare
<1>2. /\ Sent \in IdMap
      /\ \A m \in Ids : \/ Sent[m] \in {haveSent[m], None}
                        \/ \E r \in Replaced(chunk, ids) : Sent[m] = haveSent[msgIdOf[r]]
  BY <1>1, MovedTypes
<1>3. \A r \in Replaced(chunk, ids) : msgIdOf[r] \in Ids
  BY DEF Sends, TypeOK, Replaced, Ids
<1> HIDE DEF Sent
<1>4. \A m \in Ids : haveSent'[m] = Sent[m] \/ \E r \in chunk : haveSent'[m] = r
  BY <1>1, <1>2, EmplacedTypes
<1> QED
  BY <1>2, <1>3, <1>4, RequestsAssumption

\* A request whose id is replaced, or is forced to be, has it from the clock.
LEMMA MadeByClock ==
  ASSUME IInv, NEW chunk, NEW force, NEW ids, NEW others, Sends(chunk, force, ids, others),
         NEW r \in chunk, force \/ ids[r] # msgIdOf[r]
  PROVE  ids[r] \in FromClock(chunk, force, ids)
<1>1. CASE ids[r] # msgIdOf[r]
  BY <1>1 DEF FromClock
<1>2. CASE force /\ ids[r] = msgIdOf[r]
  <2>1. ids[r] # 0
    BY DEF Sends, Ids
  <2>2. MustReplace(chunk, force, ids, r)
    BY <1>2, <2>1 DEF MustReplace
  <2>3. \/ Least(msgIdOf[r], Ahead(Before(chunk, r), ids))
        \/ Least(ids[r], Ahead(Before(chunk, r), ids) \ Taken(chunk, r))
    BY <2>1, <2>2, <1>2 DEF Sends, Prepare, Prepared
  <2>4. ids[r] > lastMsgId
    BY <2>3, <1>2 DEF Least, Ahead
  <2> QED
    BY <1>2, <2>4 DEF FromClock
<1> QED
  BY <1>1, <1>2

\* A send under ids of this session: new ones, or those of requests that own theirs.
LEMMA OwnIdsSent ==
  ASSUME IInv, NEW chunk, NEW force, NEW ids, NEW others, Sends(chunk, force, ids, others),
         \A r \in chunk : force \/ Own(r)
  PROVE  /\ ChunkIds(chunk, ids) \subseteq given' \union leftIds
         /\ others \subseteq given' /\ given \subseteq given'
         /\ \A r \in Requests : msgIdOf'[r] = IF r \in chunk THEN ids[r] ELSE msgIdOf[r]
<1>1. /\ \A r \in Requests : msgIdOf'[r] = IF r \in chunk THEN ids[r] ELSE msgIdOf[r]
      /\ given' = given \union FromClock(chunk, force, ids) \union others
      /\ \A r \in chunk : ids[r] \in Ids
  BY DEF Sends, Prepare
<1>2. ASSUME NEW r \in chunk PROVE ids[r] \in given' \union leftIds
  <2>1. CASE force \/ ids[r] # msgIdOf[r]
    <3>1. ids[r] \in FromClock(chunk, force, ids)
      BY <2>1, MadeByClock
    <3> QED
      BY <1>1, <3>1
  <2>2. CASE ~force /\ ids[r] = msgIdOf[r]
    <3>1. msgIdOf[r] \in given \union leftIds \union {0} /\ msgIdOf[r] # 0
      BY <1>1, <2>2 DEF Own, Ids
    <3> QED
      BY <1>1, <2>2, <3>1
  <2> QED
    BY <2>1, <2>2
<1> QED
  BY <1>1, <1>2 DEF ChunkIds

LEMMA OwnIdsFinishSingle ==
  ASSUME IInv, OwnIds, FinishSingle
  PROVE  OwnIds'
<1>0. PICK p \in hand : \E ids \in [{p[2]} -> Ids] :
        /\ hand = {p} /\ p[2] \in Requests
        /\ Sends({p[2]}, thread = "sendingFirst", ids, {})
        /\ inFlight' = inFlight \union {[id |-> ids[p[2]], inner |-> {ids[p[2]]}]}
  BY FinishSingleFacts
<1>1. PICK ids \in [{p[2]} -> Ids] :
        /\ hand = {p} /\ p[2] \in Requests
        /\ Sends({p[2]}, thread = "sendingFirst", ids, {})
        /\ inFlight' = inFlight \union {[id |-> ids[p[2]], inner |-> {ids[p[2]]}]}
  BY <1>0
<1>2. /\ thread' = "idle" /\ hand' = {}
      /\ UNCHANGED <<toSend, connected, markedAsStarted, leftIds>>
  BY DEF FinishSingle
<1>3. markedAsStarted
  BY DEF OwnIds, Marked, FinishSingle
<1>4. \A r \in {p[2]} : thread = "sendingFirst" \/ Own(r)
  BY <1>1, <1>3 DEF OwnIds, Marked, MayKeepId
<1> DEFINE chunk == {p[2]}
           force == thread = "sendingFirst"
<1>5. Sends(chunk, force, ids, {}) /\ \A r \in chunk : force \/ Own(r)
  BY <1>1, <1>4
<1>6. p[2] \in chunk /\ ids[p[2]] \in ChunkIds(chunk, ids)
  BY DEF ChunkIds
<1> HIDE DEF chunk, force
<1>7. /\ ChunkIds(chunk, ids) \subseteq given' \union leftIds /\ given \subseteq given'
      /\ \A r \in Requests : msgIdOf'[r] = IF r \in chunk THEN ids[r] ELSE msgIdOf[r]
  BY <1>5, OwnIdsSent
<1>8. \A m \in Ids : \A r \in Requests :
        haveSent'[m] = r => r \in chunk \/ \E n \in Ids : haveSent[n] = r
  BY <1>5, SentComes DEF IInv
<1>9. ASSUME NEW r \in Requests, MayKeepId(r)' PROVE Own(r)'
  <2>1. r \in chunk \/ r \in toSend \/ \E m \in Ids : haveSent[m] = r
    BY <1>2, <1>8, <1>9 DEF MayKeepId
  <2>2. CASE r \in chunk
    <3>1. ids[r] \in ChunkIds(chunk, ids)
      BY <2>2 DEF ChunkIds
    <3> QED
      BY <1>2, <1>7, <2>2, <3>1 DEF Own
  <2>3. CASE r \notin chunk
    BY <1>2, <1>3, <1>7, <2>1, <2>3 DEF OwnIds, Marked, MayKeepId, Own
  <2> QED
    BY <2>2, <2>3
<1>10. Marked'
  BY <1>2, <1>3, <1>9 DEF Marked
<1>11. OnlyIdsOfSession'
  BY <1>1, <1>2, <1>6, <1>7 DEF OwnIds, OnlyIdsOfSession
<1> QED
  BY <1>10, <1>11 DEF OwnIds

\* What the first chunk of a session leaves waits in toSend.
LEMMA LeftFacts ==
  ASSUME IInv, Marked, Idle, connected, NEW chunk, LeaveIds(chunk)
  PROVE  /\ leftIds \subseteq leftIds' /\ (markedAsStarted => leftIds' = leftIds)
         /\ \A r \in Requests : r \notin chunk /\ MayKeepId(r) => msgIdOf[r] \in given \union leftIds' \union {0}
<1>1. hand = {}
  BY DEF IInv, Hands, Idle
<1>2. CASE markedAsStarted
  BY <1>2 DEF Marked, Own, LeaveIds
<1>3. CASE ~markedAsStarted
  <2>1. \A m \in Ids : haveSent[m] = None
    BY <1>3 DEF Marked, NoIds
  <2>2. ASSUME NEW r \in Requests, r \notin chunk, MayKeepId(r)
        PROVE  msgIdOf[r] \in leftIds' \union {0}
    <3>1. r \in toSend \ chunk
      BY <1>1, <2>1, <2>2, RequestsAssumption DEF MayKeepId
    <3> QED
      BY <1>3, <3>1 DEF LeaveIds
  <2> QED
    BY <1>3, <2>2 DEF Marked
<1> QED
  BY <1>2, <1>3

LEMMA OwnIdsSendContainer ==
  ASSUME IInv, OwnIds, SendContainer
  PROVE  OwnIds'
<1> DEFINE force == ~markedAsStarted
<1>1. PICK ids \in [Chunk -> Ids], container \in Ids, states \in SUBSET Ids :
        /\ Sends(Chunk, force, ids, states \union {container})
        /\ inFlight' = inFlight \union
             {[id |-> container, inner |-> ChunkIds(Chunk, ids) \union states]}
  BY SendContainerFacts
<1>2. /\ Idle /\ connected /\ toSend' = toSend \ Chunk /\ markedAsStarted' = TRUE
      /\ LeaveIds(Chunk) /\ UNCHANGED <<thread, hand, connected>>
      /\ hand = {} /\ thread = "idle"
  BY DEF IInv, Hands, Idle, SendContainer
<1>3. \A r \in Chunk : force \/ Own(r)
  BY ChunkFacts DEF IInv, OwnIds, Marked, MayKeepId
<1>4. /\ leftIds \subseteq leftIds' /\ (markedAsStarted => leftIds' = leftIds)
      /\ \A r \in Requests : r \notin Chunk /\ MayKeepId(r) =>
           msgIdOf[r] \in given \union leftIds' \union {0}
  BY <1>2, LeftFacts DEF OwnIds
<1>5. ~force => leftIds' = leftIds
  BY <1>4
<1>6. /\ ChunkIds(Chunk, ids) \subseteq given' \union leftIds
      /\ states \union {container} \subseteq given' /\ given \subseteq given'
      /\ \A r \in Requests : msgIdOf'[r] = IF r \in Chunk THEN ids[r] ELSE msgIdOf[r]
  BY <1>1, <1>3, OwnIdsSent
<1>7. ChunkIds(Chunk, ids) \subseteq given' \union leftIds'
  <2>1. CASE force
    <3>1. \A r \in Chunk : ids[r] \in FromClock(Chunk, force, ids)
      BY <1>1, <2>1, MadeByClock
    <3> QED
      BY <1>1, <3>1 DEF Sends, Prepare, ChunkIds
  <2> QED
    BY <1>5, <1>6, <2>1
<1>8. \A m \in Ids : \A r \in Requests :
        haveSent'[m] = r => r \in Chunk \/ \E n \in Ids : haveSent[n] = r
  BY <1>1, SentComes DEF IInv
<1>9. ASSUME NEW r \in Requests, MayKeepId(r)' PROVE Own(r)'
  <2>1. r \in Chunk \/ MayKeepId(r)
    BY <1>2, <1>8, <1>9 DEF MayKeepId
  <2>2. CASE r \in Chunk
    <3>1. ids[r] \in ChunkIds(Chunk, ids)
      BY <2>2 DEF ChunkIds
    <3> QED
      BY <1>6, <1>7, <2>2, <3>1 DEF Own
  <2>3. CASE r \notin Chunk
    BY <1>4, <1>6, <2>1, <2>3 DEF Own
  <2> QED
    BY <2>2, <2>3
<1>10. Marked'
  BY <1>2, <1>9 DEF Marked
<1>11. OnlyIdsOfSession'
  BY <1>1, <1>4, <1>6, <1>7 DEF OwnIds, OnlyIdsOfSession
<1> QED
  BY <1>10, <1>11 DEF OwnIds

\* The other sends: of a single request, of a request for states, and of nothing.
LEMMA OwnIdsOtherSends ==
  ASSUME IInv, OwnIds,
         (\E r \in Requests : SendSingle(r)) \/ SendStateRequest \/ SendNothing
  PROVE  OwnIds'
<1>1. ASSUME NEW chunk, LeaveIds(chunk), Idle, connected, markedAsStarted' = TRUE,
             UNCHANGED <<haveSent, msgIdOf>>, given \subseteq given',
             \A r \in Requests : MayKeepId(r)' => MayKeepId(r),
             markedAsStarted \/ \A r \in Requests : MayKeepId(r)' => r \notin chunk,
             \A p \in inFlight' : p \in inFlight \/ p.inner \subseteq given'
      PROVE  OwnIds'
  <2>1. /\ leftIds \subseteq leftIds' /\ (markedAsStarted => leftIds' = leftIds)
        /\ \A r \in Requests : r \notin chunk /\ MayKeepId(r) =>
             msgIdOf[r] \in given \union leftIds' \union {0}
    BY <1>1, LeftFacts DEF OwnIds
  <2>2. ASSUME NEW r \in Requests, MayKeepId(r)' PROVE Own(r)'
    <3>1. CASE markedAsStarted
      BY <1>1, <2>1, <2>2, <3>1 DEF OwnIds, Marked, Own
    <3>2. CASE ~markedAsStarted
      BY <1>1, <2>1, <2>2, <3>2 DEF Own
    <3> QED
      BY <3>1, <3>2
  <2>3. Marked'
    BY <1>1, <2>2 DEF Marked
  <2>4. OnlyIdsOfSession'
    BY <1>1, <2>1 DEF OwnIds, OnlyIdsOfSession
  <2> QED
    BY <2>3, <2>4 DEF OwnIds
<1>2. ASSUME NEW q \in Requests, SendSingle(q) PROVE OwnIds'
  <2>1. /\ q \in toSend /\ toSend' = toSend \ {q} /\ hand' = {<<msgIdOf[q], q>>}
        /\ thread' = (IF markedAsStarted THEN "sending" ELSE "sendingFirst")
        /\ Idle /\ connected /\ markedAsStarted' = TRUE /\ LeaveIds({q})
        /\ UNCHANGED <<haveSent, msgIdOf, given, inFlight>>
    BY <1>2, ChunkFacts DEF IInv, SendSingle
  <2>2. \A r \in Requests : MayKeepId(r)' => MayKeepId(r)
    BY <2>1 DEF MayKeepId
  <2>3. CASE markedAsStarted
    BY <1>1, <2>1, <2>2, <2>3
  <2>4. CASE ~markedAsStarted
    <3>1. \A m \in Ids : haveSent[m] = None
      BY <2>1, <2>4 DEF OwnIds, Marked, NoIds
    <3>2. \A r \in Requests : MayKeepId(r)' => r \notin {q}
      BY <2>1, <2>4, <3>1, RequestsAssumption DEF MayKeepId
    <3> QED
      BY <1>1, <2>1, <2>2, <3>2
  <2> QED
    BY <2>3, <2>4
<1>3. CASE SendStateRequest \/ SendNothing
  <2>1. /\ Idle /\ connected /\ markedAsStarted' = TRUE /\ LeaveIds({})
        /\ UNCHANGED <<toSend, hand, thread, haveSent, msgIdOf>> /\ given \subseteq given'
        /\ \A p \in inFlight' : p \in inFlight \/ p.inner \subseteq given'
    BY <1>3 DEF SendStateRequest, SendNothing
  <2>2. \A r \in Requests : MayKeepId(r)' => MayKeepId(r)
    BY <2>1 DEF MayKeepId
  <2> QED
    BY <1>1, <2>1, <2>2
<1> QED
  BY <1>2, <1>3

LEMMA OwnIdsResend ==
  ASSUME IInv, OwnIds, TakeResent \/ PutResent \/ Connect
  PROVE  OwnIds'
<1>1. UNCHANGED <<given, leftIds, markedAsStarted, msgIdOf, inFlight>>
  BY DEF TakeResent, PutResent, Connect
<1>2. CASE TakeResent
  <2>1. /\ thread = "idle" /\ toResend \subseteq Ids
        /\ UNCHANGED <<toSend, connected>>
        /\ \E m \in toResend :
             IF haveSent[m] = None
               THEN UNCHANGED <<haveSent, hand, thread>>
               ELSE /\ haveSent' = [haveSent EXCEPT ![m] = None]
                    /\ hand' = {<<m, haveSent[m]>>} /\ thread' = "resending"
    BY <1>2 DEF IInv, TypeOK, TakeResent
  <2>2. CASE UNCHANGED <<haveSent, hand, thread>>
    <3>1. \A r \in Requests : MayKeepId(r)' => MayKeepId(r)
      BY <2>1, <2>2 DEF MayKeepId
    <3> QED
      BY <1>1, <2>1, <2>2, <3>1, OwnIdsFrame
  <2>3. ASSUME NEW m \in Ids, haveSent[m] # None, haveSent' = [haveSent EXCEPT ![m] = None],
               hand' = {<<m, haveSent[m]>>}, thread' = "resending"
        PROVE  OwnIds'
    <3>1. \A n \in Ids : haveSent'[n] \in {haveSent[n], None}
      BY <2>3 DEF IInv, TypeOK, IdMap
    <3>2. \A r \in Requests : MayKeepId(r)' => MayKeepId(r)
      BY <2>1, <2>3, <3>1, RequestsAssumption DEF MayKeepId
    <3>3. haveSent # NoIds
      BY <2>3 DEF NoIds
    <3> QED
      BY <1>1, <2>1, <2>3, <3>2, <3>3, OwnIdsFrame
  <2> QED
    BY <2>1, <2>2, <2>3
<1>3. CASE PutResent
  <2>1. /\ thread = "resending" /\ thread' = "idle" /\ hand' = {} /\ UNCHANGED <<haveSent, connected>>
        /\ toSend' = toSend \union {p[2] : p \in hand}
    BY <1>3 DEF PutResent
  <2>2. \A r \in Requests : MayKeepId(r)' => MayKeepId(r)
    BY <2>1 DEF MayKeepId
  <2> QED
    BY <1>1, <2>1, <2>2, OwnIdsFrame
<1>4. CASE Connect
  <2>1. /\ haveSent' = NoIds /\ thread' = "resending" /\ UNCHANGED toSend
        /\ \A p \in hand' : p[2] = haveSent[p[1]] /\ p[1] \in Ids
    BY <1>4 DEF Keys, Connect
  <2>2. \A r \in Requests : MayKeepId(r)' => MayKeepId(r)
    BY <2>1, RequestsAssumption DEF MayKeepId, NoIds
  <2> QED
    BY <1>1, <2>1, <2>2, OwnIdsFrame
<1> QED
  BY <1>2, <1>3, <1>4

\* What acknowledgements take away leaves less to send.
LEMMA OwnIdsAcked ==
  ASSUME IInv, OwnIds, NEW S \in SUBSET Ids, NEW byResponse \in BOOLEAN,
         RequestsAcked(S, byResponse),
         UNCHANGED <<msgIdOf, thread, hand, given, leftIds, markedAsStarted, connected, inFlight>>
  PROVE  OwnIds'
<1>1. /\ \A m \in Ids : haveSent'[m] \in {haveSent[m], None}
      /\ toSend' \subseteq toSend
  BY RequestsAckedFacts DEF IInv
<1>2. \A r \in Requests : MayKeepId(r)' => MayKeepId(r)
  BY <1>1, RequestsAssumption DEF MayKeepId
<1>3. haveSent = NoIds => haveSent' = NoIds
  <2>1. haveSent' = [m \in Ids |-> haveSent'[m]]
    BY DEF RequestsAcked
  <2> QED
    BY <1>1, <2>1 DEF NoIds
<1> QED
  BY <1>2, <1>3, OwnIdsFrame

LEMMA OwnIdsReceive ==
  ASSUME IInv, OwnIds, NEW m \in Ids, RpcResult(m) \/ MsgsAck(m) \/ MsgsStateInfo(m)
  PROVE  OwnIds'
<1>1. UNCHANGED <<msgIdOf, thread, hand, given, leftIds, markedAsStarted, connected, inFlight>>
  BY DEF RpcResult, MsgsAck, MsgsStateInfo
<1>2. \E S \in SUBSET Ids, byResponse \in BOOLEAN : RequestsAcked(S, byResponse)
  <2>1. CASE RpcResult(m) \/ MsgsAck(m)
    BY <2>1 DEF RpcResult, MsgsAck
  <2>2. CASE MsgsStateInfo(m)
    <3>1. PICK known \in SUBSET (stateRequests[m] \intersect seen) :
            RequestsAcked({m} \union known, FALSE)
      BY <2>2 DEF MsgsStateInfo
    <3>2. {m} \union known \in SUBSET Ids
      BY DEF IInv, TypeOK
    <3> QED
      BY <3>1, <3>2
  <2> QED
    BY <2>1, <2>2
<1> QED
  BY <1>1, <1>2, OwnIdsAcked

\* Nothing of another session is in flight when a session starts, nor marked.
LEMMA OwnIdsNewSession ==
  ASSUME IInv, OwnIds, NewSessionId, thread = "idle", UNCHANGED thread
  PROVE  OwnIds'
  BY DEF OwnIds, Marked, OnlyIdsOfSession, NewSessionId

LEMMA OwnIdsStep ==
  ASSUME IInv, OwnIds, [Next]_vars
  PROVE  OwnIds'
<1>1. ASSUME UNCHANGED <<toSend, haveSent, msgIdOf, thread, hand, given, leftIds, markedAsStarted>>,
             connected' => connected,
             \A p \in inFlight' : \E q \in inFlight : p.inner \subseteq q.inner
      PROVE  OwnIds'
  <2>1. \A r \in Requests : MayKeepId(r)' => MayKeepId(r)
    BY <1>1 DEF MayKeepId
  <2> QED
    BY <1>1, <2>1, OwnIdsFrame
<1>2. ASSUME NEW m \in Ids, ClearOldContainer(m) PROVE OwnIds'
  BY <1>1, <1>2 DEF ClearOldContainer
<1>3. ASSUME NEW p \in inFlight, NEW m \in Ids, BadMsgResend(p, m) \/ BadMsgFatal(p, m)
      PROVE  OwnIds'
  <2>1. \A q \in inFlight' : \E o \in inFlight : q.id = o.id /\ q.inner \subseteq o.inner
    BY <1>3, RejectFacts DEF BadMsgResend, BadMsgFatal
  <2> QED
    BY <1>1, <1>3, <2>1 DEF BadMsgResend, BadMsgFatal
<1>4. CASE KeyChanged \/ \E p \in inFlight : BadMsgReset(p)
  BY <1>4, OwnIdsNewSession DEF KeyChanged, BadMsgReset, Idle
<1>5. CASE CheckSentRequests \/ ClockSetBack \/ NewSessionCreated \/ ConnectionLost
           \/ UNCHANGED vars
  BY <1>1, <1>5 DEF CheckSentRequests, ClockSetBack, NewSessionCreated, ConnectionLost, vars
<1>6. CASE Server
  BY <1>1, <1>6 DEF Server, ServerReceives, ServerForgets
<1> QED
  BY <1>2, <1>3, <1>4, <1>5, <1>6, OwnIdsMain, OwnIdsFinishSingle, OwnIdsSendContainer,
     OwnIdsOtherSends, OwnIdsResend, OwnIdsReceive DEF Next, Session, Send

\* Nothing is sent in a session under a message id of the session before it: not
\* what was in haveSent when the session was changed, not what was being sent or
\* resent, and not what came in between.  The exception are the old ids of requests
\* the first chunk of the session did not reach, where one fills a container.
THEOREM SessionsSendOwnIds == Spec => []OnlyIdsOfSession
<1> DEFINE Inv == IInv /\ OwnIds
<1>1. Init => Inv
  BY InitIInv DEF Init, OwnIds, Marked, OnlyIdsOfSession
<1>2. Inv /\ [Next]_vars => Inv'
  BY StepIInv, OwnIdsStep
<1>3. Inv => OnlyIdsOfSession
  BY DEF OwnIds
<1> QED
  BY <1>1, <1>2, <1>3, PTL DEF Spec

-----------------------------------------------------------------------------
(* A request that is sent alone has had no id *)

\* Where a request that was never resent can be: with the main thread, waiting for
\* its delay, in toSend, in the hand of a single send, in haveReceived, or with the
\* server or on the way to it.
OnMain(r) == main \in {"send"} \union Answers /\ mainReq = r
Single(r) == thread \in {"sending", "sendingFirst"} /\ \E p \in hand : p[2] = r
Received(r) == \E i \in DOMAIN haveReceived : haveReceived[i].request = r
OnNet(r, m) == WasSent(m) = r /\ (m \in answers \/ \E p \in inFlight : m \in p.inner)

In(r, k) == \/ k = 1 /\ OnMain(r)
            \/ k = 2 /\ r \in delayed
            \/ k = 3 /\ r \in toSend
            \/ k = 4 /\ Single(r)
            \/ k = 5 /\ Received(r)
            \/ k = 6 /\ \E m \in Ids : OnNet(r, m)

\* It is in one of these places, and there once.
InOne(r) == \A j, k \in 1..6 : In(r, j) /\ In(r, k) => j = k

ReceivedOnce(r) == \A i, j \in DOMAIN haveReceived :
  haveReceived[i].request = r /\ haveReceived[j].request = r => i = j

SentOnce(r) ==
  /\ \A m, n \in Ids : OnNet(r, m) /\ OnNet(r, n) => m = n
  /\ \A m \in Ids : WasSent(m) = r =>
       /\ \A p, q \in inFlight : m \in p.inner /\ m \in q.inner => p = q
       /\ \A p \in inFlight : m \in p.inner => m \notin seen

Lone(r) == InOne(r) /\ ReceivedOnce(r) /\ SentOnce(r)

\* A packet that is not its own message has an id of no request.
PacketIds == \A p \in inFlight : p.id \notin p.inner => \A r \in Requests : ~Owns(r, p.id)

ResentIsForced == \A m \in Ids : resendingIds[m] # None => resendingIds[m] \in forced

HandIsFresh == thread \in {"sending", "sendingFirst"} =>
                 \A p \in hand : msgIdOf[p[2]] = 0 /\ p[2] \notin forced

SendsAreFresh == \A r \in toSend \ forced : msgIdOf[r] = 0

Lonely == /\ \A r \in Requests \ forced : Lone(r)
          /\ ResentIsForced /\ HandIsFresh /\ SendsAreFresh

\* The request an id was used for is the one that any of the three maps has.
LEMMA WasSentIsOwner ==
  ASSUME IInv, OneOwner, NEW m \in Ids, NEW r \in Requests
  PROVE  /\ WasSent(m) = r <=> haveSent[m] = r \/ resendingIds[m] = r \/ ackedIds[m] = r
         /\ WasSent(m) = r => Owns(r, m)
<1>1. /\ haveSent[m] \in Requests \union {None} /\ resendingIds[m] \in Requests \union {None}
      /\ ackedIds[m] \in Requests \union {None} /\ None \notin Requests
  BY RequestsAssumption DEF IInv, TypeOK, IdMap
<1>2. /\ haveSent[m] # None => Owns(haveSent[m], m)
      /\ resendingIds[m] # None => Owns(resendingIds[m], m)
      /\ ackedIds[m] # None => Owns(ackedIds[m], m)
  BY DEF Owns
<1>3. \A q, x \in Requests : Owns(q, m) /\ Owns(x, m) => q = x
  BY DEF OneOwner
<1> QED
  BY <1>1, <1>2, <1>3 DEF WasSent

LEMMA WasSentFrame ==
  ASSUME IInv, OneOwner, NEW r \in Requests,
         \A m \in Ids : \/ haveSent'[m] = r => WasSent(m) = r
                        \/ haveSent'[m] \in {haveSent[m], resendingIds[m], ackedIds[m], None},
         \A m \in Ids : resendingIds'[m] \in {haveSent[m], resendingIds[m], ackedIds[m], None},
         \A m \in Ids : ackedIds'[m] \in {haveSent[m], resendingIds[m], ackedIds[m], None}
  PROVE  \A m \in Ids : WasSent(m)' = r => WasSent(m) = r
<1> SUFFICES ASSUME NEW m \in Ids, WasSent(m)' = r PROVE WasSent(m) = r
  OBVIOUS
<1>1. haveSent'[m] = r \/ resendingIds'[m] = r \/ ackedIds'[m] = r
  BY DEF WasSent
<1>2. WasSent(m) = r \/ haveSent[m] = r \/ resendingIds[m] = r \/ ackedIds[m] = r
  BY <1>1, RequestsAssumption
<1> QED
  BY <1>2, WasSentIsOwner

\* What leaves the network, and a request whose ids leave the maps.
LEMMA SentFrame ==
  ASSUME NEW r \in Requests, SentOnce(r),
         \A m \in Ids : WasSent(m)' = r => WasSent(m) = r,
         inFlight' \subseteq inFlight, answers' \subseteq answers, seen' \subseteq seen
  PROVE  SentOnce(r)' /\ \A m \in Ids : OnNet(r, m)' => OnNet(r, m)
<1>1. \A m \in Ids : OnNet(r, m)' => OnNet(r, m)
  BY DEF OnNet
<1>2. \A m, n \in Ids : OnNet(r, m)' /\ OnNet(r, n)' => m = n
  BY <1>1 DEF SentOnce
<1>3. \A m \in Ids : WasSent(m)' = r =>
        /\ \A p, q \in inFlight' : m \in p.inner /\ m \in q.inner => p = q
        /\ \A p \in inFlight' : m \in p.inner => m \notin seen'
  BY DEF SentOnce
<1> QED
  BY <1>1, <1>2, <1>3 DEF SentOnce

LEMMA InOneFrame ==
  ASSUME NEW r \in Requests, InOne(r), \A k \in 1..6 : In(r, k)' => In(r, k)
  PROVE  InOne(r)'
  BY DEF InOne

LEMMA InOneMoved ==
  ASSUME NEW r \in Requests, InOne(r), NEW a \in 1..6, NEW b \in 1..6, In(r, a),
         \A k \in 1..6 : In(r, k)' => (In(r, k) /\ k # a) \/ k = b
  PROVE  InOne(r)'
<1>1. \A k \in 1..6 : In(r, k)' => k = b
  BY DEF InOne
<1> QED
  BY <1>1 DEF InOne

\* A request is nowhere before it is given to sendRequest.
LEMMA NotStarted ==
  ASSUME IInv, main = "idle", NEW r \in Requests, r \notin started
  PROVE  \A k \in 1..6 : ~In(r, k)
<1>1. ~OnMain(r) /\ r \notin delayed /\ r \notin toSend /\ ~Single(r) /\ ~Received(r)
  BY DEF IInv, TypeOK, Known, OnMain, Single, Received, Answers
<1>2. \A m \in Ids : WasSent(m) # r
  BY WasSentFacts, RequestsAssumption DEF IInv
<1>3. \A m \in Ids : ~OnNet(r, m)
  BY <1>2 DEF OnNet
<1> QED
  BY <1>1, <1>3 DEF In

\* In a step of the main thread what was sent stays, but for what it cancels.
LEMMA MainKeepsSent ==
  ASSUME IInv, OneOwner, Lonely, Main, NEW r \in Requests \ forced
  PROVE  SentOnce(r)' /\ (\A m \in Ids : OnNet(r, m)' => OnNet(r, m)) /\ (Single(r)' <=> Single(r))
<1>1. UNCHANGED <<sessionVars, serverVars>>
  BY MainKeepsSession
<1>2. \A m \in Ids : haveSent'[m] \in {haveSent[m], None}
  BY DEF Main, SendRequest, CancelRequest, CheckDelayed, GiveToSession, CancelToSend,
         CancelHaveSent, ProcessCallback, HandleFinal, HandleLater, HandleNow, RestoreHandler
<1>3. \A m \in Ids : WasSent(m)' = r => WasSent(m) = r
  BY <1>1, <1>2, WasSentFrame
<1>4. Single(r)' <=> Single(r)
  BY <1>1 DEF Single
<1>5. SentOnce(r)
  BY DEF Lonely, Lone
<1> QED
  BY <1>1, <1>3, <1>4, <1>5, SentFrame

LEMMA LoneMain ==
  ASSUME IInv, OneOwner, Lonely, Main, NEW r \in Requests \ forced
  PROVE  Lone(r)'
<1>0. /\ SentOnce(r)' /\ (\A m \in Ids : OnNet(r, m)' => OnNet(r, m)) /\ (Single(r)' <=> Single(r))
      /\ InOne(r) /\ ReceivedOnce(r)
  BY MainKeepsSent DEF Lonely, Lone
<1>1. ASSUME UNCHANGED haveReceived, InOne(r)' PROVE Lone(r)'
  BY <1>0, <1>1 DEF Lone, ReceivedOnce
<1>2. ASSUME UNCHANGED haveReceived,
             OnMain(r)' => OnMain(r), r \in delayed' => r \in delayed, r \in toSend' => r \in toSend
      PROVE  Lone(r)'
  <2>1. \A k \in 1..6 : In(r, k)' => In(r, k)
    BY <1>0, <1>2 DEF In, Received
  <2> QED
    BY <1>0, <1>1, <1>2, <2>1, InOneFrame
<1>3. ASSUME NEW q \in Requests, SendRequest(q) PROVE Lone(r)'
  <2>1. CASE r = q
    <3>1. \A k \in 1..6 : ~In(r, k)
      BY <1>3, <2>1, NotStarted DEF SendRequest
    <3>2. \A k \in 1..6 : In(r, k)' => k = 1
      <4>1. r \notin delayed /\ r \notin toSend /\ ~Single(r) /\ ~Received(r)
            /\ \A m \in Ids : ~OnNet(r, m)
        BY <3>1 DEF In
      <4> QED
        BY <1>0, <1>3, <4>1 DEF In, Received, SendRequest
    <3>3. InOne(r)'
      BY <3>2 DEF InOne
    <3> QED
      BY <1>1, <1>3, <3>3 DEF SendRequest
  <2>2. CASE r # q
    BY <1>2, <1>3, <2>2 DEF SendRequest, OnMain
  <2> QED
    BY <2>1, <2>2
<1>4. ASSUME NEW q \in Requests, CancelRequest(q) PROVE Lone(r)'
  BY <1>2, <1>4 DEF CancelRequest, OnMain, Answers
<1>5. ASSUME NEW q \in Requests, CheckDelayed(q) PROVE Lone(r)'
  <2>1. CASE r = q /\ q \in registered
    <3>1. In(r, 2)
      BY <1>5, <2>1 DEF In, CheckDelayed
    <3>2. r \notin delayed' /\ OnMain(r)' = OnMain(r) /\ UNCHANGED haveReceived
      BY <1>5, <2>1 DEF CheckDelayed, OnMain
    <3>3. \A k \in 1..6 : In(r, k)' => (In(r, k) /\ k # 2) \/ k = 3
      BY <1>0, <3>2 DEF In, Received
    <3> QED
      BY <1>0, <1>1, <3>1, <3>2, <3>3, InOneMoved
  <2>2. CASE ~(r = q /\ q \in registered)
    BY <1>2, <1>5, <2>2 DEF CheckDelayed, SendPrepared, OnMain
  <2> QED
    BY <2>1, <2>2
<1>6. CASE GiveToSession \/ HandleNow
  <2>1. /\ SendPrepared(mainReq) /\ main \in {"send"} \union Answers
        /\ main' \in {"idle", "restore"} /\ UNCHANGED <<haveReceived, delayed>>
    BY <1>6 DEF GiveToSession, HandleNow, Answers
  <2>2. ~OnMain(r)'
    BY <2>1 DEF OnMain, Answers
  <2>3. CASE r = mainReq
    <3>1. In(r, 1)
      BY <2>1, <2>3 DEF In, OnMain
    <3>2. \A k \in 1..6 : In(r, k)' => (In(r, k) /\ k # 1) \/ k = 3
      BY <1>0, <2>1, <2>2 DEF In, Received
    <3> QED
      BY <1>0, <1>1, <2>1, <3>1, <3>2, InOneMoved
  <2>4. CASE r # mainReq
    BY <1>2, <2>1, <2>2, <2>4 DEF SendPrepared
  <2> QED
    BY <2>3, <2>4
<1>7. CASE CancelToSend \/ CancelHaveSent
  BY <1>2, <1>7 DEF CancelToSend, CancelHaveSent, OnMain, Answers
<1>8. CASE HandleFinal \/ RestoreHandler
  BY <1>2, <1>8 DEF HandleFinal, RestoreHandler, OnMain, Answers
<1>9. CASE HandleLater
  <2>1. ~OnMain(r)' /\ UNCHANGED <<haveReceived, toSend>>
    BY <1>9 DEF HandleLater, OnMain, Answers
  <2>2. CASE r = mainReq
    <3>1. In(r, 1)
      BY <1>9, <2>2 DEF In, OnMain, HandleLater, Answers
    <3>2. \A k \in 1..6 : In(r, k)' => (In(r, k) /\ k # 1) \/ k = 2
      BY <1>0, <2>1 DEF In, Received
    <3> QED
      BY <1>0, <1>1, <2>1, <3>1, <3>2, InOneMoved
  <2>3. CASE r # mainReq
    BY <1>2, <1>9, <2>1, <2>3 DEF HandleLater
  <2> QED
    BY <2>2, <2>3
<1>10. CASE ProcessCallback
  <2>1. /\ 1 \in DOMAIN haveReceived /\ Head(haveReceived) = haveReceived[1]
        /\ \A i \in DOMAIN haveReceived' : /\ i + 1 \in DOMAIN haveReceived
                                           /\ haveReceived'[i] = haveReceived[i + 1]
        /\ DOMAIN haveReceived' \subseteq Nat \ {0}
    BY <1>10, TakenFacts, LenProperties
  <2>2. ReceivedOnce(r)'
    <3> SUFFICES ASSUME NEW i \in DOMAIN haveReceived', NEW j \in DOMAIN haveReceived',
                        haveReceived'[i].request = r, haveReceived'[j].request = r
                 PROVE  i = j
      BY DEF ReceivedOnce
    <3>1. i + 1 = j + 1
      BY <1>0, <2>1 DEF ReceivedOnce
    <3> QED
      BY <2>1, <3>1
  <2>3. /\ main = "idle" /\ UNCHANGED <<delayed, toSend>> /\ (Received(r)' => Received(r))
        /\ main' = "idle" \/ mainReq' = Head(haveReceived).request
    <3>1. Received(r)' => Received(r)
      BY <2>1 DEF Received
    <3> QED
      BY <1>10, <3>1 DEF ProcessCallback
  <2>4. CASE r = Head(haveReceived).request
    <3>1. In(r, 5)
      BY <2>1, <2>4 DEF In, Received
    <3>2. ~Received(r)'
      <4>1. \A i \in DOMAIN haveReceived' : i + 1 # 1
        BY <2>1
      <4> QED
        BY <1>0, <2>1, <2>4, <4>1 DEF Received, ReceivedOnce
    <3>3. \A k \in 1..6 : In(r, k)' => (In(r, k) /\ k # 5) \/ k = 1
      BY <1>0, <2>3, <3>2 DEF In
    <3>4. InOne(r)'
      BY <1>0, <3>1, <3>3, InOneMoved
    <3> QED
      BY <1>0, <2>2, <3>4 DEF Lone
  <2>5. CASE r # Head(haveReceived).request
    <3>1. ~OnMain(r)'
      BY <2>3, <2>5 DEF OnMain, Answers
    <3>2. \A k \in 1..6 : In(r, k)' => In(r, k)
      BY <1>0, <2>3, <3>1 DEF In
    <3>3. InOne(r)'
      BY <1>0, <3>2, InOneFrame
    <3> QED
      BY <1>0, <2>2, <3>3 DEF Lone
  <2> QED
    BY <2>4, <2>5
<1> QED
  BY <1>3, <1>4, <1>5, <1>6, <1>7, <1>8, <1>9, <1>10 DEF Main

LEMMA LonelyMain ==
  ASSUME IInv, OneOwner, Lonely, Main
  PROVE  Lonely'
<1>1. UNCHANGED <<sessionVars, serverVars, forced>>
  <2>1. UNCHANGED forced
    BY DEF Main, SendRequest, CancelRequest, CheckDelayed, GiveToSession, CancelToSend,
           CancelHaveSent, ProcessCallback, HandleFinal, HandleLater, HandleNow, RestoreHandler
  <2> QED
    BY <2>1, MainKeepsSession
<1>2. /\ \A r \in Requests : msgIdOf'[r] \in {msgIdOf[r], 0}
      /\ \A r \in Requests : r \in toSend' => r \in toSend \/ msgIdOf'[r] = 0
  <2>1. ASSUME NEW q \in Requests, SendPrepared(q)
        PROVE  /\ \A r \in Requests : msgIdOf'[r] \in {msgIdOf[r], 0}
               /\ \A r \in Requests : r \in toSend' => r \in toSend \/ msgIdOf'[r] = 0
    BY <2>1 DEF IInv, TypeOK, SendPrepared
  <2>2. CASE GiveToSession \/ HandleNow
    <3>1. mainReq \in Requests
      BY <2>2 DEF IInv, TypeOK, Known, GiveToSession, HandleNow
    <3> QED
      BY <2>1, <2>2, <3>1 DEF GiveToSession, HandleNow
  <2>3. ASSUME NEW q \in Requests, CheckDelayed(q)
        PROVE  /\ \A r \in Requests : msgIdOf'[r] \in {msgIdOf[r], 0}
               /\ \A r \in Requests : r \in toSend' => r \in toSend \/ msgIdOf'[r] = 0
    BY <2>1, <2>3 DEF CheckDelayed
  <2>4. ASSUME toSend' \subseteq toSend, UNCHANGED msgIdOf
        PROVE  /\ \A r \in Requests : msgIdOf'[r] \in {msgIdOf[r], 0}
               /\ \A r \in Requests : r \in toSend' => r \in toSend \/ msgIdOf'[r] = 0
    BY <2>4
  <2>5. ASSUME Main, ~GiveToSession, ~HandleNow, ~\E q \in Requests : CheckDelayed(q)
        PROVE  toSend' \subseteq toSend /\ UNCHANGED msgIdOf
    BY <2>5 DEF Main, SendRequest, CancelRequest, CancelToSend, CancelHaveSent, ProcessCallback,
                HandleFinal, HandleLater, RestoreHandler
  <2> QED
    BY <2>2, <2>3, <2>4, <2>5
<1>3. \A r \in Requests \ forced' : Lone(r)'
  BY <1>1, LoneMain
<1>4. ResentIsForced'
  BY <1>1 DEF Lonely, ResentIsForced
<1>5. HandIsFresh'
  BY <1>1, <1>2 DEF Lonely, HandIsFresh, IInv, TypeOK
<1>6. SendsAreFresh'
  <2>1. toSend' \subseteq Requests
    BY StepIInv DEF Next, IInv, TypeOK
  <2> QED
    BY <1>1, <1>2, <2>1 DEF Lonely, SendsAreFresh
<1> QED
  BY <1>3, <1>4, <1>5, <1>6 DEF Lonely

\* A step of the session thread or the server that brings no request anywhere.
LEMMA LonelyKept ==
  ASSUME IInv, OneOwner, Lonely, IInv', UNCHANGED <<mainVars, haveReceived, msgIdOf>>, forced \subseteq forced',
         \A r \in Requests \ forced' : r \in toSend' => r \in toSend,
         \A r \in Requests \ forced' : Single(r)' => Single(r),
         \A r \in Requests \ forced' : SentOnce(r)' /\ \A m \in Ids : OnNet(r, m)' => OnNet(r, m),
         ResentIsForced', HandIsFresh'
  PROVE  Lonely'
<1>1. ASSUME NEW r \in Requests \ forced' PROVE Lone(r)'
  <2>1. Lone(r)
    BY DEF Lonely
  <2>2. \A k \in 1..6 : In(r, k)' => In(r, k)
    BY DEF In, OnMain, Received
  <2>3. InOne(r)'
    BY <2>1, <2>2, InOneFrame DEF Lone
  <2>4. ReceivedOnce(r)'
    BY <2>1 DEF Lone, ReceivedOnce
  <2> QED
    BY <2>3, <2>4 DEF Lone
<1>2. SendsAreFresh'
  <2>1. toSend' \subseteq Requests
    BY DEF IInv, TypeOK
  <2> QED
    BY <2>1 DEF Lonely, SendsAreFresh
<1> QED
  BY <1>1, <1>2 DEF Lonely

\* The same where what is with the server or on the way to it gets less.
LEMMA LonelyLess ==
  ASSUME IInv, OneOwner, Lonely, IInv', UNCHANGED <<mainVars, haveReceived, msgIdOf, forced>>,
         toSend' \subseteq toSend, UNCHANGED <<thread, hand>> \/ thread' \in {"idle", "resending"},
         \A m \in Ids : haveSent'[m] \in {haveSent[m], None},
         \A m \in Ids : resendingIds'[m] \in {resendingIds[m], None},
         \A m \in Ids : ackedIds'[m] \in {ackedIds[m], haveSent[m], resendingIds[m], None},
         inFlight' \subseteq inFlight, answers' \subseteq answers, seen' \subseteq seen
  PROVE  Lonely'
<1>1. ASSUME NEW r \in Requests \ forced'
      PROVE  SentOnce(r)' /\ \A m \in Ids : OnNet(r, m)' => OnNet(r, m)
  <2>1. \A m \in Ids : WasSent(m)' = r => WasSent(m) = r
    BY WasSentFrame
  <2>2. SentOnce(r)
    BY DEF Lonely, Lone
  <2> QED
    BY <2>1, <2>2, SentFrame
<1>2. \A r \in Requests : Single(r)' => Single(r)
  BY DEF Single
<1>3. ResentIsForced'
  BY DEF Lonely, ResentIsForced
<1>4. HandIsFresh'
  BY DEF Lonely, HandIsFresh
<1> QED
  BY <1>1, <1>2, <1>3, <1>4, LonelyKept

LEMMA LonelyResend ==
  ASSUME IInv, OneOwner, Lonely, TakeResent \/ PutResent \/ Connect
  PROVE  Lonely'
<1>0. IInv' /\ UNCHANGED <<mainVars, haveReceived, msgIdOf, ackedIds, inFlight, answers, seen>>
  BY TakeResentStep, PutResentStep, ConnectStep DEF TakeResent, PutResent, Connect
<1>1. CASE TakeResent \/ Connect
  <2>1. /\ UNCHANGED <<toSend, forced, resendingIds>>
        /\ UNCHANGED <<thread, hand>> \/ thread' \in {"idle", "resending"}
    BY <1>1 DEF TakeResent, Connect
  <2>2. \A m \in Ids : haveSent'[m] \in {haveSent[m], None}
    <3>1. CASE TakeResent
      <4>1. \E m \in toResend : haveSent' = haveSent \/ haveSent' = [haveSent EXCEPT ![m] = None]
        BY <3>1 DEF TakeResent
      <4> QED
        BY <4>1 DEF IInv, TypeOK, IdMap
    <3>2. CASE Connect
      BY <3>2 DEF Connect, NoIds
    <3> QED
      BY <1>1, <3>1, <3>2
  <2> QED
    BY <1>0, <2>1, <2>2, LonelyLess
<1>2. CASE PutResent
  <2>1. /\ toSend' = toSend \union {p[2] : p \in hand} /\ forced' = forced \union {p[2] : p \in hand}
        /\ thread' = "idle" /\ hand' = {} /\ UNCHANGED haveSent
    BY <1>2 DEF PutResent
  <2>2. ASSUME NEW m \in Ids
        PROVE  resendingIds'[m] = resendingIds[m] \/ \E p \in hand : resendingIds'[m] = p[2]
    BY <1>2 DEF PutResent
  <2>3. ResentIsForced'
    BY <2>1, <2>2 DEF Lonely, ResentIsForced
  <2>4. ASSUME NEW r \in Requests \ forced'
        PROVE  SentOnce(r)' /\ \A m \in Ids : OnNet(r, m)' => OnNet(r, m)
    <3>1. \A m \in Ids : resendingIds'[m] # r
      BY <2>3, <2>4, RequestsAssumption DEF ResentIsForced
    <3>2. \A m \in Ids : WasSent(m)' = r => haveSent[m] = r \/ ackedIds[m] = r
      BY <1>0, <2>1, <3>1 DEF WasSent
    <3>3. \A m \in Ids : WasSent(m)' = r => WasSent(m) = r
      BY <3>2, WasSentIsOwner
    <3>4. SentOnce(r)
      BY <2>1, <2>4 DEF Lonely, Lone
    <3> QED
      BY <1>0, <3>3, <3>4, SentFrame
  <2>5. HandIsFresh' /\ \A r \in Requests : ~Single(r)'
    BY <2>1 DEF HandIsFresh, Single
  <2> QED
    BY <1>0, <2>1, <2>3, <2>4, <2>5, LonelyKept
<1> QED
  BY <1>1, <1>2

LEMMA LonelyAcked ==
  ASSUME IInv, OneOwner, Lonely, NEW m \in Ids, MsgsAck(m) \/ MsgsStateInfo(m)
  PROVE  Lonely'
<1>0. /\ IInv' /\ UNCHANGED <<mainVars, haveReceived, msgIdOf, forced, thread, hand, inFlight, seen>>
      /\ answers' \subseteq answers
  BY MsgsAckStep, MsgsStateInfoStep DEF MsgsAck, MsgsStateInfo
<1>1. \E S \in SUBSET Ids : RequestsAcked(S, FALSE)
  <2>1. CASE MsgsAck(m)
    BY <2>1 DEF MsgsAck
  <2>2. CASE MsgsStateInfo(m)
    <3>1. PICK known \in SUBSET (stateRequests[m] \intersect seen) :
            RequestsAcked({m} \union known, FALSE)
      BY <2>2 DEF MsgsStateInfo
    <3>2. {m} \union known \in SUBSET Ids
      BY DEF IInv, TypeOK
    <3> QED
      BY <3>1, <3>2
  <2> QED
    BY <2>1, <2>2
<1>2. /\ \A n \in Ids : /\ haveSent'[n] \in {haveSent[n], None}
                        /\ resendingIds'[n] \in {resendingIds[n], None}
                        /\ ackedIds'[n] \in {ackedIds[n], haveSent[n], resendingIds[n], None}
      /\ toSend' \subseteq toSend
  BY <1>1, RequestsAckedFacts DEF IInv
<1> QED
  BY <1>0, <1>2, LonelyLess

\* A packet that reaches the server brings what is in it from the way to the answers.
LEMMA SentReceived ==
  ASSUME IInv, OneOwner, PacketIds, NEW p \in inFlight, inFlight' = inFlight \ {p},
         answers' \subseteq answers \union p.inner, seen' \subseteq seen \union p.inner \union {p.id},
         UNCHANGED <<haveSent, resendingIds, ackedIds>>, NEW r \in Requests, SentOnce(r)
  PROVE  SentOnce(r)' /\ \A m \in Ids : OnNet(r, m)' => OnNet(r, m)
<1>1. \A m \in Ids : WasSent(m)' = WasSent(m)
  BY DEF WasSent
<1>2. \A m \in Ids : OnNet(r, m)' => OnNet(r, m)
  BY <1>1 DEF OnNet
<1>3. ASSUME NEW m \in Ids, WasSent(m) = r, NEW q \in inFlight', m \in q.inner PROVE m \notin seen'
  <2>1. m \notin seen /\ m \notin p.inner
    BY <1>3 DEF SentOnce
  <2>2. m # p.id
    BY <1>3, <2>1, WasSentIsOwner DEF PacketIds
  <2> QED
    BY <2>1, <2>2
<1>4. \A m \in Ids : WasSent(m) = r => \A o, q \in inFlight' : m \in o.inner /\ m \in q.inner => o = q
  BY DEF SentOnce
<1>5. \A m, n \in Ids : OnNet(r, m)' /\ OnNet(r, n)' => m = n
  BY <1>2 DEF SentOnce
<1> QED
  BY <1>1, <1>2, <1>3, <1>4, <1>5 DEF SentOnce

LEMMA LonelyReceived ==
  ASSUME IInv, OneOwner, IInv', Lonely, PacketIds, NewSessionCreated \/ \E p \in inFlight : ServerReceives(p)
  PROVE  Lonely'
<1>0. UNCHANGED <<mainVars, sharedVars, thread, hand, resendingIds, ackedIds>>
  BY DEF NewSessionCreated, ServerReceives
<1>1. CASE UNCHANGED <<inFlight, seen, answers>>
  BY <1>0, <1>1, LonelyLess
<1>2. ASSUME NEW p \in inFlight, inFlight' = inFlight \ {p},
             answers' \subseteq answers \union p.inner, seen' \subseteq seen \union p.inner \union {p.id}
      PROVE  Lonely'
  <2>1. ASSUME NEW r \in Requests \ forced'
        PROVE  SentOnce(r)' /\ \A m \in Ids : OnNet(r, m)' => OnNet(r, m)
    <3>1. SentOnce(r)
      BY <1>0 DEF Lonely, Lone
    <3> QED
      BY <1>0, <1>2, <3>1, SentReceived
  <2>2. HandIsFresh' /\ ResentIsForced' /\ \A r \in Requests : Single(r)' => Single(r)
    BY <1>0 DEF Lonely, HandIsFresh, ResentIsForced, Single
  <2> QED
    BY <1>0, <2>1, <2>2, LonelyKept
<1>3. CASE NewSessionCreated
  <2>1. \/ UNCHANGED <<inFlight, seen, answers>>
        \/ \E p \in inFlight : inFlight' = inFlight \ {p} /\ seen' = p.inner \union {p.id}
                               /\ answers' = p.inner
    BY <1>3 DEF NewSessionCreated
  <2> QED
    BY <1>1, <1>2, <2>1
<1>4. ASSUME NEW p \in inFlight, ServerReceives(p) PROVE Lonely'
  BY <1>2, <1>4 DEF ServerReceives
<1> QED
  BY <1>3, <1>4

\* A message that is rejected is on its way no more, and nowhere else.
LEMMA SentRejected ==
  ASSUME IInv, NEW p \in inFlight, NEW m \in Ids, Reject(p, m),
         UNCHANGED <<haveSent, resendingIds, ackedIds, answers, seen>>,
         NEW r \in Requests, SentOnce(r)
  PROVE  /\ SentOnce(r)' /\ \A n \in Ids : OnNet(r, n)' => OnNet(r, n)
         /\ WasSent(m) = r /\ m \in p.inner => \A n \in Ids : ~OnNet(r, n)'
<1> DEFINE o == [p EXCEPT !.inner = @ \ {m}]
<1>1. /\ \A q \in inFlight' : (q \in inFlight /\ q # p) \/ q = o
      /\ p \in Packets
  BY DEF IInv, TypeOK, Reject
<1>2. o.inner = p.inner \ {m} /\ o.id = p.id
  BY <1>1 DEF Packets
<1> HIDE DEF o
<1>3. \A n \in Ids : WasSent(n)' = WasSent(n)
  BY DEF WasSent
<1>4. \A n \in Ids : OnNet(r, n)' => OnNet(r, n)
  BY <1>1, <1>2, <1>3 DEF OnNet
<1>5. \A n, k \in Ids : OnNet(r, n)' /\ OnNet(r, k)' => n = k
  BY <1>4 DEF SentOnce
<1>6. ASSUME NEW n \in Ids, WasSent(n) = r
      PROVE  /\ \A x, y \in inFlight' : n \in x.inner /\ n \in y.inner => x = y
             /\ \A x \in inFlight' : n \in x.inner => n \notin seen'
  <2>1. /\ \A x, y \in inFlight : n \in x.inner /\ n \in y.inner => x = y
        /\ \A x \in inFlight : n \in x.inner => n \notin seen
    BY <1>6 DEF SentOnce
  <2> QED
    BY <1>1, <1>2, <2>1
<1>7. ASSUME WasSent(m) = r, m \in p.inner, NEW n \in Ids, OnNet(r, n)' PROVE FALSE
  <2>1. OnNet(r, n) /\ OnNet(r, m)
    BY <1>4, <1>7 DEF OnNet
  <2>2. n = m
    BY <2>1 DEF SentOnce
  <2>3. /\ \A x \in inFlight : m \in x.inner => x = p
        /\ m \notin seen
    BY <1>7 DEF SentOnce
  <2>4. m \notin answers'
    BY <2>3 DEF IInv, TypeOK
  <2>5. \A x \in inFlight' : m \notin x.inner
    BY <1>1, <1>2, <2>3
  <2> QED
    BY <1>7, <2>2, <2>4, <2>5 DEF OnNet
<1> QED
  BY <1>3, <1>4, <1>5, <1>6, <1>7 DEF SentOnce

LEMMA LonelyRejected ==
  ASSUME IInv, OneOwner, Lonely, NEW p \in inFlight, NEW m \in Ids, BadMsgResend(p, m)
  PROVE  Lonely'
<1>0. /\ Reject(p, m) /\ IInv'
      /\ UNCHANGED <<mainVars, sharedVars, thread, hand, resendingIds, ackedIds, seen, answers>>
  BY BadMsgResendStep DEF BadMsgResend
<1>1. ASSUME NEW r \in Requests \ forced'
      PROVE  SentOnce(r)' /\ \A n \in Ids : OnNet(r, n)' => OnNet(r, n)
  <2>1. SentOnce(r)
    BY <1>0 DEF Lonely, Lone
  <2> QED
    BY <1>0, <2>1, SentRejected
<1>2. HandIsFresh' /\ ResentIsForced' /\ \A r \in Requests : Single(r)' => Single(r)
  BY <1>0 DEF Lonely, HandIsFresh, ResentIsForced, Single
<1> QED
  BY <1>0, <1>1, <1>2, LonelyKept

\* A step that gives no id to a request and takes none into a packet.
LEMMA PacketIdsKept ==
  ASSUME PacketIds, OwnersKept, inFlight \subseteq Packets, inFlight' \subseteq Packets,
         \A p \in inFlight' : p.id \notin p.inner => \E q \in inFlight : q.id = p.id /\ q.id \notin q.inner
  PROVE  PacketIds'
<1> SUFFICES ASSUME NEW p \in inFlight', p.id \notin p.inner, NEW r \in Requests PROVE ~Owns(r, p.id)'
  BY DEF PacketIds
<1>1. PICK q \in inFlight : q.id = p.id /\ q.id \notin q.inner
  OBVIOUS
<1>2. p.id \in Ids /\ ~Owns(r, p.id)
  BY <1>1 DEF PacketIds, Packets
<1> QED
  BY <1>2 DEF OwnersKept

\* A rejected message is not the id of a packet that stays.
LEMMA PacketIdsRejected ==
  ASSUME IInv, IInv', PacketIds, OwnersKept, NEW p \in inFlight, NEW m \in Ids, Reject(p, m)
  PROVE  PacketIds'
<1> DEFINE o == [p EXCEPT !.inner = @ \ {m}]
<1>1. /\ \A q \in inFlight' : q \in inFlight \/ (q = o /\ m # p.id)
      /\ inFlight \subseteq Packets /\ inFlight' \subseteq Packets
  BY DEF IInv, TypeOK, Reject
<1>2. o.inner = p.inner \ {m} /\ o.id = p.id
  BY <1>1 DEF Packets
<1> HIDE DEF o
<1>3. \A q \in inFlight' : q.id \notin q.inner => \E x \in inFlight : x.id = q.id /\ x.id \notin x.inner
  BY <1>1, <1>2
<1> QED
  BY <1>1, <1>3, PacketIdsKept

\* A request owns nothing new but the id a send gives it.
LEMMA PreparedOwned ==
  ASSUME IInv, OneOwner, ~collided', NEW chunk, NEW force, NEW ids, NEW others,
         Sends(chunk, force, ids, others), hand' \subseteq hand, UNCHANGED mainVars,
         NEW m \in Ids, NEW r \in Requests, Owns(r, m)'
  PROVE  Owns(r, m) \/ (r \in chunk /\ ids[r] = m)
<1>1. ASSUME haveSent'[m] = r \/ resendingIds'[m] = r \/ ackedIds'[m] = r \/ msgIdOf'[r] = m
      PROVE  Owns(r, m) \/ (r \in chunk /\ ids[r] = m)
  <2>1. Held(r, m) \/ (r \in chunk /\ ids[r] = m)
    BY <1>1, PrepareFacts DEF IInv
  <2> QED
    BY <2>1 DEF Held, Owns
<1>2. ASSUME \/ <<m, r>> \in hand'
             \/ main' \in {"cancel", "cancelSent"} /\ mainReq' = r /\ mainMsgId' = m
      PROVE  Owns(r, m)
  BY <1>2 DEF Owns
<1> QED
  BY <1>1, <1>2 DEF Owns

\* The ids of a packet that go with a chunk belong to no request.
LEMMA OthersAreUnowned ==
  ASSUME IInv, OneOwner, ~collided', NEW chunk, NEW force, NEW ids, NEW others,
         Sends(chunk, force, ids, others), hand' \subseteq hand, UNCHANGED mainVars,
         NEW m \in others, m \notin ChunkIds(chunk, ids), NEW r \in Requests
  PROVE  ~Owns(r, m)'
<1>1. m \in Ids /\ ~InUse(m)
  <2>1. m \in Ids
    BY DEF Sends
  <2> QED
    BY <2>1, NewIsUnused
<1>2. ~Owns(r, m)
  BY <1>1 DEF InUse
<1>3. ~(r \in chunk /\ ids[r] = m)
  BY DEF ChunkIds
<1> QED
  BY <1>1, <1>2, <1>3, PreparedOwned

\* A packet that was sent before keeps an id of no request.
LEMMA PacketIdsPrepared ==
  ASSUME IInv, OneOwner, ~collided', NEW chunk, NEW force, NEW ids, NEW others,
         Sends(chunk, force, ids, others), hand' \subseteq hand, UNCHANGED mainVars,
         PacketIds, NEW p \in inFlight, p.id \notin p.inner, NEW r \in Requests
  PROVE  ~Owns(r, p.id)'
<1>1. p.id \in Ids /\ InUse(p.id) /\ ~Owns(r, p.id)
  <2>1. p.id \in Ids /\ ~Owns(r, p.id)
    BY DEF IInv, TypeOK, Packets, PacketIds
  <2> QED
    BY <2>1 DEF InUse
<1>2. ASSUME r \in chunk, ids[r] = p.id PROVE FALSE
  <2>1. msgIdOf[r] = p.id
    BY <1>1, <1>2, NewIsUnused
  <2> QED
    BY <1>1, <2>1 DEF Owns
<1> QED
  BY <1>1, <1>2, PreparedOwned

\* The ids of a container and of the request for states in it are past the chunk.
LEMMA ContainerIds ==
  ASSUME NEW ids \in [Chunk -> Ids], NEW container \in Ids, NEW states \in SUBSET Ids,
         states = IF stateData = {} THEN {} ELSE {container - 1},
         Least(IF stateData = {} THEN container ELSE container - 1, Ahead(Chunk, ids))
  PROVE  \A m \in states \union {container} : m \notin ChunkIds(Chunk, ids)
<1>1. \A r \in Chunk : ids[r] \in Nat
  BY DEF Ids
<1>2. \A r \in Chunk : IF stateData = {} THEN container > ids[r] ELSE container - 1 > ids[r]
  BY DEF Least, Ahead
<1>3. container \in Nat
  BY DEF Ids
<1>4. \A m \in states \union {container} : \A r \in Chunk : m # ids[r]
  BY <1>1, <1>2, <1>3
<1> QED
  BY <1>4 DEF ChunkIds

\* The id of a container is one no request gets.
LEMMA PacketIdsSent ==
  ASSUME IInv, OneOwner, ~collided', PacketIds, Numbers
  PROVE  PacketIds'
<1>1. CASE FinishSingle
  <2>0. PICK p \in hand : \E ids \in [{p[2]} -> Ids] :
             /\ Sends({p[2]}, thread = "sendingFirst", ids, {})
             /\ inFlight' = inFlight \union {[id |-> ids[p[2]], inner |-> {ids[p[2]]}]}
    BY <1>1, FinishSingleFacts
  <2>1. PICK ids \in [{p[2]} -> Ids] :
             /\ Sends({p[2]}, thread = "sendingFirst", ids, {})
             /\ inFlight' = inFlight \union {[id |-> ids[p[2]], inner |-> {ids[p[2]]}]}
    BY <2>0
  <2>2. hand' \subseteq hand /\ UNCHANGED mainVars
    BY <1>1 DEF FinishSingle
  <2>3. \A q \in inFlight' : q \in inFlight \/ q.id \in q.inner
    BY <2>1
  <2>4. \A q \in inFlight : q.id \notin q.inner => \A r \in Requests : ~Owns(r, q.id)'
    BY <2>1, <2>2, PacketIdsPrepared
  <2> QED
    BY <2>3, <2>4 DEF PacketIds
<1>2. CASE SendContainer
  <2>1. PICK ids \in [Chunk -> Ids], container \in Ids, states \in SUBSET Ids :
             /\ Sends(Chunk, ~markedAsStarted, ids, states \union {container})
             /\ states = IF stateData = {} THEN {} ELSE {container - 1}
             /\ Least(IF stateData = {} THEN container ELSE container - 1, Ahead(Chunk, ids))
             /\ inFlight' = inFlight \union
                  {[id |-> container, inner |-> ChunkIds(Chunk, ids) \union states]}
    BY <1>2, SendContainerFacts
  <2>2. hand' \subseteq hand /\ UNCHANGED mainVars
    BY <1>2 DEF SendContainer
  <2>3. \A q \in inFlight' : q \in inFlight \/ q.id = container
    BY <2>1
  <2>4. \A q \in inFlight : q.id \notin q.inner => \A r \in Requests : ~Owns(r, q.id)'
    BY <2>1, <2>2, PacketIdsPrepared
  <2>5. container \notin ChunkIds(Chunk, ids)
    BY <2>1, ContainerIds
  <2>6. \A r \in Requests : ~Owns(r, container)'
    <3>1. container \in states \union {container}
      OBVIOUS
    <3> QED
      BY <2>1, <2>2, <2>5, <3>1, OthersAreUnowned
  <2>7. ASSUME NEW q \in inFlight', q.id \notin q.inner, NEW r \in Requests PROVE ~Owns(r, q.id)'
    <3>1. CASE q \in inFlight
      BY <2>4, <2>7, <3>1
    <3>2. CASE q.id = container
      BY <2>6, <3>2
    <3> QED
      BY <2>3, <3>1, <3>2
  <2> QED
    BY <2>7 DEF PacketIds
<1> QED
  BY <1>1, <1>2 DEF Numbers

LEMMA PacketIdsStep ==
  ASSUME IInv, OneOwner, ~collided', PacketIds, [Next]_vars
  PROVE  PacketIds'
<1>0. IInv' /\ inFlight \subseteq Packets /\ inFlight' \subseteq Packets
  BY StepIInv DEF IInv, TypeOK
<1>1. CASE Numbers
  BY <1>1, PacketIdsSent
<1>2. ASSUME ~Numbers PROVE PacketIds'
  <2>1. OwnersKept
    BY <1>2, KeptStep
  <2>2. ASSUME \A p \in inFlight' : p \in inFlight \/ p.id \in p.inner PROVE PacketIds'
    BY <1>0, <2>1, <2>2, PacketIdsKept
  <2>3. CASE Main \/ UNCHANGED vars
    BY <2>2, <2>3, MainKeepsSession DEF vars
  <2>4. CASE Server
    BY <2>2, <2>4 DEF Server, ServerReceives, ServerForgets
  <2>5. CASE Send \/ SendNothing \/ TakeResent \/ PutResent \/ Connect \/ CheckSentRequests
    <3>1. ASSUME NEW r \in Requests, SendSingle(r) PROVE inFlight' = inFlight
      BY <3>1 DEF SendSingle
    <3>2. CASE SendStateRequest
      BY <2>2, <3>2 DEF SendStateRequest
    <3>3. CASE SendNothing \/ TakeResent \/ PutResent \/ Connect \/ CheckSentRequests
      BY <2>2, <3>3 DEF SendNothing, TakeResent, PutResent, Connect, CheckSentRequests
    <3> QED
      BY <1>2, <2>2, <2>5, <3>1, <3>2, <3>3 DEF Numbers, Send
  <2>6. ASSUME NEW m \in Ids, ClearOldContainer(m) \/ RpcResult(m) \/ MsgsAck(m) \/ MsgsStateInfo(m)
        PROVE  PacketIds'
    BY <2>2, <2>6 DEF ClearOldContainer, RpcResult, MsgsAck, MsgsStateInfo
  <2>7. ASSUME NEW p \in inFlight, NEW m \in Ids, BadMsgResend(p, m) \/ BadMsgFatal(p, m)
        PROVE  PacketIds'
    BY <1>0, <2>1, <2>7, PacketIdsRejected DEF BadMsgResend, BadMsgFatal
  <2>8. CASE KeyChanged \/ ClockSetBack \/ NewSessionCreated \/ ConnectionLost
           \/ \E p \in inFlight : BadMsgReset(p)
    <3>1. inFlight' \subseteq inFlight
      BY <2>8 DEF KeyChanged, ClockSetBack, NewSessionCreated, ConnectionLost, BadMsgReset, NewSessionId
    <3> QED
      BY <2>2, <3>1
  <2> QED
    BY <1>2, <2>3, <2>4, <2>5, <2>6, <2>7, <2>8 DEF Next, Session, Numbers
<1> QED
  BY <1>1, <1>2

LEMMA LonelySendSingle ==
  ASSUME IInv, OneOwner, Lonely, NEW q \in Requests, SendSingle(q)
  PROVE  Lonely'
<1>0. /\ q \in toSend /\ q \notin forced /\ toSend' = toSend \ {q} /\ hand' = {<<msgIdOf[q], q>>}
      /\ thread = "idle"
      /\ UNCHANGED <<mainVars, haveSent, haveReceived, msgIdOf, forced, idVars, serverVars>>
  BY DEF SendSingle, Idle, Chunk
<1>1. ASSUME NEW r \in Requests \ forced' PROVE Lone(r)'
  <2>1. Lone(r)
    BY <1>0 DEF Lonely
  <2>2. \A m \in Ids : WasSent(m)' = WasSent(m)
    BY <1>0 DEF WasSent
  <2>3. SentOnce(r)' /\ \A m \in Ids : OnNet(r, m)' => OnNet(r, m)
    BY <1>0, <2>1, <2>2, SentFrame DEF Lone
  <2>4. ReceivedOnce(r)'
    BY <1>0, <2>1 DEF Lone, ReceivedOnce
  <2>5. ~Single(r) /\ (Single(r)' => r = q)
    BY <1>0 DEF Single
  <2>6. CASE r = q
    <3>1. In(r, 3)
      BY <1>0, <2>6 DEF In
    <3>2. \A k \in 1..6 : In(r, k)' => (In(r, k) /\ k # 3) \/ k = 4
      BY <1>0, <2>3, <2>6 DEF In, OnMain, Received
    <3> QED
      BY <2>1, <2>3, <2>4, <3>1, <3>2, InOneMoved DEF Lone
  <2>7. CASE r # q
    <3>1. \A k \in 1..6 : In(r, k)' => In(r, k)
      BY <1>0, <2>3, <2>5, <2>7 DEF In, OnMain, Received
    <3> QED
      BY <2>1, <2>3, <2>4, <3>1, InOneFrame DEF Lone
  <2> QED
    BY <2>6, <2>7
<1>2. ResentIsForced' /\ HandIsFresh' /\ SendsAreFresh'
  BY <1>0 DEF Lonely, ResentIsForced, HandIsFresh, SendsAreFresh
<1> QED
  BY <1>1, <1>2 DEF Lonely

\* An answer is in haveReceived once, if its request had none there.
LEMMA ReceivedAdded ==
  ASSUME IInv, NEW q \in started \union {None}, NEW answer \in Answers, SaveAnswer(q, answer),
         NEW r \in Requests, ReceivedOnce(r), r = q => ~Received(r)
  PROVE  (Received(r)' => Received(r) \/ r = q) /\ ReceivedOnce(r)'
<1> DEFINE S == [request : Requests, answer : Answers]
           e == [request |-> q, answer |-> answer]
<1>1. CASE q = None
  BY <1>1 DEF SaveAnswer, Received, ReceivedOnce
<1>2. CASE q # None
  <2>1. /\ haveReceived \in Seq(S) /\ e \in S /\ e.request = q
        /\ haveReceived' = Append(haveReceived, e)
    BY <1>2 DEF IInv, TypeOK, SaveAnswer
  <2> HIDE DEF S, e
  <2>2. /\ haveReceived'[Len(haveReceived) + 1] = e
        /\ \A i \in DOMAIN haveReceived : haveReceived'[i] = haveReceived[i]
        /\ \A i \in DOMAIN haveReceived' : i \in DOMAIN haveReceived \/ i = Len(haveReceived) + 1
    BY <2>1, AddedFacts
  <2> QED
    BY <2>1, <2>2 DEF Received, ReceivedOnce
<1> QED
  BY <1>1, <1>2

\* A step that takes a request off the network and saves an answer for it.
LEMMA LonelyAnswered ==
  ASSUME IInv, OneOwner, Lonely, IInv', UNCHANGED <<mainVars, msgIdOf, forced, thread, hand>>,
         toSend' \subseteq toSend,
         NEW q \in started \union {None}, NEW answer \in Answers, SaveAnswer(q, answer),
         \A r \in Requests \ forced : SentOnce(r)' /\ \A n \in Ids : OnNet(r, n)' => OnNet(r, n),
         q \in Requests \ forced => In(q, 6) /\ \A n \in Ids : ~OnNet(q, n)',
         ResentIsForced'
  PROVE  Lonely'
<1>1. ASSUME NEW r \in Requests \ forced' PROVE Lone(r)'
  <2>1. Lone(r) /\ InOne(r) /\ ReceivedOnce(r)
    BY DEF Lonely, Lone
  <2>2. r = q => ~Received(r)
    BY <2>1 DEF InOne, In
  <2>3. (Received(r)' => Received(r) \/ r = q) /\ ReceivedOnce(r)'
    BY <2>1, <2>2, ReceivedAdded
  <2>4. CASE r = q
    <3>1. \A k \in 1..6 : In(r, k)' => (In(r, k) /\ k # 6) \/ k = 5
      BY <2>3, <2>4 DEF In, OnMain, Single
    <3> QED
      BY <2>1, <2>3, <2>4, <3>1, InOneMoved DEF Lone
  <2>5. CASE r # q
    <3>1. \A k \in 1..6 : In(r, k)' => In(r, k)
      BY <2>3, <2>5 DEF In, OnMain, Single
    <3> QED
      BY <2>1, <2>3, <3>1, InOneFrame DEF Lone
  <2> QED
    BY <2>4, <2>5
<1>2. HandIsFresh'
  BY DEF Lonely, HandIsFresh
<1>3. SendsAreFresh'
  BY DEF Lonely, SendsAreFresh
<1> QED
  BY <1>1, <1>2, <1>3 DEF Lonely

LEMMA LonelyRpcResult ==
  ASSUME IInv, OneOwner, Lonely, NEW m \in Ids, RpcResult(m)
  PROVE  Lonely'
<1>0. /\ IInv' /\ RequestsAcked({m}, TRUE) /\ m \in answers /\ m \in seen /\ answers' = answers \ {m}
      /\ UNCHANGED <<mainVars, msgIdOf, forced, thread, hand, inFlight, seen>>
  <2>1. IInv' /\ answers \subseteq seen
    BY RpcResultStep DEF IInv, TypeOK
  <2> QED
    BY <2>1 DEF RpcResult
<1>1. PICK answer \in Answers : SaveAnswer(WasSent(m)', answer)
  BY DEF RpcResult
<1>2. /\ \A n \in Ids : /\ haveSent'[n] \in {haveSent[n], None}
                        /\ resendingIds'[n] \in {resendingIds[n], None}
                        /\ ackedIds'[n] \in {ackedIds[n], haveSent[n], resendingIds[n], None}
      /\ toSend' \subseteq toSend
  BY <1>0, RequestsAckedFacts DEF IInv
<1>3. WasSent(m)' \in started \union {None}
  BY <1>0, WasSentFacts DEF IInv, Known, WasSent
<1>4. \A r \in Requests : \A n \in Ids : WasSent(n)' = r => WasSent(n) = r
  BY <1>2, WasSentFrame
<1>5. ASSUME NEW r \in Requests \ forced
      PROVE  SentOnce(r)' /\ \A n \in Ids : OnNet(r, n)' => OnNet(r, n)
  <2>1. SentOnce(r)
    BY DEF Lonely, Lone
  <2> QED
    BY <1>0, <1>4, <2>1, SentFrame
<1>6. ASSUME NEW r \in Requests \ forced, WasSent(m)' = r
      PROVE  In(r, 6) /\ \A n \in Ids : ~OnNet(r, n)'
  <2>1. WasSent(m) = r /\ OnNet(r, m) /\ SentOnce(r)
    BY <1>0, <1>4, <1>6 DEF OnNet, Lonely, Lone
  <2>2. \A p \in inFlight : m \notin p.inner
    BY <1>0, <2>1 DEF SentOnce
  <2>3. ~OnNet(r, m)'
    BY <1>0, <2>2 DEF OnNet
  <2> QED
    BY <1>5, <2>1, <2>3 DEF In, SentOnce
<1>7. ResentIsForced'
  BY <1>0, <1>2 DEF Lonely, ResentIsForced
<1> HIDE DEF WasSent
<1> QED
  BY <1>0, <1>1, <1>2, <1>3, <1>5, <1>6, <1>7, LonelyAnswered

LEMMA LonelyFatal ==
  ASSUME IInv, OneOwner, Lonely, NEW p \in inFlight, NEW m \in Ids, BadMsgFatal(p, m)
  PROVE  Lonely'
<1>0. /\ IInv' /\ Reject(p, m) /\ m \in p.inner /\ SaveAnswer(WasSent(m), "later")
      /\ UNCHANGED <<mainVars, toSend, haveSent, msgIdOf, forced, sessionVars, seen, answers>>
  BY BadMsgFatalStep DEF BadMsgFatal
<1>1. WasSent(m) \in started \union {None} /\ "later" \in Answers
  BY WasSentFacts DEF IInv, Answers
<1>2. ASSUME NEW r \in Requests \ forced
      PROVE  /\ SentOnce(r)' /\ \A n \in Ids : OnNet(r, n)' => OnNet(r, n)
             /\ WasSent(m) = r => In(r, 6) /\ \A n \in Ids : ~OnNet(r, n)'
  <2>1. SentOnce(r)
    BY DEF Lonely, Lone
  <2>2. WasSent(m) = r => In(r, 6)
    BY <1>0 DEF In, OnNet
  <2> QED
    BY <1>0, <2>1, <2>2, SentRejected
<1>3. ResentIsForced'
  BY <1>0 DEF Lonely, ResentIsForced
<1> QED
  BY <1>0, <1>1, <1>2, <1>3, LonelyAnswered

\* What a send does with a request that has had no id: it has the new one.
LEMMA PreparedSent ==
  ASSUME IInv, OneOwner, ~collided', NEW chunk, NEW force, NEW ids, NEW others,
         Sends(chunk, force, ids, others),
         NEW r \in Requests \ forced, r \in chunk => msgIdOf[r] = 0
  PROVE  /\ \A m \in Ids : WasSent(m)' = r => WasSent(m) = r \/ (r \in chunk /\ ids[r] = m)
         /\ r \in chunk => ids[r] \in Ids /\ ~InUse(ids[r])
<1>1. r \notin Replaced(chunk, ids)
  BY DEF Replaced
<1>2. \A m \in Ids :
        /\ haveSent'[m] = r => haveSent[m] = r \/ (r \in chunk /\ ids[r] = m)
        /\ resendingIds'[m] = r => resendingIds[m] = r
        /\ ackedIds'[m] = r => ackedIds[m] = r
  BY <1>1, PrepareFacts DEF IInv
<1>3. \A m \in Ids : WasSent(m)' = r => haveSent'[m] = r \/ resendingIds'[m] = r \/ ackedIds'[m] = r
  BY DEF WasSent
<1>4. \A m \in Ids : haveSent[m] = r \/ resendingIds[m] = r \/ ackedIds[m] = r => WasSent(m) = r
  BY WasSentIsOwner
<1>5. r \in chunk => ids[r] \in Ids /\ ids[r] # 0
  BY DEF Sends, Ids
<1>6. r \in chunk => ~InUse(ids[r])
  BY <1>5, NewIsUnused
<1> QED
  BY <1>2, <1>3, <1>4, <1>5, <1>6

\* New packets: every id in them is of their chunk or of no request.
NewPackets(chunk, ids, new) ==
  /\ inFlight' = inFlight \union new /\ UNCHANGED <<seen, answers>>
  /\ \A p \in new : \A m \in p.inner :
       m \in ChunkIds(chunk, ids) \/ \A q \in Requests : ~Owns(q, m)'
  /\ \A p, q \in new : \A m \in p.inner : m \in q.inner => p = q

NotOnNet(r) == \A m \in Ids : ~OnNet(r, m)

KeptOnNet(r) == \A m \in Ids : OnNet(r, m)' => OnNet(r, m)

LEMMA PreparedOnNet ==
  ASSUME IInv, OneOwner, IInv', ~collided', NEW chunk, NEW force, NEW ids, NEW others,
         Sends(chunk, force, ids, others), NEW new, NewPackets(chunk, ids, new),
         NEW r \in Requests \ forced, r \in chunk => msgIdOf[r] = 0 /\ NotOnNet(r),
         SentOnce(r)
  PROVE  SentOnce(r)' /\ (r \notin chunk => KeptOnNet(r))
<1> USE DEF NotOnNet, KeptOnNet
<1>0. /\ inFlight' = inFlight \union new /\ UNCHANGED <<seen, answers>>
      /\ \A p \in new : \A m \in p.inner :
           m \in ChunkIds(chunk, ids) \/ \A q \in Requests : ~Owns(q, m)'
      /\ \A p, q \in new : \A m \in p.inner : m \in q.inner => p = q
  BY DEF NewPackets
<1>1. /\ \A m \in Ids : WasSent(m)' = r => WasSent(m) = r \/ (r \in chunk /\ ids[r] = m)
      /\ r \in chunk => ids[r] \in Ids /\ ~InUse(ids[r])
  BY PreparedSent
<1>2. \A q \in chunk : q \in Requests /\ ids[q] \in Ids /\ haveSent'[ids[q]] = q
  <2>1. \A q \in chunk : q \in Requests /\ ids[q] \in Ids
    BY DEF Sends
  <2>2. \A q \in chunk : haveSent'[ids[q]] = q
    BY PrepareFacts DEF IInv
  <2> QED
    BY <2>1, <2>2
<1>3. \A m \in ChunkIds(chunk, ids) : \E q \in chunk : ids[q] = m
  BY DEF ChunkIds
\* An id in a new packet that the request was sent with is the one it just got.
<1>4. ASSUME NEW m \in Ids, WasSent(m)' = r, NEW p \in new, m \in p.inner
      PROVE  r \in chunk /\ ids[r] = m
  <2>1. Owns(r, m)'
    <3>1. WasSent(m)' = r => haveSent'[m] = r \/ resendingIds'[m] = r \/ ackedIds'[m] = r
      BY DEF WasSent
    <3> QED
      BY <1>4, <3>1 DEF Owns
  <2>2. PICK q \in chunk : ids[q] = m
    BY <1>0, <1>3, <1>4, <2>1
  <2>3. Owns(q, m)' /\ q \in Requests
    BY <1>2, <2>2 DEF Owns
  <2>4. q = r
    BY <2>1, <2>3 DEF IInv, IdHasOneOwner, OneOwner
  <2> QED
    BY <2>2, <2>4
<1>5. r \in chunk => /\ ids[r] \notin seen /\ ids[r] \notin answers
                     /\ \A p \in inFlight : ids[r] \notin p.inner
  <2>1. answers \subseteq seen
    BY DEF IInv, TypeOK
  <2> QED
    BY <1>1, <2>1 DEF InUse
<1>6. ASSUME r \in chunk, NEW m \in Ids, WasSent(m)' = r
      PROVE  \/ m = ids[r] /\ m \notin seen /\ m \notin answers /\ \A p \in inFlight : m \notin p.inner
             \/ m \notin answers /\ \A p \in inFlight' : m \notin p.inner
  <2>1. CASE m = ids[r]
    BY <1>5, <1>6, <2>1
  <2>2. CASE m # ids[r]
    <3>1. WasSent(m) = r /\ ~OnNet(r, m)
      BY <1>1, <1>6, <2>2
    <3>2. \A p \in new : m \notin p.inner
      BY <1>4, <1>6, <2>2
    <3> QED
      BY <1>0, <3>1, <3>2 DEF OnNet
  <2> QED
    BY <2>1, <2>2
<1>7. CASE r \in chunk
  <2>1. \A m \in Ids : OnNet(r, m)' => m = ids[r]
    BY <1>0, <1>6, <1>7 DEF OnNet
  <2>2. ASSUME NEW m \in Ids, WasSent(m)' = r
        PROVE  /\ \A p, q \in inFlight' : m \in p.inner /\ m \in q.inner => p = q
               /\ \A p \in inFlight' : m \in p.inner => m \notin seen'
    BY <1>0, <1>6, <1>7, <2>2
  <2> QED
    BY <1>7, <2>1, <2>2 DEF SentOnce
<1>8. CASE r \notin chunk
  <2>1. \A m \in Ids : WasSent(m)' = r => WasSent(m) = r /\ \A p \in new : m \notin p.inner
    BY <1>1, <1>4, <1>8
  <2>2. \A m \in Ids : OnNet(r, m)' => OnNet(r, m)
    BY <1>0, <2>1 DEF OnNet
  <2>3. \A m, n \in Ids : OnNet(r, m)' /\ OnNet(r, n)' => m = n
    BY <2>2 DEF SentOnce
  <2>4. ASSUME NEW m \in Ids, WasSent(m)' = r
        PROVE  /\ \A p, q \in inFlight' : m \in p.inner /\ m \in q.inner => p = q
               /\ \A p \in inFlight' : m \in p.inner => m \notin seen'
    BY <1>0, <2>1, <2>4 DEF SentOnce
  <2> QED
    BY <1>8, <2>2, <2>3, <2>4 DEF SentOnce
<1> QED
  BY <1>7, <1>8

\* A send moves what it sends to the network, from its hand or from toSend.
LEMMA LonelyPrepared ==
  ASSUME IInv, OneOwner, IInv', ~collided', Lonely,
         NEW chunk, NEW force, NEW ids, NEW others, Sends(chunk, force, ids, others),
         UNCHANGED <<mainVars, haveReceived, forced, seen, answers>>,
         NEW new, inFlight' = inFlight \union new, thread' = "idle", toSend' \subseteq toSend,
         \A p \in new : \A m \in p.inner :
           m \in ChunkIds(chunk, ids) \/ \A q \in Requests : ~Owns(q, m)',
         \A p, q \in new : \A m \in p.inner : m \in q.inner => p = q,
         toSend' \intersect chunk = {},
         NEW k \in 3..4, \A r \in chunk \ forced : msgIdOf[r] = 0 /\ In(r, k)
  PROVE  Lonely'
<1>1. ASSUME NEW r \in Requests \ forced' PROVE Lone(r)'
  <2>1. Lone(r) /\ InOne(r) /\ ReceivedOnce(r) /\ SentOnce(r)
    BY DEF Lonely, Lone
  <2>2. r \in chunk => msgIdOf[r] = 0 /\ NotOnNet(r)
    <3>1. k # 6 /\ k \in 1..6
      OBVIOUS
    <3>2. r \in chunk => msgIdOf[r] = 0 /\ ~In(r, 6)
      BY <2>1, <3>1 DEF InOne
    <3> QED
      BY <3>2 DEF In, NotOnNet
  <2>3. SentOnce(r)' /\ (r \notin chunk => \A m \in Ids : OnNet(r, m)' => OnNet(r, m))
    <3>1. r \in Requests \ forced /\ NewPackets(chunk, ids, new)
      BY DEF NewPackets
    <3>2. SentOnce(r)' /\ (r \notin chunk => KeptOnNet(r))
      BY <2>1, <2>2, <3>1, PreparedOnNet
    <3> QED
      BY <3>2 DEF KeptOnNet
  <2>4. ReceivedOnce(r)' /\ ~Single(r)'
    BY <2>1 DEF ReceivedOnce, Single
  <2>5. CASE r \in chunk
    <3>1. \A j \in 1..6 : In(r, j)' => (In(r, j) /\ j # k) \/ j = 6
      BY <2>4, <2>5 DEF In, OnMain, Received
    <3> QED
      BY <2>1, <2>3, <2>4, <2>5, <3>1, InOneMoved DEF Lone
  <2>6. CASE r \notin chunk
    <3>1. \A j \in 1..6 : In(r, j)' => In(r, j)
      BY <2>3, <2>4, <2>6 DEF In, OnMain, Received
    <3> QED
      BY <2>1, <2>3, <2>4, <3>1, InOneFrame DEF Lone
  <2> QED
    BY <2>5, <2>6
<1>2. ResentIsForced'
  <2>1. \A m \in Ids : \A r \in Requests : resendingIds'[m] = r => resendingIds[m] = r
    BY PrepareFacts DEF IInv
  <2>2. \A m \in Ids : resendingIds'[m] \in Requests \union {None}
    BY DEF IInv, TypeOK, IdMap
  <2> QED
    BY <2>1, <2>2 DEF Lonely, ResentIsForced
<1>3. HandIsFresh'
  BY DEF HandIsFresh
<1>4. SendsAreFresh'
  <2>1. \A r \in Requests \ chunk : msgIdOf'[r] = msgIdOf[r]
    BY DEF Sends, Prepare
  <2>2. toSend' \subseteq Requests
    BY DEF IInv, TypeOK
  <2> QED
    BY <2>1, <2>2 DEF Lonely, SendsAreFresh
<1> QED
  BY <1>1, <1>2, <1>3, <1>4 DEF Lonely

LEMMA LonelyFinishSingle ==
  ASSUME IInv, OneOwner, IInv', ~collided', Lonely, FinishSingle
  PROVE  Lonely'
<1>0. PICK p \in hand : \E ids \in [{p[2]} -> Ids] :
           /\ hand = {p} /\ p[2] \in Requests
           /\ Sends({p[2]}, thread = "sendingFirst", ids, {})
           /\ inFlight' = inFlight \union {[id |-> ids[p[2]], inner |-> {ids[p[2]]}]}
  BY FinishSingleFacts
<1>1. PICK ids \in [{p[2]} -> Ids] :
           /\ hand = {p} /\ p[2] \in Requests
           /\ Sends({p[2]}, thread = "sendingFirst", ids, {})
           /\ inFlight' = inFlight \union {[id |-> ids[p[2]], inner |-> {ids[p[2]]}]}
  BY <1>0
<1> DEFINE chunk == {p[2]}
           new == {[id |-> ids[p[2]], inner |-> {ids[p[2]]}]}
<1>2. /\ thread' = "idle" /\ thread \in {"sending", "sendingFirst"}
      /\ UNCHANGED <<mainVars, toSend, haveReceived, forced, seen, answers>>
  BY DEF FinishSingle
<1>3. msgIdOf[p[2]] = 0 /\ p[2] \notin forced /\ In(p[2], 4)
  BY <1>2 DEF Lonely, HandIsFresh, In, Single
<1>4. p[2] \notin toSend
  <2>1. ~In(p[2], 3)
    BY <1>1, <1>3 DEF Lonely, Lone, InOne
  <2> QED
    BY <2>1 DEF In
<1>5. /\ \A q \in new : \A m \in q.inner : m \in ChunkIds(chunk, ids)
      /\ \A o, q \in new : \A m \in o.inner : m \in q.inner => o = q
      /\ inFlight' = inFlight \union new
  BY <1>1 DEF ChunkIds
<1>6. /\ \A r \in chunk \ forced : msgIdOf[r] = 0 /\ In(r, 4)
      /\ toSend' \intersect chunk = {} /\ toSend' \subseteq toSend /\ 4 \in 3..4
  BY <1>2, <1>3, <1>4
<1> DEFINE force == thread = "sendingFirst"
<1>7. Sends(chunk, force, ids, {})
  BY <1>1
<1> HIDE DEF chunk, new, force
<1> QED
  BY <1>2, <1>5, <1>6, <1>7, LonelyPrepared

LEMMA LonelySendContainer ==
  ASSUME IInv, OneOwner, IInv', ~collided', Lonely, SendContainer
  PROVE  Lonely'
<1>1. PICK ids \in [Chunk -> Ids], container \in Ids, states \in SUBSET Ids :
           /\ Sends(Chunk, ~markedAsStarted, ids, states \union {container})
           /\ states = IF stateData = {} THEN {} ELSE {container - 1}
           /\ Least(IF stateData = {} THEN container ELSE container - 1, Ahead(Chunk, ids))
           /\ inFlight' = inFlight \union
                {[id |-> container, inner |-> ChunkIds(Chunk, ids) \union states]}
  BY SendContainerFacts
<1>2. /\ thread' = "idle" /\ toSend' = toSend \ Chunk /\ hand' = hand
      /\ UNCHANGED <<mainVars, haveReceived, forced, seen, answers>>
  BY DEF SendContainer, Idle
<1> DEFINE new == {[id |-> container, inner |-> ChunkIds(Chunk, ids) \union states]}
<1>3. ASSUME NEW s \in states, s \notin ChunkIds(Chunk, ids), NEW q \in Requests PROVE ~Owns(q, s)'
  <2>1. s \in states \union {container} /\ hand' \subseteq hand
    BY <1>2
  <2> QED
    BY <1>1, <1>2, <1>3, <2>1, OthersAreUnowned
<1>4. /\ \A p \in new : \A m \in p.inner :
           m \in ChunkIds(Chunk, ids) \/ \A q \in Requests : ~Owns(q, m)'
      /\ \A p, q \in new : \A m \in p.inner : m \in q.inner => p = q
      /\ inFlight' = inFlight \union new
  BY <1>1, <1>3
<1>5. /\ \A r \in Chunk \ forced : msgIdOf[r] = 0 /\ In(r, 3)
      /\ toSend' \intersect Chunk = {} /\ toSend' \subseteq toSend /\ 3 \in 3..4
  BY <1>2, ChunkFacts DEF IInv, Lonely, SendsAreFresh, In
<1>6. Sends(Chunk, ~markedAsStarted, ids, states \union {container})
  BY <1>1
<1> HIDE DEF new
<1> QED
  BY <1>2, <1>4, <1>5, <1>6, LonelyPrepared

\* A request for states has an id of no request.
LEMMA LonelySendStateRequest ==
  ASSUME IInv, OneOwner, IInv', ~collided', Lonely, SendStateRequest
  PROVE  Lonely'
<1>0. /\ lastMsgId + 1 \in Ids /\ ~InUse(lastMsgId + 1)
      /\ inFlight' = inFlight \union {[id |-> lastMsgId + 1, inner |-> {lastMsgId + 1}]}
      /\ UNCHANGED <<mainVars, sharedVars, loopVars, resendingIds, ackedIds, seen, answers>>
  BY DEF SendStateRequest
<1>1. ASSUME NEW r \in Requests \ forced'
      PROVE  SentOnce(r)' /\ \A m \in Ids : OnNet(r, m)' => OnNet(r, m)
  <2>1. SentOnce(r)
    BY <1>0 DEF Lonely, Lone
  <2>2. \A m \in Ids : WasSent(m)' = WasSent(m)
    BY <1>0 DEF WasSent
  <2>3. \A m \in Ids : WasSent(m) = r => m # lastMsgId + 1
    <3>1. \A m \in Ids : WasSent(m) = r => Owns(r, m)
      BY WasSentIsOwner
    <3> QED
      BY <1>0, <3>1 DEF InUse
  <2>4. \A m \in Ids : WasSent(m) = r => \A p \in inFlight' : m \in p.inner => p \in inFlight
    BY <1>0, <2>3
  <2>5. \A m \in Ids : OnNet(r, m)' => OnNet(r, m)
    BY <1>0, <2>2, <2>4 DEF OnNet
  <2>6. \A m, n \in Ids : OnNet(r, m)' /\ OnNet(r, n)' => m = n
    BY <2>1, <2>5 DEF SentOnce
  <2>7. ASSUME NEW m \in Ids, WasSent(m)' = r
        PROVE  /\ \A p, q \in inFlight' : m \in p.inner /\ m \in q.inner => p = q
               /\ \A p \in inFlight' : m \in p.inner => m \notin seen'
    BY <1>0, <2>1, <2>2, <2>4, <2>7 DEF SentOnce
  <2> QED
    BY <2>5, <2>6, <2>7 DEF SentOnce
<1>2. ResentIsForced' /\ HandIsFresh' /\ \A r \in Requests : Single(r)' => Single(r)
  BY <1>0 DEF Lonely, ResentIsForced, HandIsFresh, Single
<1> QED
  BY <1>0, <1>1, <1>2, LonelyKept

LEMMA LonelyStep ==
  ASSUME IInv, OneOwner, ~collided', Lonely, PacketIds, [Next]_vars
  PROVE  Lonely'
<1>0. IInv'
  BY StepIInv
<1>1. ASSUME UNCHANGED <<mainVars, sharedVars, thread, hand, resendingIds, ackedIds>>,
             inFlight' \subseteq inFlight, answers' \subseteq answers, seen' \subseteq seen
      PROVE  Lonely'
  BY <1>0, <1>1, LonelyLess
<1>2. CASE Main
  BY <1>2, LonelyMain
<1>3. CASE UNCHANGED vars
  BY <1>1, <1>3 DEF vars
<1>4. CASE Server
  BY <1>0, <1>1, <1>4, LonelyReceived DEF Server, ServerForgets
<1>5. CASE Send \/ FinishSingle
  BY <1>0, <1>5, LonelySendSingle, LonelySendContainer, LonelySendStateRequest, LonelyFinishSingle
     DEF Send
<1>6. CASE SendNothing \/ CheckSentRequests
  <2>1. CASE SendNothing
    BY <1>1, <2>1 DEF SendNothing
  <2>2. CASE CheckSentRequests
    BY <1>1, <2>2 DEF CheckSentRequests
  <2> QED
    BY <1>6, <2>1, <2>2
<1>7. CASE TakeResent \/ PutResent \/ Connect
  BY <1>7, LonelyResend
<1>8. ASSUME NEW m \in Ids, ClearOldContainer(m) PROVE Lonely'
  BY <1>1, <1>8 DEF ClearOldContainer
<1>9. ASSUME NEW m \in Ids, RpcResult(m) \/ MsgsAck(m) \/ MsgsStateInfo(m) PROVE Lonely'
  BY <1>9, LonelyRpcResult, LonelyAcked
<1>10. ASSUME NEW p \in inFlight, NEW m \in Ids, BadMsgResend(p, m) \/ BadMsgFatal(p, m) PROVE Lonely'
  BY <1>10, LonelyRejected, LonelyFatal
<1>11. CASE KeyChanged \/ ClockSetBack \/ \E p \in inFlight : BadMsgReset(p)
  BY <1>1, <1>11 DEF KeyChanged, ClockSetBack, BadMsgReset, NewSessionId
<1>12. CASE NewSessionCreated
  BY <1>0, <1>12, LonelyReceived
<1>13. CASE ConnectionLost
  BY <1>1, <1>13 DEF ConnectionLost
<1> QED
  BY <1>2, <1>3, <1>4, <1>5, <1>6, <1>7, <1>8, <1>9, <1>10, <1>11, <1>12, <1>13 DEF Next, Session

\* A request that the session thread takes out of toSend to send it alone has no
\* message id yet, whatever the two threads have interleaved and however often it
\* was answered with an error, delayed or rejected: prepareToSend does not reach
\* replaceMsgId there, where only one of the two locks is held.  As soon as an id
\* that was in use was given to another message nothing is claimed any more.
THEOREM SingleSendsAreFresh == Spec => []SingleSendIsFresh
<1> DEFINE Inv == IInv /\ (collided \/ (Lonely /\ PacketIds))
<1>1. Init => Inv
  <2> SUFFICES ASSUME Init PROVE Inv
    OBVIOUS
  <2>1. IInv /\ PacketIds /\ ResentIsForced /\ HandIsFresh /\ SendsAreFresh
    BY InitIInv DEF Init, PacketIds, ResentIsForced, HandIsFresh, SendsAreFresh, NoIds
  <2>2. ASSUME NEW r \in Requests PROVE Lone(r)
    <3>1. \A k \in 1..6 : ~In(r, k)
      BY <2>1, NotStarted DEF Init
    <3>2. \A m \in Ids : WasSent(m) # r
      BY RequestsAssumption DEF Init, WasSent, NoIds
    <3> QED
      BY <3>1, <3>2 DEF Init, Lone, InOne, ReceivedOnce, SentOnce, OnNet
  <2> QED
    BY <2>1, <2>2 DEF Lonely
<1>2. Inv /\ [Next]_vars => Inv'
  <2> SUFFICES ASSUME Inv, [Next]_vars PROVE Inv'
    OBVIOUS
  <2>1. IInv'
    BY StepIInv
  <2>2. ASSUME ~collided' PROVE Lonely' /\ PacketIds'
    <3>1. OneOwner /\ Lonely /\ PacketIds
      BY <2>2, CollidedStays
    <3> QED
      BY <2>2, <3>1, LonelyStep, PacketIdsStep
  <2> QED
    BY <2>1, <2>2
<1>3. Inv => SingleSendIsFresh
  BY DEF Lonely, SendsAreFresh, SingleSendIsFresh
<1> QED
  BY <1>1, <1>2, <1>3, PTL DEF Spec
=============================================================================
