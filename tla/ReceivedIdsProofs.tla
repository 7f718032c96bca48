------------------------- MODULE ReceivedIdsProofs --------------------------
(***************************************************************************)
(* Proofs about ReceivedIds, for every window size, every finite set of    *)
(* ids and every bound.  The inductive invariant adds to the invariants of *)
(* the runs that a remembered id was handled exactly once and that the     *)
(* server's ids grow.                                                      *)
(***************************************************************************)
EXTENDS ReceivedIds, FiniteSetTheorems, TLAPS

HandledOnce == /\ \A m \in MsgIds : handled[m] \in {0, 1}
               /\ \A m \in idsNeedAck : handled[m] = 1

CreatedGrows == \A m \in created : m =< lastId

\* The bound leaves room for the restart a failed handler has asked for.
RestartHasRoom == res = "Restart" => breaks < MaxBreaks

IInv == /\ TypeOK
        /\ HandledOnce
        /\ HandledIsRemembered
        /\ AckedWasHandled
        /\ CreatedGrows
        /\ RestartHasRoom

-----------------------------------------------------------------------------

\* Every set of ids is finite, so that its cardinality is a number.
LEMMA IdsAreFinite ==
  ASSUME NEW S \in SUBSET MsgIds
  PROVE  IsFiniteSet(S) /\ Cardinality(S) \in Nat
  BY IdsAssumption, FS_Subset, FS_CardinalityType

\* shrink() keeps a window that is as large as it may be, and everything it
\* erases is older than all of it.
LEMMA ShrunkWindow ==
  ASSUME NEW S \in SUBSET MsgIds, NEW T \in SUBSET S, Shrunk(S, T)
  PROVE  /\ Cardinality(S) >= IdsBufferSize => Cardinality(T) >= IdsBufferSize
         /\ \A y \in S \ T : /\ Cardinality(T) >= IdsBufferSize
                             /\ \A x \in T : y < x
  <1>1. Cardinality(S) \in Nat /\ Cardinality(T) \in Nat
    <2>1. T \in SUBSET MsgIds
      OBVIOUS
    <2> QED
      BY <2>1, IdsAreFinite
  <1>2. CASE Cardinality(S) =< IdsBufferSize
    BY <1>1, <1>2 DEF Shrunk
  <1>3. CASE ~(Cardinality(S) =< IdsBufferSize)
    BY <1>1, <1>3, BufferAssumption DEF Shrunk
  <1> QED
    BY <1>2, <1>3

\* A message that is registered now was not handled before.
LEMMA NewIsUnhandled ==
  ASSUME IInv, NEW m \in MsgIds, Registered(m) = "Success"
  PROVE  m \notin idsNeedAck /\ handled[m] = 0
  <1>1. m \notin idsNeedAck
    BY DEF Registered
  <1>2. \/ Cardinality(idsNeedAck) < IdsBufferSize
        \/ \E x \in idsNeedAck : x < m
    BY <1>1 DEF Registered
  <1>3. idsNeedAck \in SUBSET MsgIds /\ handled \in [MsgIds -> Nat]
    BY DEF IInv, TypeOK
  <1>4. Cardinality(idsNeedAck) \in Nat
    BY <1>3, IdsAreFinite
  <1>5. ASSUME handled[m] > 0 PROVE FALSE
    <2>1. Remembered(m)
      BY <1>5 DEF IInv, HandledIsRemembered
    <2>2. Cardinality(idsNeedAck) >= IdsBufferSize /\ \A x \in idsNeedAck : m < x
      BY <1>1, <2>1 DEF Remembered
    <2> QED
      BY <1>2, <1>3, <1>4, <2>2, BufferAssumption, IdsAssumption
  <1> QED
    BY <1>1, <1>3, <1>5

\* Registering a message keeps every handled one remembered.
LEMMA RegisteringRemembers ==
  ASSUME IInv, NEW m \in MsgIds, Registered(m) = "Success",
         idsNeedAck' = idsNeedAck \union {m},
         handled' = [handled EXCEPT ![m] = @ + 1]
  PROVE  HandledIsRemembered' /\ HandledOnce'
  <1>1. m \notin idsNeedAck /\ handled[m] = 0
    BY NewIsUnhandled
  <1>2. idsNeedAck \in SUBSET MsgIds /\ handled \in [MsgIds -> Nat]
    BY DEF IInv, TypeOK
  <1>3. \/ Cardinality(idsNeedAck) < IdsBufferSize
        \/ \E x \in idsNeedAck : x < m
    BY <1>1 DEF Registered
  <1>4. /\ IsFiniteSet(idsNeedAck) /\ Cardinality(idsNeedAck) \in Nat
        /\ Cardinality(idsNeedAck') = Cardinality(idsNeedAck) + 1
    BY <1>1, <1>2, IdsAreFinite, FS_AddElement
  <1>5. HandledOnce'
    BY <1>1, <1>2 DEF IInv, HandledOnce
  <1>6. ASSUME NEW h \in MsgIds, handled'[h] > 0 PROVE Remembered(h)'
    <2>1. CASE h \in idsNeedAck'
      BY <2>1 DEF Remembered
    <2>2. CASE h \notin idsNeedAck'
      <3>1. h # m /\ handled[h] > 0 /\ h \notin idsNeedAck
        BY <1>2, <1>6, <2>2
      <3>2. /\ Cardinality(idsNeedAck) >= IdsBufferSize
            /\ \A x \in idsNeedAck : h < x
        BY <3>1 DEF IInv, HandledIsRemembered, Remembered
      <3>3. PICK x \in idsNeedAck : x < m
        BY <1>3, <1>4, <3>2, BufferAssumption
      <3>4. h < m
        <4>1. h < x
          BY <3>2
        <4>2. x \in Nat /\ h \in Nat /\ m \in Nat
          BY <1>2, IdsAssumption
        <4> QED
          BY <3>3, <4>1, <4>2
      <3>5. Cardinality(idsNeedAck') >= IdsBufferSize
        BY <1>4, <3>2, BufferAssumption
      <3> QED
        BY <3>2, <3>4, <3>5 DEF Remembered
    <2> QED
      BY <2>1, <2>2
  <1> QED
    BY <1>5, <1>6 DEF HandledIsRemembered

\* shrink() keeps every handled message remembered.
LEMMA ShrinkingRemembers ==
  ASSUME IInv, idsNeedAck' \in SUBSET idsNeedAck,
         Shrunk(idsNeedAck, idsNeedAck'), handled' = handled
  PROVE  HandledIsRemembered' /\ HandledOnce'
  <1>1. idsNeedAck \in SUBSET MsgIds
    BY DEF IInv, TypeOK
  <1>2. /\ Cardinality(idsNeedAck) >= IdsBufferSize
             => Cardinality(idsNeedAck') >= IdsBufferSize
        /\ \A y \in idsNeedAck \ idsNeedAck' :
             /\ Cardinality(idsNeedAck') >= IdsBufferSize
             /\ \A x \in idsNeedAck' : y < x
    BY <1>1, ShrunkWindow
  <1>3. HandledOnce'
    BY DEF IInv, HandledOnce
  <1>4. ASSUME NEW h \in MsgIds, handled'[h] > 0 PROVE Remembered(h)'
    <2>1. Remembered(h)
      BY <1>4 DEF IInv, HandledIsRemembered
    <2> QED
      BY <1>2, <2>1 DEF Remembered
  <1> QED
    BY <1>3, <1>4 DEF HandledIsRemembered

\* What one message does to the session.
LEMMA HandleMessageKeeps ==
  ASSUME IInv, res = "Success",
         NEW m \in MsgIds, NEW contents \in Seq(MsgIds), NEW rest \in Seq(MsgIds),
         HandleMessage(m, contents, rest)
  PROVE  /\ HandledIsRemembered' /\ HandledOnce'
         /\ idsNeedAck' \subseteq MsgIds /\ handled' \in [MsgIds -> Nat]
         /\ ackRequestData' \subseteq MsgIds /\ resendRequestData' \subseteq MsgIds
         /\ res' \in Results
         /\ inner' \in Seq(MsgIds) /\ (inner' # <<>> => res' = "Success")
         /\ \A x \in MsgIds : handled[x] = 1 => handled'[x] = 1
         /\ \A x \in ackRequestData' :
              handled'[x] = 1 \/ x \in unread \/ res' = "ResetSession"
         /\ res' = "Restart" => breaks < MaxBreaks
  <1>0. /\ idsNeedAck \subseteq MsgIds /\ handled \in [MsgIds -> Nat]
        /\ ackRequestData \subseteq MsgIds /\ resendRequestData \subseteq MsgIds
        /\ \A x \in ackRequestData : handled[x] = 1 \/ x \in unread
        /\ Queued(m) \subseteq ackRequestData \union {m}
    BY DEF IInv, TypeOK, AckedWasHandled, Queued
  <1>1. CASE /\ Registered(m) = "Duplicate"
             /\ ackRequestData' = Queued(m)
             /\ res' = "Success" /\ inner' = rest
             /\ UNCHANGED <<idsNeedAck, handled, resendRequestData>>
    <2>1. m \in idsNeedAck
      BY <1>1 DEF Registered
    <2>2. handled[m] = 1
      BY <2>1 DEF IInv, HandledOnce
    <2>3. HandledIsRemembered' /\ HandledOnce'
      BY <1>1 DEF IInv, HandledIsRemembered, HandledOnce, Remembered
    <2> QED
      BY <1>0, <1>1, <2>2, <2>3 DEF Results
  <1>2. CASE /\ Registered(m) = "Success"
             /\ idsNeedAck' = idsNeedAck \union {m}
             /\ handled' = [handled EXCEPT ![m] = @ + 1]
             /\ RunHandler(m)
             /\ inner' = Remaining(res', contents, rest)
    <2>1. HandledIsRemembered' /\ HandledOnce'
      BY <1>2, RegisteringRemembers
    <2>2. handled[m] = 0 /\ m \notin idsNeedAck
      BY <1>2, NewIsUnhandled
    <2>3. handled'[m] = 1 /\ \A x \in MsgIds : handled[x] = 1 => handled'[x] = 1
      BY <1>0, <1>2, <2>2
    <2>4. /\ res' \in Results
          /\ res' = "Restart" => breaks < MaxBreaks
          /\ \/ ackRequestData' = Queued(m)
             \/ /\ m \in InfoIds /\ InfoAbout[m] \in idsNeedAck
                /\ ackRequestData' = Queued(m) \union {InfoAbout[m]}
          /\ \/ resendRequestData' = resendRequestData
             \/ /\ m \in InfoIds
                /\ resendRequestData' = resendRequestData \union {InfoAbout[m]}
      BY <1>2 DEF RunHandler
    <2>5. \A x \in idsNeedAck : handled[x] = 1
      BY DEF IInv, HandledOnce
    <2>6. \A x \in ackRequestData' : x \in MsgIds /\ (handled'[x] = 1 \/ x \in unread)
      BY <1>0, <2>3, <2>4, <2>5
    <2>7. resendRequestData' \subseteq MsgIds
      BY <1>0, <2>4, KindsAssumption
    <2>8. contents \o rest \in Seq(MsgIds) /\ <<>> \in Seq(MsgIds)
      OBVIOUS
    <2>9. inner' \in Seq(MsgIds) /\ (inner' # <<>> => res' = "Success")
      BY <1>2, <2>8 DEF Remaining
    <2>10. idsNeedAck' \subseteq MsgIds /\ handled' \in [MsgIds -> Nat]
      BY <1>0, <1>2
    <2> QED
      BY <2>1, <2>3, <2>4, <2>6, <2>7, <2>9, <2>10 DEF Results
  <1>3. CASE /\ Registered(m) = "TooOld"
             /\ ackRequestData' = Queued(m)
             /\ res' = "ResetSession" /\ inner' = <<>>
             /\ UNCHANGED <<idsNeedAck, handled, resendRequestData>>
    <2>1. HandledIsRemembered' /\ HandledOnce'
      BY <1>3 DEF IInv, HandledIsRemembered, HandledOnce, Remembered
    <2> QED
      BY <1>0, <1>3, <2>1 DEF Results
  <1> QED
    BY <1>1, <1>2, <1>3 DEF HandleMessage

-----------------------------------------------------------------------------

LEMMA InitIInv == Init => IInv
  <1> SUFFICES ASSUME Init PROVE IInv
    OBVIOUS
  <1>1. TypeOK
    <2>1. inner \in Seq(MsgIds) /\ inner = <<>>
      BY DEF Init
    <2>2. breaks \in 0..MaxBreaks
      BY BoundsAssumption DEF Init
    <2> QED
      BY <2>1, <2>2 DEF Init, TypeOK, Results
  <1>2. /\ HandledOnce /\ HandledIsRemembered /\ AckedWasHandled
        /\ CreatedGrows /\ RestartHasRoom
    BY DEF Init, HandledOnce, HandledIsRemembered, AckedWasHandled, CreatedGrows,
           RestartHasRoom
  <1> QED
    BY <1>1, <1>2 DEF IInv

\* An action that handles a message and leaves the server's side alone, but for
\* the id of a container.
LEMMA HandlingKeepsIInv ==
  ASSUME IInv, busy' = TRUE, res = "Success",
         NEW m \in MsgIds, NEW contents \in Seq(MsgIds), NEW rest \in Seq(MsgIds),
         HandleMessage(m, contents, rest),
         lastId' \in Nat, lastId =< lastId',
         UNCHANGED <<unread, created, pending, acksOnWire, breaks>>
  PROVE  IInv'
  <1>1. /\ HandledIsRemembered' /\ HandledOnce'
        /\ idsNeedAck' \subseteq MsgIds /\ handled' \in [MsgIds -> Nat]
        /\ ackRequestData' \subseteq MsgIds /\ resendRequestData' \subseteq MsgIds
        /\ res' \in Results
        /\ inner' \in Seq(MsgIds) /\ (inner' # <<>> => res' = "Success")
        /\ \A x \in MsgIds : handled[x] = 1 => handled'[x] = 1
        /\ \A x \in ackRequestData' :
             handled'[x] = 1 \/ x \in unread \/ res' = "ResetSession"
        /\ res' = "Restart" => breaks < MaxBreaks
    BY HandleMessageKeeps
  <1>2. TypeOK'
    BY <1>1 DEF IInv, TypeOK
  <1>3. AckedWasHandled'
    BY <1>1 DEF IInv, TypeOK, AckedWasHandled
  <1>4. CreatedGrows'
    <2>1. \A x \in created : x \in Nat /\ x =< lastId /\ lastId \in Nat
      BY IdsAssumption DEF IInv, TypeOK, CreatedGrows
    <2> QED
      BY <2>1 DEF CreatedGrows
  <1>5. RestartHasRoom'
    BY <1>1 DEF RestartHasRoom
  <1> QED
    BY <1>1, <1>2, <1>3, <1>4, <1>5 DEF IInv

\* The server's created messages stay below its last id.
LEMMA CreatedKept ==
  ASSUME IInv, UNCHANGED <<created, lastId>>
  PROVE  CreatedGrows'
  BY DEF IInv, CreatedGrows

LEMMA NextIInv == IInv /\ [Next]_vars => IInv'
  <1> SUFFICES ASSUME IInv, [Next]_vars PROVE IInv'
    OBVIOUS
  <1> USE DEF requests, handling, server
  <1>0. /\ TypeOK /\ HandledOnce /\ HandledIsRemembered /\ AckedWasHandled
        /\ CreatedGrows /\ RestartHasRoom
    BY DEF IInv
  <1>1. CASE \E m \in MsgIds : ServerCreates(m)
    <2>1. PICK m \in MsgIds : ServerCreates(m)
      BY <1>1
    <2>2. m \in Nat /\ lastId \in Nat /\ \A x \in created : x \in Nat
      BY <1>0, IdsAssumption DEF TypeOK
    <2>3. TypeOK'
      BY <1>0, <2>1, <2>2 DEF TypeOK, ServerCreates
    <2>4. HandledOnce' /\ HandledIsRemembered'
      BY <1>0, <2>1 DEF ServerCreates, HandledOnce, HandledIsRemembered, Remembered
    <2>5. AckedWasHandled'
      BY <1>0, <2>1 DEF ServerCreates, AckedWasHandled
    <2>6. CreatedGrows'
      BY <1>0, <2>1, <2>2 DEF ServerCreates, CreatedGrows
    <2>7. RestartHasRoom'
      BY <1>0, <2>1 DEF ServerCreates, RestartHasRoom
    <2> QED
      BY <2>3, <2>4, <2>5, <2>6, <2>7 DEF IInv
  <1>2. CASE \E m \in MsgIds : ServerAcked(m)
    <2>1. PICK m \in MsgIds : ServerAcked(m)
      BY <1>2
    <2>2. TypeOK'
      BY <1>0, <2>1 DEF TypeOK, ServerAcked
    <2>3. HandledOnce' /\ HandledIsRemembered'
      BY <1>0, <2>1 DEF ServerAcked, HandledOnce, HandledIsRemembered, Remembered
    <2>4. AckedWasHandled'
      BY <1>0, <2>1 DEF ServerAcked, AckedWasHandled
    <2>5. CreatedGrows'
      BY <2>1, CreatedKept DEF ServerAcked
    <2>6. RestartHasRoom'
      BY <1>0, <2>1 DEF ServerAcked, RestartHasRoom
    <2> QED
      BY <2>2, <2>3, <2>4, <2>5, <2>6 DEF IInv
  <1>3. CASE \E m \in MsgIds : Receive(m)
    <2>1. PICK m \in MsgIds : Receive(m)
      BY <1>3
    <2>2. /\ res = "Success" /\ <<>> \in Seq(MsgIds)
          /\ lastId' \in Nat /\ lastId =< lastId'
      BY <1>0, <2>1 DEF TypeOK, Receive
    <2>3. /\ HandleMessage(m, <<>>, <<>>) /\ busy' = TRUE
          /\ UNCHANGED <<unread, created, pending, acksOnWire, breaks>>
      BY <2>1 DEF Receive
    <2> QED
      BY <2>2, <2>3, HandlingKeepsIInv
  <1>4. CASE \E c \in MsgIds, contents \in Contents : ReceiveContainer(c, contents)
    <2>1. PICK c \in MsgIds, contents \in Contents : ReceiveContainer(c, contents)
      BY <1>4
    <2>2. /\ res = "Success" /\ <<>> \in Seq(MsgIds)
          /\ lastId \in Nat /\ lastId' \in Nat /\ lastId =< lastId'
      BY <1>0, <2>1, IdsAssumption DEF TypeOK, ReceiveContainer
    <2>3. contents \in Seq(MsgIds)
      BY <1>0, BoundsAssumption DEF Contents, TypeOK
    <2> QED
      BY <2>1, <2>2, <2>3, HandlingKeepsIInv DEF ReceiveContainer
  <1>5. CASE HandleInner
    <2>1. /\ res = "Success" /\ <<>> \in Seq(MsgIds)
          /\ Head(inner) \in MsgIds /\ Tail(inner) \in Seq(MsgIds)
          /\ lastId' \in Nat /\ lastId =< lastId'
      BY <1>0, <1>5 DEF TypeOK, HandleInner
    <2>2. busy' = TRUE
      BY <1>0, <1>5 DEF TypeOK, HandleInner
    <2>3. /\ HandleMessage(Head(inner), <<>>, Tail(inner))
          /\ UNCHANGED <<unread, created, pending, acksOnWire, breaks>>
      BY <1>5 DEF HandleInner
    <2> QED
      BY <2>1, <2>2, <2>3, HandlingKeepsIInv
  <1>6. CASE Finish \/ FinishRestart
    <2>1. /\ idsNeedAck' \in SUBSET idsNeedAck /\ Shrunk(idsNeedAck, idsNeedAck')
          /\ handled' = handled
      BY <1>6 DEF Finish, FinishRestart
    <2>2. HandledOnce' /\ HandledIsRemembered'
      BY <2>1, ShrinkingRemembers
    <2>3. TypeOK'
      <3>1. FinishRestart => breaks' \in 0..MaxBreaks
        BY <1>0, BoundsAssumption DEF TypeOK, RestartHasRoom, FinishRestart
      <3> QED
        BY <1>0, <1>6, <2>1, <3>1 DEF TypeOK, Finish, FinishRestart, Results
    <2>4. AckedWasHandled'
      BY <1>0, <1>6 DEF AckedWasHandled, Finish, FinishRestart
    <2>5. CreatedGrows'
      BY <1>6, CreatedKept DEF Finish, FinishRestart
    <2>6. RestartHasRoom'
      BY <1>6 DEF RestartHasRoom, Finish, FinishRestart
    <2> QED
      BY <2>2, <2>3, <2>4, <2>5, <2>6 DEF IInv
  <1>7. CASE FinishReset \/ KeyChanged
    <2>1. NewSession /\ inner = <<>> /\ busy' = FALSE /\ res' = "Success"
      BY <1>0, <1>7 DEF TypeOK, FinishReset, KeyChanged
    <2>2. TypeOK'
      BY <1>0, <2>1 DEF TypeOK, NewSession, Results
    <2>3. /\ HandledOnce' /\ HandledIsRemembered'
          /\ AckedWasHandled' /\ CreatedGrows' /\ RestartHasRoom'
      BY <2>1 DEF NewSession, HandledOnce, HandledIsRemembered, AckedWasHandled,
                  CreatedGrows, RestartHasRoom
    <2> QED
      BY <2>2, <2>3 DEF IInv
  <1>8. CASE SendRequests
    <2>1. TypeOK'
      BY <1>0, <1>8 DEF TypeOK, SendRequests
    <2>2. HandledOnce' /\ HandledIsRemembered'
      BY <1>0, <1>8 DEF SendRequests, HandledOnce, HandledIsRemembered, Remembered
    <2>3. AckedWasHandled'
      BY <1>0, <1>8 DEF SendRequests, AckedWasHandled, TypeOK
    <2>4. CreatedGrows'
      BY <1>8, CreatedKept DEF SendRequests
    <2>5. RestartHasRoom'
      BY <1>0, <1>8 DEF RestartHasRoom, SendRequests, TypeOK
    <2> QED
      BY <2>1, <2>2, <2>3, <2>4, <2>5 DEF IInv
  <1>9. CASE ConnectionLost
    <2>1. TypeOK'
      BY <1>0, <1>9, BoundsAssumption DEF TypeOK, ConnectionLost
    <2>2. HandledOnce' /\ HandledIsRemembered'
      BY <1>0, <1>9 DEF ConnectionLost, HandledOnce, HandledIsRemembered, Remembered
    <2>3. AckedWasHandled'
      BY <1>0, <1>9 DEF ConnectionLost, AckedWasHandled
    <2>4. CreatedGrows'
      BY <1>9, CreatedKept DEF ConnectionLost
    <2>5. RestartHasRoom'
      BY <1>0, <1>9 DEF RestartHasRoom, ConnectionLost, TypeOK
    <2> QED
      BY <2>1, <2>2, <2>3, <2>4, <2>5 DEF IInv
  <1>10. CASE HandleInnerCut
    <2>1. Head(inner) \in MsgIds
      BY <1>0, <1>10 DEF TypeOK, HandleInnerCut
    <2>2. TypeOK'
      BY <1>0, <1>10, <2>1 DEF TypeOK, HandleInnerCut, Queued, Results
    <2>3. HandledOnce' /\ HandledIsRemembered'
      BY <1>0, <1>10 DEF HandleInnerCut, HandledOnce, HandledIsRemembered, Remembered
    <2>4. AckedWasHandled'
      BY <1>0, <1>10 DEF HandleInnerCut, AckedWasHandled, Queued, TypeOK
    <2>5. CreatedGrows'
      BY <1>10, CreatedKept DEF HandleInnerCut
    <2>6. RestartHasRoom'
      BY <1>10 DEF HandleInnerCut, RestartHasRoom
    <2> QED
      BY <2>2, <2>3, <2>4, <2>5, <2>6 DEF IInv
  <1>11. CASE UNCHANGED vars
    BY <1>0, <1>11 DEF vars, IInv, TypeOK, HandledOnce, HandledIsRemembered,
                       Remembered, AckedWasHandled, CreatedGrows, RestartHasRoom
  <1> QED
    BY <1>1, <1>2, <1>3, <1>4, <1>5, <1>6, <1>7, <1>8, <1>9, <1>10, <1>11 DEF Next

-----------------------------------------------------------------------------

\* The invariant of every run, for every window size and set of ids.
THEOREM Invariant == Spec => []IInv
  <1>1. Init => IInv
    BY InitIInv
  <1>2. IInv /\ [Next]_vars => IInv'
    BY NextIInv
  <1> QED
    BY <1>1, <1>2, PTL DEF Spec

\* Every variable of the receiving half has its type.
THEOREM TypeCorrect == Spec => []TypeOK
  <1>1. IInv => TypeOK
    BY DEF IInv
  <1> QED
    BY <1>1, Invariant, PTL

\* The bounded window loses no knowledge: a handled message is in it or would
\* be refused as too old (ReceivedIdsManager::registerMsgId and shrink).
THEOREM HandledStaysRemembered == Spec => []HandledIsRemembered
  <1>1. IInv => HandledIsRemembered
    BY DEF IInv
  <1> QED
    BY <1>1, Invariant, PTL

\* The server is never told that a message arrived which was not handled in the
\* session it belongs to, but for one whose container was cut short of it, whose
\* acknowledgement was queued before (handleReceived, its loop over a container and
\* changeSessionId).
THEOREM NoFalseAck == Spec => []AckedWasHandled
  <1>1. IInv => AckedWasHandled
    BY DEF IInv
  <1> QED
    BY <1>1, Invariant, PTL

\* Between two packets shrink() has left no more than the window holds.
WindowIsCut == ~busy => Cardinality(idsNeedAck) =< IdsBufferSize

LEMMA WindowIsCutStep ==
  ASSUME IInv, WindowIsCut, [Next]_vars
  PROVE  WindowIsCut'
  <1> USE DEF requests, handling, server
  <1>1. CASE Finish \/ FinishRestart
    <2>1. idsNeedAck' \in SUBSET idsNeedAck /\ Shrunk(idsNeedAck, idsNeedAck')
      BY <1>1 DEF Finish, FinishRestart
    <2>2. Cardinality(idsNeedAck) \in Nat /\ IdsBufferSize \in Nat
      BY IdsAssumption, BufferAssumption, FS_Subset, FS_CardinalityType DEF IInv, TypeOK
    <2>3. Cardinality(idsNeedAck') =< IdsBufferSize
      BY <2>1, <2>2 DEF Shrunk
    <2> QED
      BY <2>3 DEF WindowIsCut
  <1>2. CASE FinishReset \/ KeyChanged
    <2>1. idsNeedAck' = {}
      BY <1>2 DEF FinishReset, KeyChanged, NewSession
    <2> QED
      BY <2>1, FS_EmptySet, BufferAssumption DEF WindowIsCut
  <1>3. CASE \E m \in MsgIds : Receive(m)
    BY <1>3 DEF WindowIsCut, Receive, IInv, TypeOK
  <1>4. CASE \E c \in MsgIds, contents \in Contents : ReceiveContainer(c, contents)
    BY <1>4 DEF WindowIsCut, ReceiveContainer
  <1>5. CASE HandleInner \/ HandleInnerCut
    BY <1>5 DEF WindowIsCut, HandleInner, HandleInnerCut
  <1>6. CASE \E m \in MsgIds : ServerCreates(m) \/ ServerAcked(m)
    BY <1>6 DEF WindowIsCut, ServerCreates, ServerAcked
  <1>7. CASE SendRequests \/ ConnectionLost
    BY <1>7 DEF WindowIsCut, SendRequests, ConnectionLost
  <1>8. CASE UNCHANGED vars
    BY <1>8 DEF WindowIsCut, vars
  <1> QED
    BY <1>1, <1>2, <1>3, <1>4, <1>5, <1>6, <1>7, <1>8 DEF Next

\* A window that is cut and that forgot only what is older than all of it holds the
\* newest ids.
LEMMA CutWindowIsNewest == IInv /\ WindowIsCut => WindowIsNewest
  <1> DEFINE Known == {m \in MsgIds : handled[m] > 0}
             Newer(m) == {x \in Known : x > m}
             N == IdsBufferSize
  <1> SUFFICES ASSUME IInv, Cardinality(idsNeedAck) =< N
               PROVE  idsNeedAck = {m \in Known : Cardinality(Newer(m)) < N}
    BY DEF WindowIsCut, WindowIsNewest
  <1>1. /\ idsNeedAck \subseteq Known /\ Known \subseteq MsgIds /\ MsgIds \subseteq Nat
        /\ IsFiniteSet(MsgIds) /\ N \in Nat
        /\ \A m \in Known \ idsNeedAck : /\ Cardinality(idsNeedAck) >= N
                                         /\ \A x \in idsNeedAck : m < x
    BY IdsAssumption, BufferAssumption
       DEF IInv, TypeOK, HandledOnce, HandledIsRemembered, Remembered
  <1> HIDE DEF Known, N
  <1>2. \A m \in Known : Newer(m) \subseteq MsgIds
    BY <1>1
  <1>3. /\ IsFiniteSet(idsNeedAck) /\ Cardinality(idsNeedAck) \in Nat
        /\ \A m \in Known : IsFiniteSet(Newer(m)) /\ Cardinality(Newer(m)) \in Nat
    BY <1>1, <1>2, FS_Subset, FS_CardinalityType
  <1>4. ASSUME NEW m \in idsNeedAck PROVE Cardinality(Newer(m)) < N
    <2>1. Newer(m) \subseteq idsNeedAck \ {m}
      <3> SUFFICES ASSUME NEW x \in Known, x > m PROVE x \in idsNeedAck \ {m}
        OBVIOUS
      <3>1. x \in Nat /\ m \in Nat
        BY <1>1
      <3> QED
        BY <1>1, <3>1
    <2>2. /\ IsFiniteSet(idsNeedAck \ {m})
          /\ Cardinality(idsNeedAck \ {m}) = Cardinality(idsNeedAck) - 1
      BY <1>3, FS_RemoveElement
    <2>3. Cardinality(Newer(m)) =< Cardinality(idsNeedAck \ {m})
      BY <2>1, <2>2, FS_Subset
    <2> QED
      BY <1>1, <1>3, <2>2, <2>3
  <1>5. ASSUME NEW m \in Known \ idsNeedAck PROVE ~(Cardinality(Newer(m)) < N)
    <2>1. idsNeedAck \subseteq Newer(m)
      BY <1>1
    <2>2. Cardinality(idsNeedAck) =< Cardinality(Newer(m))
      BY <1>3, <2>1, FS_Subset
    <2> QED
      BY <1>1, <1>3, <2>2
  <1> QED
    BY <1>1, <1>4, <1>5

\* Between two packets the window holds exactly the newest of the ids handled in the
\* session, in whatever order and in whatever containers they came (shrink()).
THEOREM WindowHoldsNewest == Spec => []WindowIsNewest
  <1>1. Init => WindowIsCut
    BY FS_EmptySet, BufferAssumption DEF Init, WindowIsCut
  <1>2. IInv /\ WindowIsCut /\ [Next]_vars => WindowIsCut'
    BY WindowIsCutStep
  <1>3. IInv /\ WindowIsCut => WindowIsNewest
    BY CutWindowIsNewest
  <1> QED
    BY <1>1, <1>2, <1>3, Invariant, PTL DEF Spec

-----------------------------------------------------------------------------

\* A message leaves the abstract state alone or is handled for the first time.
LEMMA HandleMessageRefines ==
  ASSUME IInv, NEW m \in MsgIds, NEW contents, NEW rest,
         HandleMessage(m, contents, rest), UNCHANGED <<unread, created, pending>>
  PROVE  [Promise!Next]_Promise!vars
  <1>1. CASE UNCHANGED handled
    BY <1>1 DEF Promise!vars
  <1>2. CASE Registered(m) = "Success" /\ handled' = [handled EXCEPT ![m] = @ + 1]
    <2>1. handled[m] = 0
      BY <1>2, NewIsUnhandled
    <2>2. handled' = [handled EXCEPT ![m] = 1]
      BY <1>2, <2>1 DEF IInv, TypeOK
    <2>3. Promise!Handle(m)
      BY <2>1, <2>2 DEF Promise!Handle
    <2> QED
      BY <2>3 DEF Promise!Next
  <1> QED
    BY <1>1, <1>2 DEF HandleMessage

LEMMA NextRefines == IInv /\ [Next]_vars => [Promise!Next]_Promise!vars
  <1> SUFFICES ASSUME IInv, [Next]_vars PROVE [Promise!Next]_Promise!vars
    OBVIOUS
  <1> USE DEF requests, handling, server
  <1>1. CASE \E m \in MsgIds : ServerCreates(m)
    <2>1. PICK m \in MsgIds : ServerCreates(m)
      BY <1>1
    <2>2. m \notin created
      BY <2>1, IdsAssumption DEF IInv, TypeOK, CreatedGrows, ServerCreates
    <2>3. (created' \intersect NeedAck) \ pending' = (created \intersect NeedAck) \ pending
      BY <2>1, <2>2 DEF ServerCreates
    <2> QED
      BY <2>1, <2>3 DEF ServerCreates, Promise!vars
  <1>2. CASE \E m \in MsgIds : ServerAcked(m)
    <2>1. PICK m \in MsgIds : ServerAcked(m)
      BY <1>2
    <2>2. handled[m] = 1 \/ m \in unread
      BY <2>1 DEF IInv, AckedWasHandled, ServerAcked
    <2>3. CASE m \in created \intersect NeedAck
      <3>1. (created' \intersect NeedAck) \ pending'
              = ((created \intersect NeedAck) \ pending) \union {m}
        BY <2>1, <2>3 DEF ServerAcked
      <3>2. Promise!Acknowledge(m)
        BY <2>1, <2>2, <3>1 DEF ServerAcked, Promise!Acknowledge
      <3> QED
        BY <3>2 DEF Promise!Next
    <2>4. CASE m \notin created \intersect NeedAck
      <3>1. pending' = pending
        BY <2>1, <2>4 DEF ServerAcked, IInv, TypeOK
      <3> QED
        BY <2>1, <3>1 DEF ServerAcked, Promise!vars
    <2> QED
      BY <2>3, <2>4
  <1>3. CASE \E m \in MsgIds : Receive(m)
    BY <1>3, HandleMessageRefines DEF Receive
  <1>4. CASE \E c \in MsgIds, contents \in Contents : ReceiveContainer(c, contents)
    BY <1>4, HandleMessageRefines DEF ReceiveContainer
  <1>5. CASE HandleInner
    <2>1. Head(inner) \in MsgIds
      BY <1>5 DEF IInv, TypeOK, HandleInner
    <2> QED
      BY <1>5, <2>1, HandleMessageRefines DEF HandleInner
  <1>6. CASE FinishReset \/ KeyChanged
    <2>1. Promise!NewSession
      BY <1>6 DEF FinishReset, KeyChanged, NewSession, Promise!NewSession, Promise!Nothing
    <2> QED
      BY <2>1 DEF Promise!Next
  <1>7. CASE Finish \/ FinishRestart \/ SendRequests \/ ConnectionLost
    BY <1>7 DEF Finish, FinishRestart, SendRequests, ConnectionLost, Promise!vars
  <1>9. CASE HandleInnerCut
    <2>1. Head(inner) \in MsgIds
      BY <1>9 DEF IInv, TypeOK, HandleInnerCut
    <2>2. UNCHANGED <<handled, unread, created, pending>> \/ Promise!Cut(Head(inner))
      BY <1>9 DEF HandleInnerCut, Promise!Cut
    <2> QED
      BY <2>1, <2>2 DEF Promise!vars, Promise!Next
  <1>8. CASE UNCHANGED vars
    BY <1>8 DEF vars, Promise!vars
  <1> QED
    BY <1>1, <1>2, <1>3, <1>4, <1>5, <1>6, <1>7, <1>8, <1>9 DEF Next

\* A bounded window does what a receiver with an unbounded memory would: every
\* message of a session is handled at most once, and acknowledged only then or when
\* it could not be read in its container.
THEOREM KeepsPromise == Spec => PromiseKept
  <1>1. Init => Promise!Init
    BY DEF Init, Promise!Init, Promise!Nothing
  <1>2. IInv /\ [Next]_vars => [Promise!Next]_Promise!vars
    BY NextRefines
  <1> QED
    BY <1>1, <1>2, Invariant, PTL DEF Spec, PromiseKept, Promise!Spec
=============================================================================
