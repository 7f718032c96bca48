---------------------------- MODULE ReceivedIds -----------------------------
(***************************************************************************)
(* The receiving half of a session thread: SessionPrivate::handleReceived, *)
(* the container branch of handleOneReceived and the ReceivedIdsManager    *)
(* that remembers the last IdsBufferSize message ids of the session.       *)
(*                                                                         *)
(* handleReceived runs on one thread and nothing else touches the ids, so  *)
(* its loop over a container is written as one step per message: a packet  *)
(* starts with Receive or ReceiveContainer, each contained message is one  *)
(* HandleInner, and Finish is what handleReceived does after the handlers  *)
(* (shrink, restart).  busy keeps every other event of that thread out.    *)
(*                                                                         *)
(* The server and the network are not in src/: the server creates messages *)
(* with growing ids, repeats any message of the session in any order, and  *)
(* keeps in `pending` those it will repeat until they are acknowledged.    *)
(***************************************************************************)
EXTENDS Integers, Sequences, FiniteSets

CONSTANTS IdsBufferSize,  \* kIdsBufferSize
          MsgIds,         \* ids the server can use
          NeedAck,        \* ids of messages whose seqno is odd
          InfoIds,        \* ids of msg_detailed_info messages
          InfoAbout,      \* the answer each of those describes
          MaxInner,       \* bound: messages in a container
          MaxBreaks       \* bound: connections broken by network or handler

ASSUME BufferAssumption == IdsBufferSize \in Nat \ {0}
ASSUME IdsAssumption == MsgIds \subseteq Nat /\ IsFiniteSet(MsgIds)
ASSUME KindsAssumption == /\ NeedAck \subseteq MsgIds
                          /\ InfoIds \subseteq MsgIds
                          /\ InfoAbout \in [InfoIds -> MsgIds \ InfoIds]
ASSUME BoundsAssumption == MaxInner \in Nat /\ MaxBreaks \in Nat

VARIABLES
  idsNeedAck,         \* ReceivedIdsManager::_idsNeedAck, its keys
  ackRequestData,     \* SessionPrivate::_ackRequestData
  resendRequestData,  \* SessionPrivate::_resendRequestData
  busy,               \* handleReceived is working on a packet
  inner,              \* messages of the container still to be handled
  res,                \* the HandleResult so far
  handled,            \* history: how often each message of this session was
                      \* given to handleOneReceived
  unread,             \* history: messages of this session whose acknowledgement
                      \* was queued before their container proved too short
  created,            \* server: messages of this session
  lastId,             \* server: the largest id used so far
  pending,            \* server: not acknowledged yet
  acksOnWire,         \* acknowledgements on the way to the server
  breaks              \* connections broken so far

requests == <<ackRequestData, resendRequestData>>
handling == <<idsNeedAck, requests, busy, inner, res, handled, unread>>
server == <<created, lastId, pending>>
vars == <<handling, server, acksOnWire, breaks>>

Results == {"Success", "Ignored", "Restart", "ResetSession"}

TypeOK == /\ idsNeedAck \subseteq MsgIds
          /\ ackRequestData \subseteq MsgIds
          /\ resendRequestData \subseteq MsgIds
          /\ busy \in BOOLEAN
          /\ res \in Results /\ (~busy => res = "Success")
          /\ inner \in Seq(MsgIds) /\ (inner # <<>> => busy /\ res = "Success")
          /\ handled \in [MsgIds -> Nat] /\ unread \subseteq MsgIds
          /\ created \subseteq MsgIds
          /\ lastId \in Nat
          /\ pending \subseteq created \intersect NeedAck
          /\ acksOnWire \subseteq MsgIds
          /\ breaks \in 0..MaxBreaks

Init == /\ idsNeedAck = {} /\ handled = [m \in MsgIds |-> 0] /\ unread = {}
        /\ ackRequestData = {} /\ resendRequestData = {}
        /\ busy = FALSE /\ inner = <<>> /\ res = "Success"
        /\ created = {} /\ lastId = 0 /\ pending = {}
        /\ acksOnWire = {} /\ breaks = 0

-----------------------------------------------------------------------------
(* ReceivedIdsManager *)

\* Mutant: registerMsgId without the comparison with min().
RegisteredAnyAge(m) == IF m \in idsNeedAck THEN "Duplicate" ELSE "Success"

\* registerMsgId.  The order is that of its branches; min() is the smallest key.
Registered(m) == IF m \in idsNeedAck THEN "Duplicate"
                 ELSE IF \/ Cardinality(idsNeedAck) < IdsBufferSize
                         \/ \E x \in idsNeedAck : x < m THEN "Success"
                 ELSE "TooOld"

\* Mutant: shrink erases from the other end.
ShrunkFromEnd(S, T) ==
  IF Cardinality(S) =< IdsBufferSize
    THEN T = S
    ELSE /\ Cardinality(T) = IdsBufferSize
         /\ \A x \in T, y \in S \ T : x < y

\* shrink: the smallest keys of S go until at most IdsBufferSize are left, T.
Shrunk(S, T) ==
  IF Cardinality(S) =< IdsBufferSize
    THEN T = S
    ELSE /\ Cardinality(T) = IdsBufferSize
         /\ \A x \in T, y \in S \ T : y < x

-----------------------------------------------------------------------------
(* SessionPrivate: one message *)

\* Mutant: only a message that is handled is acknowledged.
QueuedIfNew(m) == ackRequestData \union (({m} \intersect NeedAck) \ idsNeedAck)

\* The acknowledgements queued once m has arrived.
Queued(m) == ackRequestData \union ({m} \intersect NeedAck)

\* Mutant: a failed message does not stop its container.
RemainingAnyway(result, contents, rest) == contents \o rest

\* What is left of the container after a message with this result.
Remaining(result, contents, rest) ==
  IF result = "Success" THEN contents \o rest ELSE <<>>

\* The handler of a newly registered message m.  msg_detailed_info looks its
\* answer up, and acknowledges it once more or asks for it; every other
\* handler is its outcome, where DestroyTemporaryKey is a ResetSession: it gives
\* the key up, and a session id does not outlive its key.
RunHandler(m) ==
  \E outcome \in Results :
    /\ res' = outcome
    /\ outcome = "Restart" => breaks < MaxBreaks
    /\ IF m \in InfoIds /\ outcome = "Success"
         THEN IF InfoAbout[m] \in idsNeedAck
                THEN /\ ackRequestData' = Queued(m) \union {InfoAbout[m]}
                     /\ UNCHANGED resendRequestData
                ELSE /\ ackRequestData' = Queued(m)
                     /\ resendRequestData' = resendRequestData \union {InfoAbout[m]}
         ELSE ackRequestData' = Queued(m) /\ UNCHANGED resendRequestData

\* A message, outer or inner.  Its acknowledgement is queued before its id is
\* looked up; a known id is not handled again; an id that is older than the
\* window resets the session.  `contents` is what a container holds, `rest`
\* what follows m in its own container: any result but Success skips both.
HandleMessage(m, contents, rest) ==
  \/ /\ Registered(m) = "Duplicate"
     /\ ackRequestData' = Queued(m)
     /\ res' = "Success" /\ inner' = rest
     /\ UNCHANGED <<idsNeedAck, handled, resendRequestData>>
  \/ /\ Registered(m) = "Success"
     /\ idsNeedAck' = idsNeedAck \union {m}
     /\ handled' = [handled EXCEPT ![m] = @ + 1]
     /\ RunHandler(m)
     /\ inner' = Remaining(res', contents, rest)
  \/ /\ Registered(m) = "TooOld"
     /\ ackRequestData' = Queued(m)
     /\ res' = "ResetSession" /\ inner' = <<>>
     /\ UNCHANGED <<idsNeedAck, handled, resendRequestData>>

-----------------------------------------------------------------------------
(* SessionPrivate: the events of the thread *)

\* handleReceived with a packet of one message.
Receive(m) == /\ ~busy /\ busy' = TRUE
              /\ m \in created
              /\ HandleMessage(m, <<>>, <<>>)
              /\ UNCHANGED <<unread, server, acksOnWire, breaks>>

\* handleReceived with a container.  The container has an id of its own, newer
\* than every message in it, and is not acknowledged.
ReceiveContainer(c, contents) ==
  /\ ~busy /\ busy' = TRUE
  /\ c \notin NeedAck \union InfoIds /\ c > lastId /\ lastId' = c
  /\ HandleMessage(c, contents, <<>>)
  /\ UNCHANGED <<unread, created, pending, acksOnWire, breaks>>

HandleInner == /\ busy /\ inner # <<>>
               /\ HandleMessage(Head(inner), <<>>, Tail(inner))
               /\ UNCHANGED <<unread, busy, server, acksOnWire, breaks>>

\* The container's next message has a bad header, or is longer than the packet,
\* which is found out only after its acknowledgement was queued: the connection
\* restarts, and the message is neither registered nor handled.
HandleInnerCut == /\ busy /\ inner # <<>> /\ breaks < MaxBreaks
                  /\ \/ UNCHANGED <<ackRequestData, unread>>
                     \/ /\ ackRequestData' = Queued(Head(inner))
                        /\ unread' = unread \union {Head(inner)}
                  /\ res' = "Restart" /\ inner' = <<>>
                  /\ UNCHANGED <<idsNeedAck, resendRequestData, busy, handled, server,
                                 acksOnWire, breaks>>

\* The end of handleReceived: shrink(), then restart() on a bad result.
Finish == /\ busy /\ inner = <<>> /\ res \in {"Success", "Ignored"}
          /\ \E T \in SUBSET idsNeedAck : Shrunk(idsNeedAck, T) /\ idsNeedAck' = T
          /\ busy' = FALSE /\ res' = "Success"
          /\ UNCHANGED <<requests, inner, handled, unread, server, acksOnWire, breaks>>

\* Mutant: the ids are not cut down on the way to restart().
FinishRestartUncut == /\ busy /\ inner = <<>> /\ res = "Restart"
                      /\ busy' = FALSE /\ res' = "Success"
                      /\ acksOnWire' = {} /\ breaks' = breaks + 1
                      /\ UNCHANGED <<idsNeedAck, requests, inner, handled, unread, server>>

FinishRestart == /\ busy /\ inner = <<>> /\ res = "Restart"
                 /\ \E T \in SUBSET idsNeedAck : Shrunk(idsNeedAck, T) /\ idsNeedAck' = T
                 /\ busy' = FALSE /\ res' = "Success"
                 /\ acksOnWire' = {} /\ breaks' = breaks + 1
                 /\ UNCHANGED <<requests, inner, handled, unread, server>>

\* Mutant: the queued acknowledgements survive the session.
NewSessionKeepsAcks ==
  /\ idsNeedAck' = {} /\ resendRequestData' = {}
  /\ handled' = [m \in MsgIds |-> 0] /\ unread' = {}
  /\ created' = {} /\ pending' = {} /\ acksOnWire' = {}
  /\ UNCHANGED <<ackRequestData, inner, lastId, breaks>>

\* changeSessionId() forgets everything that belongs to the session, and the
\* server gives its messages up.
NewSession == /\ idsNeedAck' = {} /\ ackRequestData' = {} /\ resendRequestData' = {}
              /\ handled' = [m \in MsgIds |-> 0] /\ unread' = {}
              /\ created' = {} /\ pending' = {} /\ acksOnWire' = {}
              /\ UNCHANGED <<inner, lastId, breaks>>

\* restart() with _needSessionReset, or destroyTemporaryKey().
FinishReset == /\ busy /\ inner = <<>> /\ res = "ResetSession"
               /\ busy' = FALSE /\ res' = "Success"
               /\ NewSession

\* applyAuthKey finds that another session of the dc replaced the key.
KeyChanged == ~busy /\ NewSession /\ UNCHANGED <<busy, res>>

\* tryToSend takes what is queued, whole.
SendRequests == /\ ~busy /\ (ackRequestData # {} \/ resendRequestData # {})
                /\ acksOnWire' = acksOnWire \union ackRequestData
                /\ ackRequestData' = {} /\ resendRequestData' = {}
                /\ UNCHANGED <<idsNeedAck, busy, inner, res, handled, unread, server, breaks>>

\* The connection fails: what was on the wire is lost, what is queued stays.
ConnectionLost == /\ ~busy /\ breaks < MaxBreaks
                  /\ breaks' = breaks + 1 /\ acksOnWire' = {}
                  /\ UNCHANGED <<handling, server>>

-----------------------------------------------------------------------------
(* The server *)

ServerCreates(m) == /\ m > lastId /\ lastId' = m
                    /\ m \in InfoIds => InfoAbout[m] \in pending
                    /\ created' = created \union {m}
                    /\ pending' = pending \union ({m} \intersect NeedAck)
                    /\ UNCHANGED <<handling, acksOnWire, breaks>>

ServerAcked(m) == /\ m \in acksOnWire
                  /\ acksOnWire' = acksOnWire \ {m}
                  /\ pending' = pending \ {m}
                  /\ UNCHANGED <<handling, created, lastId, breaks>>

Contents == UNION {[1..n -> created] : n \in 1..MaxInner}

Next == \/ \E m \in MsgIds : ServerCreates(m) \/ ServerAcked(m) \/ Receive(m)
        \/ \E c \in MsgIds, contents \in Contents : ReceiveContainer(c, contents)
        \/ HandleInner \/ HandleInnerCut \/ Finish \/ FinishRestart \/ FinishReset
        \/ SendRequests \/ ConnectionLost \/ KeyChanged

Spec == Init /\ [][Next]_vars

\* The thread works through what it has; the server repeats what is pending,
\* though not while the thread is busy, and reads what reaches it.
Fairness == /\ WF_vars(HandleInner)
            /\ WF_vars(Finish \/ FinishRestart \/ FinishReset)
            /\ SF_vars(SendRequests)
            /\ \A m \in MsgIds : /\ SF_vars(m \in pending /\ Receive(m))
                                 /\ WF_vars(ServerAcked(m))

FairSpec == Spec /\ Fairness

-----------------------------------------------------------------------------
(* Properties *)

\* Whether a message has been handled can always be told from the window: it is
\* in it, or it is older than all of a full window and would reset the session.
Remembered(m) == \/ m \in idsNeedAck
                 \/ /\ Cardinality(idsNeedAck) >= IdsBufferSize
                    /\ \A x \in idsNeedAck : m < x

HandledIsRemembered == \A m \in MsgIds : handled[m] > 0 => Remembered(m)

\* Between packets the window holds exactly the newest ids of those handled in
\* this session, in whatever order they came: no old id survives in it in the
\* place of a newer one (shrink() at the end of handleReceived).
WindowIsNewest ==
  LET Known == {m \in MsgIds : handled[m] > 0}
      Newer(m) == {x \in Known : x > m}
  IN ~busy => idsNeedAck = {m \in Known : Cardinality(Newer(m)) < IdsBufferSize}

\* The server is told that a message arrived only if it was handled, although
\* the acknowledgement is queued before the id is looked up: what was queued for
\* a message too old to be handled dies with its session.  The one exception is a
\* message whose container was cut short of it: its acknowledgement outlives the
\* restart of the connection, and nobody has read the message.
AckedWasHandled ==
  /\ \A m \in acksOnWire \union ((created \intersect NeedAck) \ pending) :
       handled[m] = 1 \/ m \in unread
  /\ \A m \in ackRequestData :
       handled[m] = 1 \/ m \in unread \/ res = "ResetSession"

\* What the receiving half promises (module Delivery).
Promise == INSTANCE Delivery WITH acked <- (created \intersect NeedAck) \ pending
PromiseKept == Promise!Spec

\* A message the server keeps repeating is settled in the end, by an
\* acknowledgement or by the end of the session: also when its acknowledgement
\* was lost with a connection, and when it is no longer in the window.
PendingSettles == \A m \in MsgIds : m \in pending ~> m \notin pending
=============================================================================
