------------------------------ MODULE Delivery ------------------------------
(***************************************************************************)
(* What the receiving half of an MTProto session promises its server: a    *)
(* message of a session is handled at most once, and it is acknowledged    *)
(* only when it has been handled, or could not be read because its         *)
(* container was cut short of it.  A receiver that cannot keep the promise *)
(* gives the session up and starts the next one with nothing remembered.   *)
(* ReceivedIds, which remembers a bounded window of ids, implements this   *)
(* specification, which remembers everything.                              *)
(***************************************************************************)
EXTENDS Naturals

CONSTANT MsgIds

VARIABLES handled,  \* how often each message of the session was handled
          unread,   \* messages of the session that could not be read
  acked     \* messages the server believes to be handled

vars == <<handled, unread, acked>>

Nothing == [m \in MsgIds |-> 0]

Init == handled = Nothing /\ unread = {} /\ acked = {}

Handle(m) == /\ handled[m] = 0
             /\ handled' = [handled EXCEPT ![m] = 1]
             /\ UNCHANGED <<unread, acked>>

Cut(m) == unread' = unread \union {m} /\ UNCHANGED <<handled, acked>>

Acknowledge(m) == /\ handled[m] = 1 \/ m \in unread
                  /\ acked' = acked \union {m}
                  /\ UNCHANGED <<handled, unread>>

NewSession == handled' = Nothing /\ unread' = {} /\ acked' = {}

Next == \/ \E m \in MsgIds : Handle(m) \/ Cut(m) \/ Acknowledge(m)
        \/ NewSession

Spec == Init /\ [][Next]_vars
=============================================================================
