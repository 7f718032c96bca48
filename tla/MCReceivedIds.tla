--------------------------- MODULE MCReceivedIds ----------------------------
(* ReceivedIds for TLC.  Safety: a window of two ids and six ids to use; the *)
(* window overflows inside a container, handled ids leave it, and an id can  *)
(* arrive too late.  Id 3 is a msg_detailed_info about the answer with id 1, *)
(* and needs no acknowledgement itself; ids 5 and 6 may also name containers.*)
(* Liveness: four ids, which are enough for the same to happen once.         *)
EXTENDS ReceivedIds

MCMsgIds == 1..6
MCNeedAck == {1, 2, 4}
MCInfoIds == {3}
MCInfoAbout == [i \in MCInfoIds |-> 1]

LiveMsgIds == 1..4
LiveNeedAck == {1, 2}
=============================================================================
