------------------------------ MODULE Handlers ------------------------------
(***************************************************************************)
(* What the MTProto instance promises those who send requests: the handler *)
(* of a request is called at most once, with an answer or with an error,   *)
(* and never after the request was cancelled.  Instance, which migrates,   *)
(* delays, authorizes and repeats requests between several data centers,   *)
(* implements this specification.                                          *)
(***************************************************************************)
CONSTANT Requests

VARIABLE outcome  \* none, wanted, done, failed or cancelled

Init == outcome = [r \in Requests |-> "none"]

Send(r) == outcome[r] = "none" /\ outcome' = [outcome EXCEPT ![r] = "wanted"]

Finish(r) ==
  /\ outcome[r] = "wanted"
  /\ \E o \in {"done", "failed", "cancelled"} : outcome' = [outcome EXCEPT ![r] = o]

Next == \E r \in Requests : Send(r) \/ Finish(r)

Spec == Init /\ [][Next]_outcome
=============================================================================
