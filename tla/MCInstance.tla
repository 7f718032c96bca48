----------------------------- MODULE MCInstance -----------------------------
EXTENDS Instance, TLC

CONSTANTS m, n, k, f

MCRequests == {m, n, k, f}
MCMainBound == {m, n, k}
MCAfter == (n :> m) @@ (k :> n) @@ (m :> None) @@ (f :> None)
MCFatalFor == {n, f}
MCFileDc == [r \in MCRequests |-> 2]
=============================================================================
