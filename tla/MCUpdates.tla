------------------------------ MODULE MCUpdates ------------------------------
EXTENDS Updates, TLC

CONSTANTS c1, c2, h1, h2

MCEvents == {c1, c2, h1, h2}
MCBoxOf == (c1 :> "common") @@ (c2 :> "common") @@ (h1 :> "channel") @@ (h2 :> "channel")
MCPtsOf == (c1 :> 2) @@ (c2 :> 4) @@ (h1 :> 2) @@ (h2 :> 3)
MCCountOf == (c1 :> 1) @@ (c2 :> 2) @@ (h1 :> 1) @@ (h2 :> 1)

Packet(s, k, l) == [seq |-> s, kind |-> k, list |-> l]

\* The packet 3 has no update with a pts.  It is an answer, which comes while the
\* difference is asked for as well, and may find a seq that is not its turn.
MCLog == <<Packet(1, "push", <<c1, h1>>), Packet(0, "answer", <<c2>>),
           Packet(2, "answer", <<>>), Packet(0, "affected", <<h2>>)>>
=============================================================================
