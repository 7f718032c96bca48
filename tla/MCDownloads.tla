----------------------------- MODULE MCDownloads ----------------------------
EXTENDS Downloads, TLC

CONSTANTS f, v

MCParts == (f :> 2) @@ (v :> 2)
MCFront == f :> 1
=============================================================================
