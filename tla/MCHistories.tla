---------------------------- MODULE MCHistories -----------------------------
EXTENDS Histories, TLC

CONSTANTS a, b

MCMaxTill == (a :> 2) @@ (b :> 0)
=============================================================================
