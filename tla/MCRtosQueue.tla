---------------------------- MODULE MCRtosQueue -----------------------------
EXTENDS RtosQueue, TLC
CONSTANTS r1, r2, s
MCPrio == (r1 :> 3) @@ (s :> 2) @@ (r2 :> 1) @@ (Idle :> 0)
MCWaits == (r1 :> {2}) @@ (s :> {0, Forever}) @@ (r2 :> {Forever})
=============================================================================
