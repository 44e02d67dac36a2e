---------------------------- MODULE MCSmElection ----------------------------
(***************************************************************************)
(* Two subnet managers for TLC.  b is the preferred master.                *)
(***************************************************************************)
EXTENDS SmElection, TLC

CONSTANTS a, b

MCGuid == a :> 1 @@ b :> 2
MCPriority == a :> 1 @@ b :> 2
\* Sticky failover: either one stays master once it has become master.
MCElevated == a :> 3 @@ b :> 3
=============================================================================
