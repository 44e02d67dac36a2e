---------------------------- MODULE MCPmDispatch ----------------------------
(* A switch with four ports, one of them down, a host and a node without  *)
(* PMA, for TLC.                                                           *)
EXTENDS PmDispatch

CONSTANTS sw, fi, dumb

MCNode == {sw, fi, dumb}
MCLidMap == <<dumb, sw, None, fi>>
MCPort == 1 .. 6
MCPortsOf == [n \in MCNode |-> CASE n = sw -> {1, 2, 3, 4} [] n = fi -> {5} [] n = dumb -> {6}]
MCActive == {1, 2, 3, 5, 6}
MCMask == [q \in MCPort |-> IF q \in {1, 2} THEN {0, 1} ELSE {0}]
=============================================================================
