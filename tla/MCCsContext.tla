----------------------------- MODULE MCCsContext -----------------------------
(* Instances of CsContext for TLC.                                         *)
EXTENDS CsContext

CONSTANTS e1, e2, r1, r2, r3

MCEntry == {e1, e2}
MCReq == {r1, r2, r3}

\* r1 and r3 share the first chain, r2 is on the second.
MCLidOf == [r \in Req |-> IF r = r2 THEN 3 ELSE 2]

\* Stepped timeouts of 5 units within 14, and plain ones with two sends.
SM == [user |-> "SM", errorOnSendFail |-> FALSE, MinRespTimeout |-> 5,
       totalTimeout |-> 14, defaultTimeout |-> 5, maxRetries |-> 3]
NOTICE == [user |-> "NOTICE", errorOnSendFail |-> FALSE, MinRespTimeout |-> 0,
           totalTimeout |-> 14, defaultTimeout |-> 5, maxRetries |-> 2]
PM == [user |-> "PM", errorOnSendFail |-> TRUE, MinRespTimeout |-> 5,
       totalTimeout |-> 14, defaultTimeout |-> 5, maxRetries |-> 3]

MCConfigs == {SM, NOTICE, PM}
=============================================================================
