-------------------------- MODULE SmDispatchProofs --------------------------
(***************************************************************************)
(* Proofs, for any number of switches, sweeps and requests and any limits, *)
(* that the dispatcher keeps its types, counts its requests exactly, never *)
(* dereferences a node of a freed topology, never overruns a switch, sends *)
(* a switch's requests in order, and leaves no LFT block of a good sweep   *)
(* unanswered.                                                             *)
(***************************************************************************)
EXTENDS SmDispatch, FiniteSetTheorems, WellFoundedInduction, TLAPS

Programming == {"program", "wait", "event", "waitOk", "clear"}

\* Which topologies exist in each phase of a sweep.
PhaseInv ==
    /\ pc \in Programming /\ round = "LFT" => newGen # None
    /\ pc \in Programming /\ round = "MFT" => newGen = None /\ oldGen # None
    /\ pc \in {"bump", "copy"} => newGen # None /\ round = "LFT"
    /\ pc \in {"idle", "release", "schedule"} => newGen = None

\* Requests are counted once: an id is never reused, no request is both
\* queued and sent, and no passcount lies in the future.
RequestInv ==
    /\ IsFiniteSet(queue) /\ IsFiniteSet(sent)
    /\ queue \intersect sent = {}
    /\ \A r \in queue \union sent : r.id < nextId /\ r.pass <= sweepPasscount
    /\ \A q, r \in queue : q.id = r.id => q = r

\* A current request points into the topology being built or the installed
\* one, and there is none between the bump and the moment nodes are freed.
FreshInv ==
    /\ \A r \in queue \union sent : Fresh(r) => r.node[1] \in {newGen, oldGen}
    /\ pc \in {"copy", "clearNew"} => \A r \in queue \union sent : ~Fresh(r)

IInv == TypeOK /\ PhaseInv /\ RequestInv /\ FreshInv /\ Accounting

-----------------------------------------------------------------------------

\* QListHead is defined: a non-empty set of requests has an oldest member.
LEMMA OldestIsMember ==
    ASSUME NEW S, S \subseteq Request, S # {}
    PROVE  Oldest(S) \in S /\ \A q \in S : Oldest(S).id <= q.id
<1> DEFINE Ids == {r.id : r \in S}
<1>1. Ids \subseteq Nat /\ Ids # {}
  BY DispatchAssumption DEF Request
<1>2. IsWellFoundedOn(OpToRel(<, Nat), Nat)
  BY NatLessThanWellFounded
<1>3. PICK m \in Ids : \A k \in Ids : ~ (<<k, m>> \in OpToRel(<, Nat))
  <2> HIDE DEF Ids
  <2> QED BY <1>1, <1>2, WFMin
<1>4. \A k \in Ids : ~ (k < m)
  BY <1>1, <1>3 DEF OpToRel
<1>5. PICK r \in S : r.id = m
  OBVIOUS
<1>6. \A q \in S : q.id \in Ids /\ q.id \in Nat
  BY DispatchAssumption DEF Request
<1>7. \A q \in S : r.id <= q.id
  <2> HIDE DEF Ids
  <2> QED BY <1>4, <1>5, <1>6
<1> QED BY <1>7 DEF Oldest

\* The nodes a round programs exist.
LEMMA TargetIsLive ==
    ASSUME DataTypeOK, PhaseInv, pc = "program"
    PROVE  Target \in Gen /\ Target \in {newGen, oldGen}
<1> USE DispatchAssumption
<1> QED BY DEF DataTypeOK, PhaseInv, Programming, Target, Gen, None, Attr

\* What sm_dispatch_update looks at is a queued request.
LEMMA CursorOnQueue ==
    ASSUME DataTypeOK, Ahead # {}
    PROVE  Oldest(Ahead) \in queue /\ Oldest(Ahead) \in Request
<1>1. Ahead \subseteq queue /\ Ahead \subseteq Request
  BY DEF Ahead, DataTypeOK
<1>2. Oldest(Ahead) \in Ahead
  BY <1>1, OldestIsMember
<1> QED BY <1>1, <1>2

\* The initial state satisfies the inductive invariant.
LEMMA InitInv == Init => IInv
<1> SUFFICES ASSUME Init PROVE IInv
  OBVIOUS
<1> USE DispatchAssumption DEF Init
<1>1. DataTypeOK
  BY DEF DataTypeOK, NothingSaved, PcState, Attr, None
<1>2. FlagTypeOK
  BY Zenon DEF FlagTypeOK
<1>3. PhaseInv /\ FreshInv
  BY DEF PhaseInv, FreshInv, Programming
<1>4. RequestInv
  BY FS_EmptySet DEF RequestInv
<1>5. Accounting
  BY FS_EmptySet DEF Accounting
<1> QED BY <1>1, <1>2, <1>3, <1>4, <1>5 DEF IInv, TypeOK

\* Every step of either thread keeps the types of the data.
LEMMA DataTypeStep == IInv /\ [Next]_vars => DataTypeOK'
<1> SUFFICES ASSUME IInv, [Next]_vars PROVE DataTypeOK'
  OBVIOUS
<1> USE DispatchAssumption DEF IInv, TypeOK
<1> USE DEF dispVars, rcvVars, genVars, ctlVars, PcState, Attr, None, NothingSaved
<1>1. CASE topology_discovery
  BY <1>1 DEF topology_discovery, DataTypeOK
<1>2. ASSUME NEW s \in Switch, sm_send_stl_request_async_dispatch(s)
      PROVE  DataTypeOK'
  <2>1. Target \in Gen
    BY <1>2, TargetIsLive DEF sm_send_stl_request_async_dispatch
  <2>2. [id |-> nextId, node |-> <<Target, s>>, pass |-> sweepPasscount, aid |-> round] \in Request
    BY <1>2, <2>1 DEF sm_send_stl_request_async_dispatch, DataTypeOK, Request, Node
  <2> QED BY <1>2, <2>2 DEF sm_send_stl_request_async_dispatch, DataTypeOK
<1>3. CASE DispatchWait
  BY <1>3 DEF DispatchWait, DataTypeOK
<1>4. CASE sm_dispatch_wait
  <2>1. Cardinality(queue) \in Nat
    BY FS_CardinalityType DEF RequestInv
  <2> QED BY <1>4, <2>1 DEF sm_dispatch_wait, LookAgain, DataTypeOK
<1>5. CASE vs_event_wait
  BY <1>5 DEF vs_event_wait, DataTypeOK
<1>6. CASE WaitReturnsOk
  BY <1>6 DEF WaitReturnsOk, DataTypeOK
<1>7. CASE LftProgramFails \/ MftProgramFails \/ MftNotMaster
  BY <1>7 DEF LftProgramFails, MftProgramFails, MftNotMaster, DataTypeOK
<1>8. CASE sm_dispatch_clear
  BY <1>8 DEF sm_dispatch_clear, FunctionError, DataTypeOK
<1>9. CASE TopologyFunctionFails
  BY <1>9 DEF TopologyFunctionFails, FunctionError, DataTypeOK
<1>10. CASE sm_dispatch_bump_passcount
  BY <1>10 DEF sm_dispatch_bump_passcount, NextPass, DataTypeOK
<1>11. CASE topology_copy
  BY <1>11 DEF topology_copy, DataTypeOK
<1>12. CASE topology_release_saved_topology \/ topology_clearNew \/ Reschedule
  BY <1>12 DEF topology_release_saved_topology, topology_clearNew, Reschedule, DataTypeOK
<1>13. CASE sm_dispatch_update \/ UpdateDone
  BY <1>13 DEF sm_dispatch_update, UpdateDone, DataTypeOK
<1>14. CASE UpdateSend
  <2>1. Oldest(Ahead) \in queue /\ Oldest(Ahead) \in Request
    BY <1>14, CursorOnQueue DEF UpdateSend
  <2>2. Oldest(Ahead).id \in 0 .. MaxRequests /\ Oldest(Ahead).node \in Node
    BY <2>1 DEF Request
  <2> QED BY <1>14, <2>1, <2>2 DEF UpdateSend, DataTypeOK
<1>15. CASE UpdateSkip
  <2>1. Oldest(Ahead).id \in 0 .. MaxRequests
    BY <1>15, CursorOnQueue DEF UpdateSkip, Request
  <2> QED BY <1>15, <2>1 DEF UpdateSkip, DataTypeOK
<1>16. ASSUME NEW r \in sent, NEW status \in {"ok", "bad", "timeout"},
              sm_dispatch_cntxt_callback(r, status)
       PROVE  DataTypeOK'
  <2>1. r.node \in Node
    BY DEF DataTypeOK, Request
  <2>2. async' \in [Node -> Nat] /\ reqsOutstanding' \in Nat
    BY <1>16, <2>1 DEF sm_dispatch_cntxt_callback, DataTypeOK
  <2> QED BY <1>16, <2>2 DEF sm_dispatch_cntxt_callback, DataTypeOK
<1>17. CASE UNCHANGED vars
  BY <1>17 DEF vars, DataTypeOK
<1> QED
  BY <1>1, <1>2, <1>3, <1>4, <1>5, <1>6, <1>7, <1>8, <1>9, <1>10, <1>11, <1>12,
     <1>13, <1>14, <1>15, <1>16, <1>17 DEF Next, Topology, Update, Callback

\* Every step of either thread keeps the flags Boolean.
LEMMA FlagTypeStep == FlagTypeOK /\ [Next]_vars => FlagTypeOK'
<1> SUFFICES ASSUME FlagTypeOK, [Next]_vars PROVE FlagTypeOK'
  OBVIOUS
<1> USE DEF ctlVars, FlagTypeOK
<1>1. CASE topology_discovery
  BY <1>1, Zenon DEF topology_discovery
<1>2. CASE \E s \in Switch : sm_send_stl_request_async_dispatch(s)
  BY <1>2, Zenon DEF sm_send_stl_request_async_dispatch
<1>3. CASE DispatchWait \/ sm_dispatch_wait \/ vs_event_wait
  BY <1>3, Zenon DEF DispatchWait, sm_dispatch_wait, vs_event_wait
<1>4. CASE WaitReturnsOk
  BY <1>4, Zenon DEF WaitReturnsOk
<1>5. CASE LftProgramFails \/ MftProgramFails \/ MftNotMaster
  BY <1>5, Zenon DEF LftProgramFails, MftProgramFails, MftNotMaster
<1>6. CASE sm_dispatch_clear
  BY <1>6, Zenon DEF sm_dispatch_clear, FunctionError
<1>7. CASE TopologyFunctionFails
  BY <1>7, Zenon DEF TopologyFunctionFails, FunctionError
<1>8. CASE sm_dispatch_bump_passcount
  BY <1>8, Zenon DEF sm_dispatch_bump_passcount
<1>9. CASE topology_copy \/ topology_release_saved_topology \/ topology_clearNew \/ Reschedule
  BY <1>9, Zenon DEF topology_copy, topology_release_saved_topology, topology_clearNew, Reschedule
<1>10. CASE Update
  BY <1>10, Zenon DEF Update, sm_dispatch_update, UpdateSend, UpdateSkip, UpdateDone
<1>11. CASE Callback
  BY <1>11, Zenon DEF Callback, sm_dispatch_cntxt_callback
<1>12. CASE UNCHANGED vars
  BY <1>12, Zenon DEF vars
<1> QED
  BY <1>1, <1>2, <1>3, <1>4, <1>5, <1>6, <1>7, <1>8, <1>9, <1>10, <1>11, <1>12
  DEF Next, Topology

\* Every step keeps the topologies of its phase.
LEMMA PhaseStep == IInv /\ [Next]_vars => PhaseInv'
<1> SUFFICES ASSUME IInv, [Next]_vars PROVE PhaseInv'
  OBVIOUS
<1> USE DispatchAssumption DEF IInv, TypeOK
<1> USE DEF dispVars, rcvVars, genVars, PcState, Attr, None, Programming, PhaseInv
<1>1. CASE topology_discovery
  BY <1>1 DEF topology_discovery, DataTypeOK
<1>2. CASE \E s \in Switch : sm_send_stl_request_async_dispatch(s)
  BY <1>2 DEF sm_send_stl_request_async_dispatch
<1>3. CASE DispatchWait \/ vs_event_wait
  BY <1>3 DEF DispatchWait, vs_event_wait
<1>4. CASE sm_dispatch_wait
  BY <1>4 DEF sm_dispatch_wait
<1>5. CASE WaitReturnsOk
  BY <1>5 DEF WaitReturnsOk
<1>6. CASE LftProgramFails \/ MftProgramFails \/ MftNotMaster
  BY <1>6 DEF LftProgramFails, MftProgramFails, MftNotMaster
<1>7. CASE sm_dispatch_clear
  BY <1>7 DEF sm_dispatch_clear
<1>8. CASE TopologyFunctionFails
  BY <1>8 DEF TopologyFunctionFails
<1>9. CASE sm_dispatch_bump_passcount
  BY <1>9 DEF sm_dispatch_bump_passcount
<1>10. CASE topology_copy
  BY <1>10 DEF topology_copy
<1>11. CASE topology_release_saved_topology \/ topology_clearNew \/ Reschedule
  BY <1>11 DEF topology_release_saved_topology, topology_clearNew, Reschedule
<1>12. CASE Update
  BY <1>12 DEF Update, sm_dispatch_update, UpdateSend, UpdateSkip, UpdateDone
<1>13. CASE Callback
  BY <1>13 DEF Callback, sm_dispatch_cntxt_callback
<1>14. CASE UNCHANGED vars
  BY <1>14 DEF vars
<1> QED
  BY <1>1, <1>2, <1>3, <1>4, <1>5, <1>6, <1>7, <1>8, <1>9, <1>10, <1>11, <1>12,
     <1>13, <1>14 DEF Next, Topology

\* Steps that neither queue, send, complete nor clear a request, nor bump the
\* passcount, leave the requests as they are.
LEMMA QuietSteps ==
    ASSUME \/ topology_discovery \/ DispatchWait \/ sm_dispatch_wait \/ vs_event_wait
           \/ WaitReturnsOk \/ LftProgramFails \/ MftProgramFails \/ MftNotMaster
           \/ TopologyFunctionFails \/ topology_copy \/ topology_release_saved_topology
           \/ topology_clearNew \/ Reschedule \/ sm_dispatch_update \/ UpdateSkip
           \/ UpdateDone \/ UNCHANGED vars
    PROVE  UNCHANGED <<queue, sent, reqsOutstanding, sweepPasscount, nextId, async>>
<1> USE DEF dispVars, vars
<1> QED
  BY DEF topology_discovery, DispatchWait, sm_dispatch_wait, vs_event_wait, WaitReturnsOk,
         LftProgramFails, MftProgramFails, MftNotMaster, TopologyFunctionFails,
         topology_copy, topology_release_saved_topology, topology_clearNew, Reschedule,
         sm_dispatch_update, UpdateSkip, UpdateDone

\* Every step keeps the requests distinct and the counter exact.
LEMMA RequestStep == IInv /\ [Next]_vars => RequestInv' /\ Accounting'
<1> SUFFICES ASSUME IInv, [Next]_vars PROVE RequestInv' /\ Accounting'
  OBVIOUS
<1> USE DispatchAssumption DEF IInv, TypeOK
<1>1. CASE UNCHANGED <<queue, sent, reqsOutstanding, sweepPasscount, nextId, async>>
  BY <1>1 DEF RequestInv, Accounting
<1>2. ASSUME NEW s \in Switch, sm_send_stl_request_async_dispatch(s)
      PROVE  RequestInv' /\ Accounting'
  <2> DEFINE r == [id |-> nextId, node |-> <<Target, s>>, pass |-> sweepPasscount, aid |-> round]
  <2>1. r.id = nextId /\ r.pass = sweepPasscount
    OBVIOUS
  <2> HIDE DEF r
  <2>2. /\ queue' = queue \union {r} /\ nextId' = nextId + 1
        /\ UNCHANGED <<sent, reqsOutstanding, sweepPasscount>>
    BY <1>2 DEF sm_send_stl_request_async_dispatch, r
  <2>3. nextId \in Nat /\ sweepPasscount \in Nat /\ \A q \in queue \union sent : q.id \in Nat
    BY DEF DataTypeOK, Request
  <2>4. IsFiniteSet(queue')
    BY <2>2, FS_AddElement DEF RequestInv
  <2>5. r \notin sent
    BY <2>1, <2>3 DEF RequestInv
  <2> QED BY <2>1, <2>2, <2>3, <2>4, <2>5 DEF RequestInv, Accounting
<1>3. CASE sm_dispatch_clear
  <2>1. queue' = {} /\ UNCHANGED <<sent, reqsOutstanding, sweepPasscount, nextId>>
    BY <1>3 DEF sm_dispatch_clear
  <2> QED BY <2>1, FS_EmptySet DEF RequestInv, Accounting
<1>4. CASE sm_dispatch_bump_passcount
  <2>1. sweepPasscount' = sweepPasscount + 1 /\ UNCHANGED <<queue, sent, reqsOutstanding, nextId>>
    BY <1>4 DEF sm_dispatch_bump_passcount, NextPass
  <2>2. sweepPasscount \in Nat /\ \A q \in queue \union sent : q.pass \in Nat
    BY DEF DataTypeOK, Request
  <2> QED BY <2>1, <2>2 DEF RequestInv, Accounting
<1>5. CASE UpdateSend
  <2>1. PICK r \in queue : /\ queue' = queue \ {r} /\ sent' = sent \union {r}
                           /\ reqsOutstanding' = reqsOutstanding + 1
    BY <1>5, CursorOnQueue DEF UpdateSend
  <2>2. ~AtLimit /\ UNCHANGED <<sweepPasscount, nextId>>
    BY <1>5 DEF UpdateSend
  <2>3. r \notin sent
    BY <2>1 DEF RequestInv
  <2>4. IsFiniteSet(sent') /\ Cardinality(sent') = Cardinality(sent) + 1
    BY <2>1, <2>3, FS_AddElement DEF RequestInv
  <2>5. IsFiniteSet(queue')
    BY <2>1, FS_RemoveElement DEF RequestInv
  <2>6. Accounting'
    BY <2>1, <2>2, <2>4 DEF Accounting, AtLimit, DataTypeOK
  <2>7. RequestInv'
    BY <2>1, <2>2, <2>4, <2>5 DEF RequestInv
  <2> QED BY <2>6, <2>7
<1>6. ASSUME NEW r \in sent, NEW status \in {"ok", "bad", "timeout"},
             sm_dispatch_cntxt_callback(r, status)
      PROVE  RequestInv' /\ Accounting'
  <2>1. /\ sent' = sent \ {r} /\ UNCHANGED <<queue, sweepPasscount, nextId>>
        /\ reqsOutstanding' = IF reqsOutstanding # 0 THEN reqsOutstanding - 1 ELSE 0
    BY <1>6 DEF sm_dispatch_cntxt_callback, rcvVars
  <2>2. IsFiniteSet(sent') /\ Cardinality(sent') = Cardinality(sent) - 1
    BY <2>1, FS_RemoveElement DEF RequestInv
  <2>3. Cardinality(sent') \in Nat
    BY <2>2, FS_CardinalityType
  <2>4. Accounting'
    BY <2>1, <2>2, <2>3 DEF Accounting, DataTypeOK
  <2>5. RequestInv'
    BY <2>1, <2>2 DEF RequestInv
  <2> QED BY <2>4, <2>5
<1> QED
  BY <1>1, <1>2, <1>3, <1>4, <1>5, <1>6, QuietSteps DEF Next, Topology, Update, Callback

\* Every step keeps current requests pointing at live nodes.  The bump is
\* what makes freeing safe: it leaves no current request behind.
LEMMA FreshStep == IInv /\ [Next]_vars => FreshInv'
<1> SUFFICES ASSUME IInv, [Next]_vars PROVE FreshInv'
  OBVIOUS
<1> USE DispatchAssumption DEF IInv, TypeOK, Fresh
<1>1. CASE topology_discovery
  <2>1. \A r \in queue \union sent : r.node[1] # None
    BY DEF DataTypeOK, Request, Node, Gen, None
  <2>2. newGen = None /\ UNCHANGED <<queue, sent, sweepPasscount, oldGen>> /\ pc' = "program"
    BY <1>1 DEF topology_discovery, PhaseInv, dispVars
  <2> QED BY <2>1, <2>2 DEF FreshInv
<1>2. ASSUME NEW s \in Switch, sm_send_stl_request_async_dispatch(s)
      PROVE  FreshInv'
  <2> DEFINE r == [id |-> nextId, node |-> <<Target, s>>, pass |-> sweepPasscount, aid |-> round]
  <2>1. r.node[1] \in {newGen, oldGen}
    BY <1>2, TargetIsLive DEF sm_send_stl_request_async_dispatch
  <2> HIDE DEF r
  <2>2. /\ queue' = queue \union {r} /\ pc' = "program"
        /\ UNCHANGED <<sent, sweepPasscount, newGen, oldGen>>
    BY <1>2 DEF sm_send_stl_request_async_dispatch, genVars, r
  <2> QED BY <2>1, <2>2 DEF FreshInv
<1>3. CASE \/ DispatchWait \/ sm_dispatch_wait \/ vs_event_wait \/ WaitReturnsOk
           \/ LftProgramFails \/ MftProgramFails \/ MftNotMaster \/ TopologyFunctionFails
           \/ Reschedule
  <2>1. /\ UNCHANGED <<queue, sent, sweepPasscount, newGen, oldGen>>
        /\ pc' \notin {"copy", "clearNew"}
    BY <1>3 DEF DispatchWait, sm_dispatch_wait, vs_event_wait, WaitReturnsOk,
         LftProgramFails, MftProgramFails, MftNotMaster, TopologyFunctionFails, Reschedule,
         dispVars, genVars
  <2> QED BY <2>1 DEF FreshInv
<1>4. CASE sm_dispatch_clear
  BY <1>4 DEF sm_dispatch_clear, FreshInv, genVars
<1>5. CASE sm_dispatch_bump_passcount
  <2>1. sweepPasscount' = sweepPasscount + 1 /\ UNCHANGED <<queue, sent>>
    BY <1>5 DEF sm_dispatch_bump_passcount, NextPass
  <2>2. sweepPasscount \in Nat /\ \A q \in queue \union sent : q.pass \in Nat
    BY DEF DataTypeOK, Request
  <2> QED BY <2>1, <2>2 DEF FreshInv, RequestInv
<1>6. CASE topology_copy \/ topology_clearNew
  BY <1>6 DEF topology_copy, topology_clearNew, FreshInv, dispVars
<1>7. CASE topology_release_saved_topology
  BY <1>7 DEF topology_release_saved_topology, FreshInv, dispVars
<1>8. CASE sm_dispatch_update \/ UpdateSkip \/ UpdateDone
  BY <1>8 DEF sm_dispatch_update, UpdateSkip, UpdateDone, FreshInv, dispVars, genVars
<1>9. CASE UpdateSend
  <2>1. queue' \union sent' = queue \union sent
    BY <1>9, CursorOnQueue DEF UpdateSend
  <2> QED BY <1>9, <2>1 DEF UpdateSend, FreshInv, genVars
<1>10. CASE Callback
  BY <1>10 DEF Callback, sm_dispatch_cntxt_callback, FreshInv, genVars
<1>11. CASE UNCHANGED vars
  BY <1>11 DEF vars, FreshInv, dispVars, genVars
<1> QED
  BY <1>1, <1>2, <1>3, <1>4, <1>5, <1>6, <1>7, <1>8, <1>9, <1>10, <1>11
  DEF Next, Topology, Update

\* IInv is an invariant of the specification.
THEOREM InductiveInvariant == Spec => []IInv
<1>1. Init => IInv
  BY InitInv
<1>2. IInv /\ [Next]_vars => IInv'
  BY DataTypeStep, FlagTypeStep, PhaseStep, RequestStep, FreshStep DEF IInv, TypeOK
<1> QED BY <1>1, <1>2, PTL DEF Spec

\* Type correctness of the dispatcher, for all parameters.
THEOREM TypeCorrect == Spec => []TypeOK
<1>1. IInv => TypeOK
  BY DEF IInv
<1> QED BY <1>1, InductiveInvariant, PTL

\* reqsOutstanding is exact and bounded: clearing the queue, stale completions
\* and abandoned sweeps never make it drift, so sm_dispatch_wait cannot wait
\* for a completion that has already been counted or miss one that has not.
THEOREM AccountingCorrect == Spec => []Accounting
<1>1. IInv => Accounting
  BY DEF IInv
<1> QED BY <1>1, InductiveInvariant, PTL

\* No request whose node sm_dispatch_update or the callback would dereference
\* names a node of a freed topology.
THEOREM NoDanglingNodeCorrect == Spec => []NoDanglingNode
<1>1. IInv => NoDanglingNode
  <2> SUFFICES ASSUME IInv, NEW r \in queue \union sent, Fresh(r)
               PROVE  r.node[1] \in Live
    BY DEF NoDanglingNode
  <2>1. r.node[1] # None
    BY DEF IInv, TypeOK, DataTypeOK, Request, Node, Gen, None
  <2>2. r.node[1] \in {newGen, oldGen}
    BY DEF IInv, FreshInv
  <2> QED BY <2>1, <2>2 DEF Live
<1> QED BY <1>1, InductiveInvariant, PTL

-----------------------------------------------------------------------------

\* The current requests of a node are a finite set.
LEMMA OnWireFinite ==
    ASSUME IInv, NEW n
    PROVE  IsFiniteSet(OnWire(n)) /\ Cardinality(OnWire(n)) \in Nat
<1>1. OnWire(n) \subseteq sent /\ IsFiniteSet(sent)
  BY DEF OnWire, IInv, RequestInv
<1>2. IsFiniteSet(OnWire(n))
  BY <1>1, FS_Subset
<1> QED BY <1>2, FS_CardinalityType

\* Every step keeps each node's counter between its current requests on the
\* wire and its batch size.
LEMMA BatchStep == IInv /\ NodeBatch /\ [Next]_vars => NodeBatch'
<1> SUFFICES ASSUME IInv, NodeBatch, [Next]_vars PROVE NodeBatch'
  OBVIOUS
<1> USE DispatchAssumption
<1>0. async \in [Node -> Nat]
  BY DEF IInv, TypeOK, DataTypeOK
<1>1. CASE UNCHANGED <<sent, sweepPasscount, async>>
  <2>1. \A n \in Node : OnWire(n)' = OnWire(n)
    BY <1>1 DEF OnWire, Fresh
  <2> QED BY <1>1, <2>1 DEF NodeBatch
<1>2. CASE sm_dispatch_bump_passcount
  <2>1. /\ sweepPasscount' = sweepPasscount + 1 /\ UNCHANGED <<sent, async>>
    BY <1>2 DEF sm_dispatch_bump_passcount, NextPass
  <2>2. sweepPasscount \in Nat /\ \A q \in sent : q.pass \in Nat /\ q.pass <= sweepPasscount
    BY DEF IInv, TypeOK, DataTypeOK, Request, RequestInv
  <2>3. \A n \in Node : OnWire(n)' = {}
    BY <2>1, <2>2 DEF OnWire, Fresh
  <2>4. Cardinality({}) = 0
    BY FS_EmptySet
  <2> QED BY <1>0, <2>1, <2>3, <2>4 DEF NodeBatch
<1>3. CASE UpdateSend
  <2>1. PICK r \in queue :
          /\ sent' = sent \union {r} /\ Sendable(r)
          /\ async' = IF Fresh(r) THEN [async EXCEPT ![r.node] = @ + 1] ELSE async
    BY <1>3, CursorOnQueue DEF UpdateSend, IInv, TypeOK
  <2>2. UNCHANGED sweepPasscount
    BY <1>3 DEF UpdateSend
  <2>3. r \notin sent
    BY DEF IInv, RequestInv
  <2> SUFFICES ASSUME NEW n \in Node
               PROVE  Cardinality(OnWire(n)') <= async'[n] /\ async'[n] <= BatchSize
    BY DEF NodeBatch
  <2>4. CASE Fresh(r) /\ r.node = n
    <3>1. OnWire(n)' = OnWire(n) \union {r} /\ r \notin OnWire(n)
      BY <2>1, <2>2, <2>3, <2>4 DEF OnWire, Fresh
    <3>2. Cardinality(OnWire(n)') = Cardinality(OnWire(n)) + 1
      BY <3>1, OnWireFinite, FS_AddElement
    <3>3. async'[n] = async[n] + 1 /\ async[n] < BatchSize
      BY <1>0, <2>1, <2>4 DEF Sendable
    <3> QED BY <1>0, <3>2, <3>3, OnWireFinite DEF NodeBatch
  <2>5. CASE ~(Fresh(r) /\ r.node = n)
    <3>1. OnWire(n)' = OnWire(n)
      BY <2>1, <2>2, <2>5 DEF OnWire, Fresh
    <3>2. async'[n] = async[n]
      BY <1>0, <2>1, <2>5
    <3> QED BY <3>1, <3>2 DEF NodeBatch
  <2> QED BY <2>4, <2>5
<1>4. ASSUME NEW r \in sent, NEW status \in {"ok", "bad", "timeout"},
             sm_dispatch_cntxt_callback(r, status)
      PROVE  NodeBatch'
  <2>1. /\ sent' = sent \ {r} /\ UNCHANGED sweepPasscount
        /\ async' = IF Fresh(r) /\ async[r.node] # 0
                    THEN [async EXCEPT ![r.node] = @ - 1] ELSE async
    BY <1>4 DEF sm_dispatch_cntxt_callback
  <2> SUFFICES ASSUME NEW n \in Node
               PROVE  Cardinality(OnWire(n)') <= async'[n] /\ async'[n] <= BatchSize
    BY DEF NodeBatch
  <2>2. CASE Fresh(r) /\ r.node = n
    <3>1. OnWire(n)' = OnWire(n) \ {r} /\ r \in OnWire(n)
      BY <2>1, <2>2 DEF OnWire, Fresh
    <3>2. IsFiniteSet(OnWire(n)') /\ Cardinality(OnWire(n)') = Cardinality(OnWire(n)) - 1
      BY <3>1, OnWireFinite, FS_RemoveElement
    <3>3. Cardinality(OnWire(n)') \in Nat
      BY <3>2, FS_CardinalityType
    <3>4. async[n] # 0
      BY <1>0, <3>2, <3>3, OnWireFinite DEF NodeBatch
    <3>5. async'[n] = async[n] - 1
      BY <1>0, <2>1, <2>2, <3>4
    <3> QED BY <1>0, <3>2, <3>5, OnWireFinite DEF NodeBatch
  <2>3. CASE ~(Fresh(r) /\ r.node = n)
    <3>1. OnWire(n)' = OnWire(n)
      BY <2>1, <2>3 DEF OnWire, Fresh
    <3>2. async'[n] = async[n]
      BY <1>0, <2>1, <2>3
    <3> QED BY <3>1, <3>2 DEF NodeBatch
  <2> QED BY <2>2, <2>3
<1>5. CASE \/ sm_dispatch_clear \/ \E s \in Switch : sm_send_stl_request_async_dispatch(s)
  BY <1>1, <1>5 DEF sm_dispatch_clear, sm_send_stl_request_async_dispatch
<1> QED
  BY <1>1, <1>2, <1>3, <1>4, <1>5, QuietSteps DEF Next, Topology, Update, Callback

\* The dispatcher never has more than sma_batch_size current requests on the
\* wire to one switch, for all parameters.
THEOREM NodeBatchCorrect == Spec => []NodeBatch
<1>1. Init => NodeBatch
  <2> SUFFICES ASSUME Init, NEW n \in Node
               PROVE  Cardinality(OnWire(n)) <= async[n] /\ async[n] <= BatchSize
    BY DEF NodeBatch
  <2>1. OnWire(n) = {} /\ async[n] = 0
    BY DEF Init, OnWire
  <2> QED BY <2>1, FS_EmptySet, DispatchAssumption
<1>2. IInv /\ NodeBatch /\ [Next]_vars => NodeBatch'
  BY BatchStep
<1> QED BY <1>1, <1>2, InductiveInvariant, PTL DEF Spec

-----------------------------------------------------------------------------
(* The LFT blocks of a sweep.                                              *)

\* An LFT block of a topology is queued or on the wire.
Owed(g) == \E r \in queue \union sent : r.aid = "LFT" /\ r.node[1] = g

\* No topology function of this sweep has failed.
Intact == valid /\ ~ignored

\* Which way a sweep is at its end.
EndInv ==
    /\ pc = "clearNew" => ~valid
    /\ pc = "release" => round = "MFT"
    /\ pc = "schedule" /\ valid => round = "MFT"

\* A generation is new: no request of an earlier sweep can be taken for one of it.
GenInv ==
    /\ newGen <= sweeps /\ oldGen <= sweeps
    /\ \A r \in queue \union sent : r.node[1] <= sweeps

\* sm_dispatch_wait returns VSTATUS_OK when nothing is queued or on the wire, and
\* nothing is queued before the topology thread goes on.
OkInv == pc = "waitOk" => queue = {} /\ sent = {}

\* A sweep without an error keeps no LFT block of its topology behind.
OwedInv ==
    /\ Intact /\ pc \in {"bump", "copy"} => ~Owed(newGen)
    /\ Intact /\ round = "MFT" => ~Owed(oldGen)

\* A block that was lost has asked for a resweep, unless the sweep failed.
LostInv == Intact /\ pc # "idle" /\ lftLost => resweep

LftInv == EndInv /\ GenInv /\ OkInv /\ OwedInv /\ LostInv

\* Every step keeps the way a sweep ends.
LEMMA EndStep == IInv /\ EndInv /\ [Next]_vars => EndInv'
<1> SUFFICES ASSUME IInv, EndInv, [Next]_vars PROVE EndInv'
  OBVIOUS
<1> USE DEF EndInv, ctlVars
<1>1. CASE UNCHANGED <<pc, valid, round>>
  BY <1>1
<1>2. CASE \/ topology_discovery \/ DispatchWait \/ sm_dispatch_wait \/ vs_event_wait
           \/ LftProgramFails \/ MftNotMaster \/ TopologyFunctionFails
  BY <1>2 DEF topology_discovery, DispatchWait, sm_dispatch_wait, vs_event_wait,
       LftProgramFails, MftNotMaster, TopologyFunctionFails
<1>3. CASE WaitReturnsOk
  BY <1>3 DEF WaitReturnsOk
<1>4. CASE sm_dispatch_clear
  BY <1>4 DEF sm_dispatch_clear
<1>5. CASE sm_dispatch_bump_passcount
  BY <1>5 DEF sm_dispatch_bump_passcount
<1>6. CASE topology_copy
  BY <1>6 DEF topology_copy
<1>7. CASE topology_release_saved_topology \/ topology_clearNew \/ Reschedule
  BY <1>7 DEF topology_release_saved_topology, topology_clearNew, Reschedule
<1>8. CASE \/ MftProgramFails \/ (\E s \in Switch : sm_send_stl_request_async_dispatch(s))
           \/ sm_dispatch_update \/ UpdateSkip \/ UpdateDone \/ UNCHANGED vars
  BY <1>1, <1>8 DEF MftProgramFails, sm_send_stl_request_async_dispatch,
       sm_dispatch_update, UpdateSkip, UpdateDone, vars
<1>9. CASE UpdateSend \/ Callback
  BY <1>1, <1>9, Zenon DEF UpdateSend, Callback, sm_dispatch_cntxt_callback
<1> QED
  BY <1>2, <1>3, <1>4, <1>5, <1>6, <1>7, <1>8, <1>9 DEF Next, Topology, Update

\* No step but an enqueue adds a request, and that one adds a request of the round
\* to the topology of the round.
LEMMA RequestsShrink ==
    ASSUME IInv, [Next]_vars
    PROVE  \/ (queue \union sent)' \subseteq queue \union sent
           \/ /\ pc = "program" /\ pc' = "program"
              /\ UNCHANGED <<round, newGen, oldGen, sweeps, valid, ignored, lftLost, resweep>>
              /\ \E r : /\ (queue \union sent)' = (queue \union sent) \union {r}
                        /\ r.aid = round /\ r.node[1] = Target
<1>1. CASE UNCHANGED <<queue, sent, reqsOutstanding, sweepPasscount, nextId, async>>
  BY <1>1, Zenon
<1>2. ASSUME NEW s \in Switch, sm_send_stl_request_async_dispatch(s)
      PROVE  /\ pc = "program" /\ pc' = "program"
             /\ UNCHANGED <<round, newGen, oldGen, sweeps, valid, ignored, lftLost, resweep>>
             /\ \E r : /\ (queue \union sent)' = (queue \union sent) \union {r}
                       /\ r.aid = round /\ r.node[1] = Target
  <2> DEFINE r == [id |-> nextId, node |-> <<Target, s>>, pass |-> sweepPasscount, aid |-> round]
  <2>1. r.aid = round /\ r.node[1] = Target
    OBVIOUS
  <2> HIDE DEF r
  <2>2. queue' = queue \union {r} /\ UNCHANGED sent
    BY <1>2 DEF sm_send_stl_request_async_dispatch, r
  <2>3. /\ pc = "program" /\ pc' = "program"
        /\ UNCHANGED <<round, newGen, oldGen, sweeps, valid, ignored, lftLost, resweep>>
    BY <1>2 DEF sm_send_stl_request_async_dispatch, genVars, ctlVars
  <2>4. (queue \union sent)' = (queue \union sent) \union {r}
    BY <2>2
  <2> QED BY <2>1, <2>3, <2>4
<1>3. CASE sm_dispatch_clear \/ sm_dispatch_bump_passcount
  BY <1>3 DEF sm_dispatch_clear, sm_dispatch_bump_passcount
<1>4. CASE UpdateSend
  BY <1>4, CursorOnQueue DEF UpdateSend, IInv, TypeOK
<1>5. CASE Callback
  BY <1>5, Zenon DEF Callback, sm_dispatch_cntxt_callback
<1> QED
  BY <1>1, <1>2, <1>3, <1>4, <1>5, QuietSteps, Zenon DEF Next, Topology, Update

\* Every step keeps the generations in order.
LEMMA GenStep == IInv /\ GenInv /\ [Next]_vars => GenInv'
<1> SUFFICES ASSUME IInv, GenInv, [Next]_vars PROVE GenInv'
  OBVIOUS
<1> USE DispatchAssumption
<1>1. /\ sweeps \in Nat /\ newGen \in Nat /\ oldGen \in Nat
      /\ \A r \in queue \union sent : r.node[1] \in Nat
  BY DEF IInv, TypeOK, DataTypeOK, Request, Node, Gen
<1>2. \/ /\ sweeps' = sweeps + 1 /\ newGen' = sweeps + 1 /\ oldGen' = oldGen
      \/ /\ sweeps' = sweeps /\ newGen' \in {newGen, None} /\ oldGen' \in {oldGen, newGen}
  <2>1. CASE topology_discovery
    BY <2>1 DEF topology_discovery
  <2>2. CASE topology_copy \/ topology_release_saved_topology \/ topology_clearNew
    BY <2>2 DEF topology_copy, topology_release_saved_topology, topology_clearNew
  <2>3. CASE \/ DispatchWait \/ sm_dispatch_wait \/ vs_event_wait \/ WaitReturnsOk
             \/ LftProgramFails \/ MftProgramFails \/ MftNotMaster
    BY <2>3 DEF DispatchWait, sm_dispatch_wait, vs_event_wait, WaitReturnsOk,
         LftProgramFails, MftProgramFails, MftNotMaster, genVars
  <2>4. CASE \/ TopologyFunctionFails \/ sm_dispatch_clear \/ sm_dispatch_bump_passcount
             \/ Reschedule \/ \E s \in Switch : sm_send_stl_request_async_dispatch(s)
    BY <2>4 DEF TopologyFunctionFails, sm_dispatch_clear, sm_dispatch_bump_passcount,
         Reschedule, sm_send_stl_request_async_dispatch, genVars
  <2>5. CASE Update \/ Callback \/ UNCHANGED vars
    BY <2>5, Zenon DEF Update, sm_dispatch_update, UpdateSend, UpdateSkip, UpdateDone, Callback,
         sm_dispatch_cntxt_callback, vars, genVars
  <2> QED BY <2>1, <2>2, <2>3, <2>4, <2>5 DEF Next, Topology
<1>3. newGen' <= sweeps' /\ oldGen' <= sweeps'
  BY <1>1, <1>2 DEF GenInv, None
<1>4. sweeps' \in Nat /\ sweeps <= sweeps'
  BY <1>1, <1>2
<1>5. \A r \in (queue \union sent)' : r.node[1] <= sweeps'
  <2>1. CASE (queue \union sent)' \subseteq queue \union sent
    <3>1. \A r \in queue \union sent : r.node[1] <= sweeps'
      BY <1>1, <1>4 DEF GenInv
    <3> QED BY <2>1, <3>1
  <2>2. ASSUME NEW r, r.node[1] = Target, sweeps' = sweeps,
               (queue \union sent)' = (queue \union sent) \union {r}
        PROVE  \A q \in (queue \union sent)' : q.node[1] <= sweeps'
    BY <1>1, <2>2 DEF GenInv, Target
  <2> QED BY <2>1, <2>2, RequestsShrink
<1> QED BY <1>3, <1>5 DEF GenInv

\* Every step keeps the dispatcher empty between sm_dispatch_wait's VSTATUS_OK and
\* what its caller does next.
LEMMA OkStep == IInv /\ OkInv /\ [Next]_vars => OkInv'
<1> SUFFICES ASSUME IInv, OkInv, [Next]_vars, pc' = "waitOk"
             PROVE  (queue \union sent)' = {}
  BY DEF OkInv
<1>1. CASE pc = "waitOk"
  BY <1>1, RequestsShrink DEF OkInv
<1>2. CASE pc # "waitOk"
  <2>1. sm_dispatch_wait
    <3>1. CASE \/ topology_discovery \/ DispatchWait \/ vs_event_wait \/ WaitReturnsOk
               \/ LftProgramFails \/ MftProgramFails \/ MftNotMaster
               \/ sm_dispatch_clear \/ TopologyFunctionFails
      BY <1>2, <3>1, Zenon DEF topology_discovery, DispatchWait, vs_event_wait, WaitReturnsOk,
           LftProgramFails, MftProgramFails, MftNotMaster, sm_dispatch_clear,
           TopologyFunctionFails
    <3>2. CASE \/ sm_dispatch_bump_passcount \/ topology_copy
               \/ topology_release_saved_topology \/ topology_clearNew \/ Reschedule
      BY <1>2, <3>2, Zenon DEF sm_dispatch_bump_passcount, topology_copy,
           topology_release_saved_topology, topology_clearNew, Reschedule
    <3>3. CASE \/ (\E s \in Switch : sm_send_stl_request_async_dispatch(s)) \/ Update
               \/ Callback \/ UNCHANGED vars
      BY <1>2, <3>3 DEF sm_send_stl_request_async_dispatch, Update, sm_dispatch_update,
           UpdateSend, UpdateSkip, UpdateDone, Callback, sm_dispatch_cntxt_callback, vars
    <3> QED BY <3>1, <3>2, <3>3 DEF Next, Topology
  <2>2. queue = {} /\ reqsOutstanding = 0 /\ UNCHANGED <<queue, sent>>
    BY <2>1 DEF sm_dispatch_wait, Drained, dispVars
  <2>3. sent = {}
    BY <2>2, FS_EmptySet DEF IInv, RequestInv, Accounting
  <2> QED BY <2>2, <2>3
<1> QED BY <1>1, <1>2

\* A function's error ends the sweep, or is remembered as ignored.
LEMMA ErrorSpoils ==
    ASSUME FlagTypeOK, FunctionError
    PROVE  ~Intact'
BY Zenon DEF FunctionError, FlagTypeOK, Intact

\* Every step of a sweep without an error keeps its LFT blocks accounted for.
LEMMA OwedStep == IInv /\ LftInv /\ [Next]_vars => OwedInv'
<1> SUFFICES ASSUME IInv, LftInv, [Next]_vars, Intact' PROVE OwedInv'
  BY DEF OwedInv
<1> USE DEF LftInv
<1>1. ASSUME UNCHANGED <<pc, round, newGen, oldGen, valid, ignored>>,
             (queue \union sent)' \subseteq queue \union sent
      PROVE  OwedInv'
  BY <1>1 DEF OwedInv, Owed, Intact
<1>2. ASSUME UNCHANGED <<round, oldGen, valid, ignored>>, pc' \notin {"bump", "copy"},
             (queue \union sent)' \subseteq queue \union sent
      PROVE  OwedInv'
  BY <1>2 DEF OwedInv, Owed, Intact
<1>3. CASE topology_discovery
  <2>1. pc' = "program" /\ round' = "LFT"
    BY <1>3 DEF topology_discovery
  <2> QED BY <2>1 DEF OwedInv
<1>4. ASSUME NEW s \in Switch, sm_send_stl_request_async_dispatch(s)
      PROVE  OwedInv'
  <2>1. /\ pc' = "program" /\ UNCHANGED <<round, oldGen, valid, ignored>>
    BY <1>4 DEF sm_send_stl_request_async_dispatch, genVars, ctlVars
  <2>2. CASE round = "LFT"
    BY <2>1, <2>2 DEF OwedInv
  <2>3. CASE round = "MFT"
    <3> DEFINE r == [id |-> nextId, node |-> <<Target, s>>, pass |-> sweepPasscount, aid |-> round]
    <3>1. r.aid = "MFT"
      BY <2>3
    <3> HIDE DEF r
    <3>2. queue' = queue \union {r} /\ UNCHANGED sent
      BY <1>4 DEF sm_send_stl_request_async_dispatch, r
    <3> QED BY <2>1, <3>1, <3>2 DEF OwedInv, Owed, Intact
  <2> QED BY <2>2, <2>3 DEF IInv, TypeOK, DataTypeOK, Attr
<1>5. CASE \/ DispatchWait \/ sm_dispatch_wait \/ vs_event_wait \/ LftProgramFails
           \/ MftProgramFails \/ MftNotMaster
  <2>1. /\ UNCHANGED <<queue, sent, round, oldGen, valid, ignored>>
        /\ pc' \notin {"bump", "copy"}
    BY <1>5 DEF DispatchWait, sm_dispatch_wait, vs_event_wait, LftProgramFails,
         MftProgramFails, MftNotMaster, dispVars, genVars, ctlVars
  <2> QED BY <1>2, <2>1
<1>6. CASE topology_release_saved_topology \/ topology_clearNew \/ Reschedule
  <2>1. /\ UNCHANGED <<queue, sent, round, oldGen, valid, ignored>>
        /\ pc' \notin {"bump", "copy"}
    BY <1>6 DEF topology_release_saved_topology, topology_clearNew, Reschedule,
         dispVars, genVars, ctlVars
  <2> QED BY <1>2, <2>1
<1>7. CASE WaitReturnsOk
  <2>1. queue = {} /\ sent = {} /\ UNCHANGED <<queue, sent>>
    BY <1>7 DEF WaitReturnsOk, OkInv, dispVars
  <2> QED BY <2>1 DEF OwedInv, Owed
<1>8. CASE sm_dispatch_clear
  <2>1. CASE FunctionError
    BY <2>1, ErrorSpoils DEF IInv, TypeOK
  <2>2. CASE ~FunctionError
    <3>1. /\ UNCHANGED <<sent, round, oldGen, valid, ignored>> /\ queue' = {}
          /\ pc' = "release"
      BY <1>8, <2>2 DEF sm_dispatch_clear, genVars, ctlVars
    <3> QED BY <1>2, <3>1
  <2> QED BY <2>1, <2>2
<1>9. CASE TopologyFunctionFails
  BY <1>9, ErrorSpoils DEF TopologyFunctionFails, IInv, TypeOK
<1>10. CASE sm_dispatch_bump_passcount
  <2>1. /\ pc = "bump" /\ UNCHANGED <<queue, sent, round, newGen, oldGen, valid, ignored>>
    BY <1>10 DEF sm_dispatch_bump_passcount, genVars
  <2> QED BY <2>1 DEF OwedInv, Owed, Intact
<1>11. CASE topology_copy
  <2>1. /\ pc = "copy" /\ oldGen' = newGen /\ pc' \in {"program", "release"}
        /\ UNCHANGED <<queue, sent, valid, ignored>>
    BY <1>11 DEF topology_copy, dispVars, ctlVars
  <2> QED BY <2>1 DEF OwedInv, Owed, Intact
<1>12. CASE sm_dispatch_update \/ UpdateSkip \/ UpdateDone \/ UNCHANGED vars
  <2>1. UNCHANGED <<queue, sent, pc, round, newGen, oldGen, valid, ignored>>
    BY <1>12 DEF sm_dispatch_update, UpdateSkip, UpdateDone, vars, dispVars, genVars, ctlVars
  <2> QED BY <1>1, <2>1
<1>13. CASE UpdateSend
  <2>1. (queue \union sent)' \subseteq queue \union sent
    BY <1>13, CursorOnQueue DEF UpdateSend, IInv, TypeOK
  <2>2. UNCHANGED <<pc, round, newGen, oldGen, valid, ignored>>
    BY <1>13 DEF UpdateSend, genVars, ctlVars
  <2> QED BY <1>1, <2>1, <2>2
<1>14. CASE Callback
  <2>1. /\ (queue \union sent)' \subseteq queue \union sent
        /\ UNCHANGED <<pc, round, newGen, oldGen, valid, ignored>>
    BY <1>14 DEF Callback, sm_dispatch_cntxt_callback, genVars, ctlVars
  <2> QED BY <1>1, <2>1
<1> QED
  BY <1>3, <1>4, <1>5, <1>6, <1>7, <1>8, <1>9, <1>10, <1>11, <1>12, <1>13, <1>14
  DEF Next, Topology, Update

\* Every step keeps the resweep that a lost LFT block has asked for.
LEMMA LostStep == IInv /\ LftInv /\ [Next]_vars => LostInv'
<1> SUFFICES ASSUME IInv, LftInv, [Next]_vars, Intact', pc' # "idle", lftLost'
             PROVE  resweep'
  BY Zenon DEF LostInv
<1>0. FlagTypeOK
  BY DEF IInv, TypeOK
<1>1. ASSUME UNCHANGED <<valid, ignored, lftLost>>, pc # "idle", resweep => resweep'
      PROVE  resweep'
  BY <1>1, Zenon DEF LftInv, LostInv, Intact
<1>2. CASE topology_discovery
  BY <1>2, Zenon DEF topology_discovery
<1>3. CASE (\E s \in Switch : sm_send_stl_request_async_dispatch(s)) \/ MftProgramFails
  <2>1. UNCHANGED <<valid, ignored, lftLost, resweep>> /\ pc # "idle"
    BY <1>3 DEF sm_send_stl_request_async_dispatch, MftProgramFails, ctlVars
  <2> QED BY <1>1, <2>1, Zenon
<1>4. CASE DispatchWait \/ sm_dispatch_wait \/ vs_event_wait
  <2>1. UNCHANGED <<valid, ignored, lftLost, resweep>> /\ pc # "idle"
    BY <1>4 DEF DispatchWait, sm_dispatch_wait, vs_event_wait, ctlVars
  <2> QED BY <1>1, <2>1, Zenon
<1>5. CASE WaitReturnsOk
  <2>1. UNCHANGED <<valid, ignored, lftLost>> /\ pc # "idle"
    BY <1>5 DEF WaitReturnsOk, ctlVars
  <2>2. resweep => resweep'
    BY <1>5, Zenon DEF WaitReturnsOk
  <2> QED BY <1>1, <2>1, <2>2, Zenon
<1>6. CASE LftProgramFails \/ MftNotMaster
  <2>1. UNCHANGED <<valid, ignored, lftLost, resweep>> /\ pc # "idle"
    BY <1>6 DEF LftProgramFails, MftNotMaster, ctlVars
  <2> QED BY <1>1, <2>1, Zenon
<1>7. CASE sm_dispatch_clear
  <2>1. CASE FunctionError
    BY <1>0, <2>1, ErrorSpoils
  <2>2. CASE ~FunctionError
    BY <1>7, <2>2, Zenon DEF sm_dispatch_clear
  <2> QED BY <2>1, <2>2
<1>8. CASE TopologyFunctionFails
  BY <1>0, <1>8, ErrorSpoils DEF TopologyFunctionFails
<1>9. CASE sm_dispatch_bump_passcount \/ topology_copy
  <2>1. UNCHANGED <<valid, ignored, lftLost, resweep>> /\ pc # "idle"
    BY <1>9 DEF sm_dispatch_bump_passcount, topology_copy, ctlVars
  <2> QED BY <1>1, <2>1, Zenon
<1>10. CASE topology_release_saved_topology \/ topology_clearNew
  <2>1. UNCHANGED <<valid, ignored, lftLost, resweep>> /\ pc # "idle"
    BY <1>10 DEF topology_release_saved_topology, topology_clearNew, ctlVars
  <2> QED BY <1>1, <2>1, Zenon
<1>11. CASE Reschedule
  BY <1>11 DEF Reschedule
<1>12. CASE Update \/ UNCHANGED vars
  <2>1. UNCHANGED <<valid, ignored, lftLost, resweep, pc>>
    BY <1>12 DEF Update, sm_dispatch_update, UpdateSend, UpdateSkip, UpdateDone, vars, ctlVars
  <2> QED BY <1>1, <2>1, Zenon
<1>13. ASSUME NEW r \in sent, NEW status \in {"ok", "bad", "timeout"},
              sm_dispatch_cntxt_callback(r, status)
       PROVE  resweep'
  <2>1. UNCHANGED <<valid, ignored, pc>>
    BY <1>13, Zenon DEF sm_dispatch_cntxt_callback, ctlVars
  <2>2. resweep => resweep'
    BY <1>13, Zenon DEF sm_dispatch_cntxt_callback
  <2>3. CASE status # "ok" /\ r.aid = "LFT"
    BY <1>13, <2>3, Zenon DEF sm_dispatch_cntxt_callback, Failed
  <2>4. CASE ~(status # "ok" /\ r.aid = "LFT")
    <3>1. lftLost
      BY <1>13, <2>4, Zenon DEF sm_dispatch_cntxt_callback
    <3> QED BY <2>1, <2>2, <3>1, Zenon DEF LftInv, LostInv, Intact
  <2> QED BY <2>3, <2>4
<1> QED
  BY <1>2, <1>3, <1>4, <1>5, <1>6, <1>7, <1>8, <1>9, <1>10, <1>11, <1>12, <1>13
  DEF Next, Topology, Callback

\* A sweep that ends without an error has an answer for each of its LFT blocks, and
\* has asked for a resweep if one was bad, whatever earlier sweeps left on the wire.
THEOREM LftProgrammedCorrect == Spec => []LftProgrammed
<1>1. Init => LftInv
  <2> SUFFICES ASSUME Init PROVE LftInv
    OBVIOUS
  <2> USE DEF Init
  <2>1. EndInv /\ GenInv /\ OkInv
    BY DEF EndInv, GenInv, OkInv, None
  <2>2. OwedInv /\ LostInv
    BY DEF OwedInv, LostInv
  <2> QED BY <2>1, <2>2 DEF LftInv
<1>2. IInv /\ LftInv /\ [Next]_vars => LftInv'
  BY EndStep, GenStep, OkStep, OwedStep, LostStep DEF LftInv
<1>3. LftInv => LftProgrammed
  <2> SUFFICES ASSUME LftInv, pc = "schedule", valid, ~ignored
               PROVE  ~Owed(oldGen) /\ (lftLost => resweep)
    BY Zenon DEF LftProgrammed, Owed
  <2>1. Intact /\ round = "MFT"
    BY Zenon DEF LftInv, EndInv, Intact
  <2> QED BY <2>1, Zenon DEF LftInv, OwedInv, LostInv
<1> QED BY <1>1, <1>2, <1>3, InductiveInvariant, PTL DEF Spec

-----------------------------------------------------------------------------
(* The order in which requests are sent.                                   *)

\* What one scan of sm_dispatch_update has passed over stays unsendable for the rest
\* of the scan: a node's counter only falls under the lock the scan holds.
ScanInv ==
    lock = "rcv" => \A q \in queue : q.id <= cursor => ~Sendable(q)

\* Every step keeps it.
LEMMA ScanStep == IInv /\ ScanInv /\ [Next]_vars => ScanInv'
<1> SUFFICES ASSUME IInv, ScanInv, [Next]_vars, lock' = "rcv"
             PROVE  \A q \in queue' : q.id <= cursor' => ~Sendable(q)'
  BY DEF ScanInv
<1> USE DispatchAssumption
<1>0. /\ queue \subseteq Request /\ async \in [Node -> Nat]
      /\ \A q \in queue : q.id \in Nat /\ q.id # 0
  BY DEF IInv, TypeOK, DataTypeOK, Request
<1>1. ASSUME UNCHANGED <<queue, lock, cursor, sweepPasscount, async>>
      PROVE  \A q \in queue' : q.id <= cursor' => ~Sendable(q)'
  BY <1>1 DEF ScanInv, Sendable, Fresh
<1>2. CASE sm_dispatch_update
  BY <1>0, <1>2 DEF sm_dispatch_update, dispVars
<1>3. CASE UpdateSend
  <2> DEFINE r == Oldest(Ahead)
  <2>1. /\ r \in queue /\ \A q \in queue : q.id > cursor => r.id <= q.id
    BY <1>0, <1>3, OldestIsMember DEF UpdateSend, Ahead
  <2>2. /\ lock = "rcv" /\ Sendable(r) /\ queue' = queue \ {r} /\ cursor' = r.id
        /\ async' = IF Fresh(r) THEN [async EXCEPT ![r.node] = @ + 1] ELSE async
        /\ UNCHANGED sweepPasscount
    BY <1>3 DEF UpdateSend
  <2> HIDE DEF r
  <2> SUFFICES ASSUME NEW q \in queue, q # r, q.id <= r.id PROVE ~Sendable(q)'
    BY <2>2
  <2>3. q.id # r.id
    BY <2>1 DEF IInv, RequestInv
  <2>4. q.id <= cursor
    BY <1>0, <2>1, <2>3 DEF IInv, TypeOK, DataTypeOK
  <2>5. ~Sendable(q)
    BY <2>2, <2>4 DEF ScanInv
  <2>6. q.node \in Node /\ r.node \in Node
    BY <1>0, <2>1 DEF Request
  <2> QED BY <1>0, <2>2, <2>5, <2>6 DEF Sendable, Fresh
<1>4. CASE UpdateSkip
  <2> DEFINE r == Oldest(Ahead)
  <2>1. /\ r \in queue /\ \A q \in queue : q.id > cursor => r.id <= q.id
    BY <1>0, <1>4, OldestIsMember DEF UpdateSkip, Ahead
  <2>2. /\ lock = "rcv" /\ ~Sendable(r) /\ cursor' = r.id
        /\ UNCHANGED <<queue, async, sweepPasscount>>
    BY <1>4 DEF UpdateSkip, dispVars
  <2> HIDE DEF r
  <2> SUFFICES ASSUME NEW q \in queue, q.id <= r.id PROVE ~Sendable(q)
    BY <2>2 DEF Sendable, Fresh
  <2>3. CASE q.id = r.id
    BY <2>1, <2>2, <2>3 DEF IInv, RequestInv
  <2>4. CASE q.id # r.id
    BY <1>0, <2>1, <2>2, <2>4 DEF ScanInv, IInv, TypeOK, DataTypeOK
  <2> QED BY <2>3, <2>4
<1>5. CASE UpdateDone
  BY <1>5 DEF UpdateDone
<1>6. CASE \/ sm_dispatch_clear \/ sm_dispatch_bump_passcount \/ Callback
           \/ \E s \in Switch : sm_send_stl_request_async_dispatch(s)
  BY <1>6, Zenon DEF sm_dispatch_clear, sm_dispatch_bump_passcount, Callback,
       sm_dispatch_cntxt_callback, sm_send_stl_request_async_dispatch, rcvVars
<1>7. CASE \/ topology_discovery \/ DispatchWait \/ sm_dispatch_wait \/ vs_event_wait
           \/ WaitReturnsOk \/ LftProgramFails \/ MftProgramFails \/ MftNotMaster
  BY <1>1, <1>7 DEF topology_discovery, DispatchWait, sm_dispatch_wait, vs_event_wait,
       WaitReturnsOk, LftProgramFails, MftProgramFails, MftNotMaster, dispVars, rcvVars
<1>8. CASE \/ TopologyFunctionFails \/ topology_copy \/ topology_release_saved_topology
           \/ topology_clearNew \/ Reschedule \/ UNCHANGED vars
  BY <1>1, <1>8, Zenon DEF TopologyFunctionFails, topology_copy, topology_release_saved_topology,
       topology_clearNew, Reschedule, vars, dispVars, rcvVars
<1> QED
  BY <1>2, <1>3, <1>4, <1>5, <1>6, <1>7, <1>8 DEF Next, Topology, Update

\* Only sm_dispatch_update sends, and it sends the oldest request it may send to a node.
LEMMA SendsInOrder ==
    ASSUME IInv, ScanInv, [Next]_vars
    PROVE  \A r \in sent' \ sent : \A q \in queue :
             q.node = r.node /\ q.pass = r.pass => q.id >= r.id
<1> USE DispatchAssumption
<1>0. \A q \in queue : q.id \in Nat
  BY DEF IInv, TypeOK, DataTypeOK, Request
<1>1. CASE UpdateSend
  <2> DEFINE r == Oldest(Ahead)
  <2>1. /\ r \in queue /\ \A q \in queue : q.id > cursor => r.id <= q.id
    BY <1>1, OldestIsMember DEF UpdateSend, Ahead, IInv, TypeOK, DataTypeOK
  <2>2. lock = "rcv" /\ Sendable(r) /\ sent' = sent \union {r}
    BY <1>1 DEF UpdateSend
  <2> HIDE DEF r
  <2> SUFFICES ASSUME NEW q \in queue, q.node = r.node, q.pass = r.pass PROVE q.id >= r.id
    BY <2>2
  <2>3. Sendable(q)
    BY <2>2 DEF Sendable, Fresh
  <2>4. ~(q.id <= cursor)
    BY <2>2, <2>3 DEF ScanInv
  <2> QED BY <1>0, <2>1, <2>4 DEF IInv, TypeOK, DataTypeOK
<1>2. CASE UNCHANGED sent
  BY <1>2
<1>3. CASE Callback
  BY <1>3, Zenon DEF Callback, sm_dispatch_cntxt_callback
<1>4. CASE \/ sm_dispatch_clear \/ sm_dispatch_bump_passcount
           \/ \E s \in Switch : sm_send_stl_request_async_dispatch(s)
  BY <1>2, <1>4, Zenon DEF sm_dispatch_clear, sm_dispatch_bump_passcount,
       sm_send_stl_request_async_dispatch
<1> QED
  BY <1>1, <1>2, <1>3, <1>4, QuietSteps, Zenon DEF Next, Topology, Update

\* The requests of one sweep to one switch reach the wire in the order in which the
\* topology thread queued them, although saturated switches are passed over.
THEOREM FifoCorrect == Spec => NodeFifo
<1>1. Init => ScanInv
  BY DEF Init, ScanInv
<1>2. IInv /\ ScanInv /\ [Next]_vars => ScanInv'
  BY ScanStep
<1>3. IInv /\ ScanInv /\ [Next]_vars
        => [\A r \in sent' \ sent : \A q \in queue :
              q.node = r.node /\ q.pass = r.pass => q.id >= r.id]_vars
  BY SendsInOrder
<1> QED BY <1>1, <1>2, <1>3, InductiveInvariant, PTL DEF Spec, NodeFifo

=============================================================================
