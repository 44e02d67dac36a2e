-------------------------- MODULE SmElectionProofs --------------------------
(***************************************************************************)
(* Proofs about SmElection, for any number of subnet managers, any         *)
(* priorities and any number of crashes, retried Sets and timeouts: the    *)
(* election rule always has a winner, the state machine is never asked for *)
(* a transition it refuses unless the SM was deactivated, and an elevated  *)
(* priority does not outlive the mastership it was for.                    *)
(***************************************************************************)
EXTENDS SmElection, WellFoundedInduction, TLAPS

\* While the async thread has a Set in hand the SM stays STANDBY or MASTER: the
\* thread is the only one that could deactivate it or send it back to DISCOVERING,
\* and the topology thread's transitions lead to STANDBY or MASTER.  What the Set
\* asks for depends on which one it is.
JobInv ==
  \A s \in SM : job[s].pc # "idle" =>
    /\ state[s] \in {"STANDBY", "MASTER"}
    /\ job[s].src \in SM /\ job[s].amod \in Amod
    /\ job[s].amod = "ACKNOWLEDGE" => job[s].new \in {"STANDBY", None}
    /\ job[s].amod = "DISABLE" => job[s].new \in {"NOTACTIVE", None}

Orderly == JobInv /\ NoIllegalTransition /\ ElevatedIsMaster

IInv == TypeOK /\ Orderly

-----------------------------------------------------------------------------
\* A non-empty set of natural numbers has a least element.
LEMMA Least ==
  ASSUME NEW T, T \subseteq Nat, T # {}
  PROVE  \E m \in T : \A k \in T : m <= k
PROOF
  <1>1. IsWellFoundedOn(OpToRel(<, Nat), Nat)
    BY NatLessThanWellFounded, Zenon
  <1>2. PICK m \in T : \A k \in T : ~ (<<k, m>> \in OpToRel(<, Nat))
    BY <1>1, WFMin, Zenon
  <1>3. \A k \in T : ~ (k < m)
    BY <1>2, Zenon DEF OpToRel
  <1> QED BY <1>3

\* topology_transition's loop has a winner whenever there is a candidate: the
\* highest priority exists as it has four bits, the lowest GUID among equals as
\* GUIDs differ.
LEMMA BestIsCandidate ==
  ASSUME TypeOK, NEW s \in SM, Candidates(s) # {}
  PROVE  Best(s) \in Candidates(s)
PROOF
  <1> DEFINE C == Candidates(s)
             pr(p) == rec[s][p].pr
             Gaps == {MaxPriority - pr(p) : p \in C}
  <1>1. C \subseteq SM
    BY DEF Candidates
  <1>2. \A p \in SM : pr(p) \in 0..MaxPriority
    BY DEF TypeOK, RecordsOK
  <1>3. \A p \in SM : Guid[p] \in Nat
    BY ElectionAssumption
  <1> HIDE DEF C, pr
  <1>4. Gaps \subseteq Nat /\ Gaps # {}
    BY <1>1, <1>2 DEF MaxPriority, C
  <1>5. PICK g \in Gaps : \A k \in Gaps : g <= k
    <2> HIDE DEF Gaps
    <2> QED BY <1>4, Least, Zenon
  <1>6. PICK p0 \in C : g = MaxPriority - pr(p0)
    BY <1>5
  <1>7. \A q \in C : pr(q) <= pr(p0)
    <2> SUFFICES ASSUME NEW q \in C PROVE pr(q) <= pr(p0)
      OBVIOUS
    <2>1. MaxPriority - pr(q) \in Gaps
      OBVIOUS
    <2>2. MaxPriority - pr(p0) <= MaxPriority - pr(q)
      BY <1>5, <1>6, <2>1
    <2>3. pr(q) \in 0..MaxPriority /\ pr(p0) \in 0..MaxPriority
      BY <1>1, <1>2
    <2> QED BY <2>2, <2>3 DEF MaxPriority
  <1> DEFINE Guids == {Guid[p] : p \in {q \in C : pr(q) = pr(p0)}}
  <1>8. Guids \subseteq Nat /\ Guids # {}
    BY <1>1, <1>3
  <1>9. PICK n \in Guids : \A k \in Guids : n <= k
    <2> HIDE DEF Guids
    <2> QED BY <1>8, Least
  <1>10. PICK p \in C : pr(p) = pr(p0) /\ n = Guid[p]
    BY <1>9
  <1>11. \A q \in C \ {p} : Higher(pr(p), p, pr(q), q)
    <2> SUFFICES ASSUME NEW q \in C \ {p} PROVE pr(p) > pr(q) \/ (pr(p) = pr(q) /\ Guid[p] < Guid[q])
      BY DEF Higher
    <2>1. pr(q) <= pr(p) /\ pr(q) \in Nat /\ pr(p) \in Nat
      BY <1>1, <1>2, <1>7, <1>10 DEF MaxPriority
    <2>2. CASE pr(q) = pr(p)
      <3>1. Guid[q] \in Guids
        BY <1>10, <2>2
      <3>2. Guid[p] <= Guid[q] /\ Guid[p] # Guid[q]
        BY <1>1, <1>9, <1>10, <3>1, ElectionAssumption
      <3> QED BY <1>1, <1>3, <2>2, <3>2
    <2> QED BY <2>1, <2>2
  <1> QED BY <1>11 DEF Best, C, pr

\* The initial state satisfies the inductive invariant.
LEMMA InitInv == Init => IInv
PROOF
  <1> SUFFICES ASSUME Init PROVE IInv
    OBVIOUS
  <1> USE ElectionAssumption DEF Init
  <1>1. TypeOK
    <2>1. StateTypeOK /\ EnvTypeOK
      BY DEF StateTypeOK, EnvTypeOK
    <2>2. RecordsOK(rec)
      BY DEF RecordsOK, NoRec, MaxPriority
    <2>3. ThreadTypeOK
      BY DEF ThreadTypeOK, Idle
    <2>4. FlagTypeOK
      BY Zenon DEF FlagTypeOK
    <2> QED BY <2>1, <2>2, <2>3, <2>4 DEF TypeOK
  <1>2. JobInv
    BY DEF JobInv, Idle
  <1>3. NoIllegalTransition /\ ElevatedIsMaster
    BY DEF NoIllegalTransition, ElevatedIsMaster
  <1> QED BY <1>1, <1>2, <1>3 DEF IInv, Orderly

-----------------------------------------------------------------------------
(* Types.                                                                  *)

\* Records stay records when one of them is replaced ...
LEMMA PutRecord ==
  ASSUME NEW r, RecordsOK(r), NEW s \in SM, NEW p \in SM, NEW st \in Running \cup {None},
         NEW pr \in {0, Priority[p], Elevated[p]}, NEW sync \in {"no", "done", "differs"}
  PROVE  RecordsOK([r EXCEPT ![s][p] = [st |-> st, pr |-> pr, sync |-> sync]])
PROOF
  <1> DEFINE x == [st |-> st, pr |-> pr, sync |-> sync]
  <1>1. x \in [st : Running \cup {None}, pr : 0..MaxPriority, sync : {"no", "done", "differs"}]
    BY ElectionAssumption DEF MaxPriority
  <1>2. x.pr = pr
    OBVIOUS
  <1> HIDE DEF x
  <1> QED BY <1>1, <1>2 DEF RecordsOK

\* ... in particular by none, ...
LEMMA DropRecord ==
  ASSUME NEW r, RecordsOK(r), NEW s \in SM, NEW p \in SM
  PROVE  RecordsOK([r EXCEPT ![s][p] = NoRec])
PROOF
  <1>1. None \in Running \cup {None} /\ 0 \in {0, Priority[p], Elevated[p]}
    OBVIOUS
  <1> QED BY <1>1, PutRecord, Zenon DEF NoRec

\* ... when how far a synchronization is changes, ...
LEMMA SetSync ==
  ASSUME NEW r, RecordsOK(r), NEW s \in SM, NEW p \in SM, NEW v \in {"no", "done", "differs"}
  PROVE  RecordsOK([r EXCEPT ![s][p].sync = v])
PROOF
  <1> DEFINE x == [r[s][p] EXCEPT !.sync = v]
  <1>1. r[s][p] \in [st : Running \cup {None}, pr : 0..MaxPriority, sync : {"no", "done", "differs"}]
    BY DEF RecordsOK
  <1>2. /\ x \in [st : Running \cup {None}, pr : 0..MaxPriority, sync : {"no", "done", "differs"}]
        /\ x.pr = r[s][p].pr
    BY <1>1
  <1>3. [r EXCEPT ![s][p].sync = v] = [r EXCEPT ![s][p] = x]
    OBVIOUS
  <1> HIDE DEF x
  <1>4. RecordsOK([r EXCEPT ![s][p] = x])
    BY <1>1, <1>2 DEF RecordsOK
  <1> QED BY <1>3, <1>4

\* ... and when an SM forgets all of its own.
LEMMA ForgetRecords ==
  ASSUME NEW r, RecordsOK(r), NEW s \in SM
  PROVE  RecordsOK(Forget(s, r))
PROOF
  BY ElectionAssumption DEF Forget, RecordsOK, NoRec, MaxPriority

\* What an answered Get changes at the SM that answers it has its types.
LEMMA GetTypes ==
  ASSUME TypeOK, NEW r, RecordsOK(r), NEW p \in SM, NEW s \in SM, state_event_mad_get(p, s, r)
  PROVE  RecordsOK(rec') /\ trig' \in [SM -> BOOLEAN] /\ handing' \in [SM -> BOOLEAN]
PROOF
  <1>1. PICK due \in {FALSE, state[p] = "MASTER" /\ swept[p] /\ rec[p][s].sync = "done"} :
          /\ \E t \in BOOLEAN : trig' = [trig EXCEPT ![p] = t]
          /\ \E h \in BOOLEAN : handing' = [handing EXCEPT ![p] = h]
          /\ \/ rec' = [r EXCEPT ![p][s] = NoRec]
             \/ rec' = [r EXCEPT ![p][s].sync = IF due THEN "no" ELSE @]
    BY Zenon DEF state_event_mad_get
  <1>2. trig' \in [SM -> BOOLEAN] /\ handing' \in [SM -> BOOLEAN]
    BY <1>1 DEF TypeOK, FlagTypeOK
  <1>3. CASE rec' = [r EXCEPT ![p][s] = NoRec]
    BY <1>2, <1>3, DropRecord, Zenon
  <1>4. CASE rec' = [r EXCEPT ![p][s].sync = IF due THEN "no" ELSE @]
    <2>1. r[p][s].sync \in {"no", "done", "differs"}
      BY DEF RecordsOK
    <2>2. PICK v \in {"no", "done", "differs"} : rec' = [r EXCEPT ![p][s].sync = v]
      BY <1>4, <2>1, Zenon
    <2> QED BY <1>2, <2>2, SetSync, Zenon
  <1> QED BY <1>1, <1>3, <1>4

\* The same for a Get of the topology thread, which records the answer.
LEMMA GetRecords ==
  ASSUME TypeOK, NEW s \in SM, NEW p \in SM, sm_getSmInfo(s, p)
  PROVE  RecordsOK(rec') /\ trig' \in [SM -> BOOLEAN] /\ handing' \in [SM -> BOOLEAN]
PROOF
  <1> DEFINE r == [rec EXCEPT ![s][p] = [st |-> state[p], pr |-> prio[p], sync |-> @.sync]]
  <1>1. state[p] \in Running /\ rec[s][p].sync \in {"no", "done", "differs"}
    BY DEF sm_getSmInfo, Answers, Up, TypeOK, StateTypeOK, RecordsOK
  <1>2. r = [rec EXCEPT ![s][p] = [st |-> state[p], pr |-> prio[p], sync |-> rec[s][p].sync]]
    OBVIOUS
  <1>3. prio[p] \in {0, Priority[p], Elevated[p]} /\ RecordsOK(rec)
    BY DEF TypeOK, StateTypeOK
  <1>4. RecordsOK(r)
    BY <1>1, <1>2, <1>3, PutRecord, Zenon
  <1>5. state_event_mad_get(p, s, r)
    BY Zenon DEF sm_getSmInfo
  <1> HIDE DEF r
  <1> QED BY <1>4, <1>5, GetTypes

\* Every step keeps the types of the states, the priorities and the SMs that ports name.
LEMMA StateTypes ==
  ASSUME IInv, [Next]_vars
  PROVE  StateTypeOK'
PROOF
  <1> USE ElectionAssumption DEF IInv, TypeOK, topoVars, pingVars, envVars
  <1>1. CASE UNCHANGED <<state, prio, smlid>>
    BY <1>1, Zenon DEF StateTypeOK
  <1>2. CASE \E s \in SM : topology_main(s) \/ SweepBegins(s) \/ NotToSweep(s) \/ SweepAborts(s)
    BY <1>1, <1>2, Zenon DEF topology_main, SweepBegins, NotToSweep, SweepAborts
  <1>3. CASE \E s \in SM : ScheduledSweep(s)
    BY <1>1, <1>3 DEF ScheduledSweep
  <1>4. CASE \E s \in SM : Refused(s) \/ sm_fsm_handover(s)
    BY <1>1, <1>4 DEF Refused, sm_fsm_handover
  <1>5. CASE \E s, p \in SM : sm_getSmInfo(s, p) \/ GetSmInfoFails(s, p) \/ NoSmThere(s, p) \/
                           DbsyncDone(s, p) \/ DbsyncNoAnswer(s, p) \/
                           sm_dbsync_disableStandbySm(s, p)
    BY <1>1, <1>5 DEF sm_getSmInfo, GetSmInfoFails, NoSmThere, DbsyncDone, DbsyncNoAnswer,
        sm_dbsync_disableStandbySm
  <1>6. CASE \/ \E m \in net : SetLost(m)
             \/ \E s \in SM, m \in net : state_event_mad_set(s, m)
             \/ UNCHANGED vars
    BY <1>1, <1>6, Zenon DEF SetLost, state_event_mad_set, vars
  <1>7. ASSUME NEW s \in SM, BecomesMaster(s) PROVE StateTypeOK'
    BY <1>7 DEF BecomesMaster, MoveTo, Elevate, Running, StateTypeOK
  <1>8. ASSUME NEW s \in SM, DiscoveringDecides(s) PROVE StateTypeOK'
    BY <1>8 DEF DiscoveringDecides, Elevate, Running, StateTypeOK
  <1>9. ASSUME NEW s \in SM, MasterDecides(s) PROVE StateTypeOK'
    BY <1>9 DEF MasterDecides, Elevate, StateTypeOK
  <1>10. ASSUME NEW s \in SM, SweepCompletes(s) PROVE StateTypeOK'
    BY <1>10 DEF SweepCompletes, StateTypeOK
  <1>11. ASSUME NEW s \in SM, PingFails(s) PROVE StateTypeOK'
    BY <1>11 DEF PingFails, Rediscover, sm_transition, MoveTo, RestorePriority, Running,
        StateTypeOK
  <1>12. ASSUME NEW s \in SM, PortUninitialized(s) PROVE StateTypeOK'
    BY <1>12 DEF PortUninitialized, Rediscover, sm_transition, MoveTo, RestorePriority,
        Running, StateTypeOK
  <1>13. ASSUME NEW s \in SM, PingAnswered(s) PROVE StateTypeOK'
    BY <1>13 DEF PingAnswered, Rediscover, sm_transition, MoveTo, RestorePriority, Running,
        StateTypeOK
  <1>14. ASSUME NEW s \in SM, HandoverTaken(s) PROVE StateTypeOK'
    BY <1>14 DEF HandoverTaken, TakenState, sm_transition, MoveTo, RestorePriority, Running,
        StateTypeOK
  <1>15. ASSUME NEW s \in SM, sm_fsm_master_ack(s) PROVE StateTypeOK'
    <2>1. job[s].new = "STANDBY"
      BY <1>15, Zenon DEF sm_fsm_master_ack, GotLock, Orderly, JobInv
    <2> QED BY <1>15, <2>1, Zenon DEF sm_fsm_master_ack, sm_transition, MoveTo, RestorePriority, Running,
                             StateTypeOK
  <1>16. ASSUME NEW s \in SM, sm_fsm_standby_disable(s) PROVE StateTypeOK'
    <2>1. job[s].new = "NOTACTIVE"
      BY <1>16 DEF sm_fsm_standby_disable, GotLock, Orderly, JobInv
    <2> QED BY <1>16, <2>1, Zenon DEF sm_fsm_standby_disable, sm_transition, MoveTo, RestorePriority,
                             Running, StateTypeOK
  <1>17. ASSUME NEW s \in SM, Crash(s) PROVE StateTypeOK'
    BY <1>17 DEF Crash, StateTypeOK
  <1>18. ASSUME NEW s \in SM, Start(s) PROVE StateTypeOK'
    BY <1>18, Zenon DEF Start, Starts, Running, StateTypeOK
  <1> QED
    BY Zenon, <1>1, <1>2, <1>3, <1>4, <1>5, <1>6, <1>7, <1>8, <1>9, <1>10, <1>11, <1>12, <1>13,
       <1>14, <1>15, <1>16, <1>17, <1>18
    DEF Next, Topology, topology_transition, Timer, Async, Dbsync

\* Every step keeps the types of what the threads are at.
LEMMA ThreadTypes ==
  ASSUME IInv, [Next]_vars
  PROVE  ThreadTypeOK'
PROOF
  <1> USE ElectionAssumption DEF IInv, TypeOK, topoVars, pingVars, envVars
  <1>1. CASE UNCHANGED <<lock, tpc, todo, found, job, fails, mult>>
    BY <1>1, Zenon DEF ThreadTypeOK
  <1>2. CASE \E s \in SM : ScheduledSweep(s)
    BY <1>1, <1>2 DEF ScheduledSweep
  <1>3. CASE \E s \in SM : Start(s)
    BY <1>1, <1>3 DEF Start
  <1>4. CASE \E s, p \in SM : DbsyncDone(s, p) \/ DbsyncNoAnswer(s, p) \/ sm_dbsync_disableStandbySm(s, p)
    BY <1>1, <1>4 DEF DbsyncDone, DbsyncNoAnswer, sm_dbsync_disableStandbySm
  <1>5. CASE \/ \E m \in net : SetLost(m)
             \/ UNCHANGED vars
    BY <1>1, <1>5 DEF SetLost, vars
  <1>6. ASSUME NEW s \in SM, topology_main(s) PROVE ThreadTypeOK'
    BY <1>6, Zenon DEF topology_main, ThreadTypeOK
  <1>7. ASSUME NEW s \in SM, SweepBegins(s) PROVE ThreadTypeOK'
    BY <1>7 DEF SweepBegins, ThreadTypeOK
  <1>8. ASSUME NEW s \in SM, BecomesMaster(s) PROVE ThreadTypeOK'
    BY <1>8 DEF BecomesMaster, ThenGoTo, ThreadTypeOK
  <1>9. ASSUME NEW s \in SM, DiscoveringDecides(s) PROVE ThreadTypeOK'
    BY <1>9 DEF DiscoveringDecides, ThenGoTo, ThreadTypeOK
  <1>10. ASSUME NEW s \in SM, MasterDecides(s) PROVE ThreadTypeOK'
    BY <1>10 DEF MasterDecides, ThenGoTo, ThreadTypeOK
  <1>11. ASSUME NEW s \in SM, NotToSweep(s) PROVE ThreadTypeOK'
    BY <1>11 DEF NotToSweep, ThenGoTo, ThreadTypeOK
  <1>12. ASSUME NEW s \in SM, SweepCompletes(s) PROVE ThreadTypeOK'
    BY <1>12 DEF SweepCompletes, ThenGoTo, ThreadTypeOK
  <1>13. ASSUME NEW s \in SM, SweepAborts(s) PROVE ThreadTypeOK'
    BY <1>13 DEF SweepAborts, ThenGoTo, ThreadTypeOK
  <1>14. ASSUME NEW s \in SM, PingFails(s) PROVE ThreadTypeOK'
    <2>1. MultMaxFail(s) \in 1..2
      BY DEF MultMaxFail, ThreadTypeOK
    <2>2. CASE TooManyFails(s)
      BY <1>14, <2>2 DEF PingFails, Rediscover, ThreadTypeOK
    <2>3. CASE ~TooManyFails(s)
      <3>1. fails[s] \in Nat /\ PingMaxFail \in Nat
        BY DEF ThreadTypeOK
      <3>2. MultMaxFail(s) = 1 \/ MultMaxFail(s) = 2
        BY <2>1
      <3>3. fails[s] + 1 < 2 * PingMaxFail
        BY <2>3, <3>1, <3>2 DEF TooManyFails
      <3>4. fails[s] + 1 \in 0..2 * PingMaxFail - 1
        BY <3>1, <3>3
      <3>5. /\ fails' = [fails EXCEPT ![s] = fails[s] + 1]
            /\ mult' = [mult EXCEPT ![s] = MultMaxFail(s)]
            /\ UNCHANGED <<lock, tpc, todo, found, job>>
        BY <1>14, <2>3, Zenon DEF PingFails
      <3> QED BY <2>1, <3>4, <3>5 DEF ThreadTypeOK
    <2> QED BY <2>2, <2>3
  <1>15. ASSUME NEW s \in SM, PortUninitialized(s) PROVE ThreadTypeOK'
    <2>1. UNCHANGED <<lock, tpc, todo, found, job>> /\ Rediscover(s)
      BY <1>15, Zenon DEF PortUninitialized
    <2> QED BY <2>1 DEF Rediscover, ThreadTypeOK
  <1>16. ASSUME NEW s \in SM, PingAnswered(s) PROVE ThreadTypeOK'
    <2>1. /\ UNCHANGED <<lock, tpc, todo, found, job>>
          /\ fails' = [fails EXCEPT ![s] = 0] /\ mult' = [mult EXCEPT ![s] = 1]
      BY <1>16, Zenon DEF PingAnswered, Rediscover
    <2> QED BY <2>1 DEF ThreadTypeOK
  <1>17. ASSUME NEW s \in SM, Refused(s) PROVE ThreadTypeOK'
    BY <1>17 DEF Refused, Idle, ThreadTypeOK
  <1>18. ASSUME NEW s \in SM, sm_fsm_handover(s) PROVE ThreadTypeOK'
    <2>1. /\ lock' = [lock EXCEPT ![s] = "async"] /\ job' = [job EXCEPT ![s].pc = "acked"]
          /\ UNCHANGED <<tpc, todo, found, fails, mult>>
      BY <1>18 DEF sm_fsm_handover
    <2>2. [job[s] EXCEPT !.pc = "acked"] \in
            [pc : {"idle", "wait", "acked"}, amod : Amod \cup {None},
             src : SM \cup {None}, new : Running \cup {None}]
      <3>1. job[s] \in [pc : {"idle", "wait", "acked"}, amod : Amod \cup {None},
                        src : SM \cup {None}, new : Running \cup {None}]
        BY Zenon DEF ThreadTypeOK
      <3> QED BY <3>1
    <2> QED BY <2>1, <2>2 DEF ThreadTypeOK
  <1>19. ASSUME NEW s \in SM, HandoverTaken(s) PROVE ThreadTypeOK'
    BY <1>19 DEF HandoverTaken, Idle, ThreadTypeOK
  <1>20. ASSUME NEW s \in SM, sm_fsm_master_ack(s) PROVE ThreadTypeOK'
    BY <1>20 DEF sm_fsm_master_ack, Idle, ThreadTypeOK
  <1>21. ASSUME NEW s \in SM, sm_fsm_standby_disable(s) PROVE ThreadTypeOK'
    BY <1>21 DEF sm_fsm_standby_disable, Idle, ThreadTypeOK
  <1>22. ASSUME NEW s \in SM, Crash(s) PROVE ThreadTypeOK'
    BY <1>22 DEF Crash, Idle, ThreadTypeOK
  <1>23. ASSUME NEW s \in SM, NEW p \in SM, sm_getSmInfo(s, p) PROVE ThreadTypeOK'
    BY <1>23, Zenon DEF sm_getSmInfo, LooksAt, ThreadTypeOK
  <1>24. ASSUME NEW s \in SM, NEW p \in SM, GetSmInfoFails(s, p) PROVE ThreadTypeOK'
    BY <1>24 DEF GetSmInfoFails, LooksAt, ThreadTypeOK
  <1>25. ASSUME NEW s \in SM, NEW p \in SM, NoSmThere(s, p) PROVE ThreadTypeOK'
    BY <1>25 DEF NoSmThere, LooksAt, ThreadTypeOK
  <1>26. ASSUME NEW s \in SM, NEW m \in net, state_event_mad_set(s, m) PROVE ThreadTypeOK'
    <2> DEFINE j == [pc |-> "wait", amod |-> m.amod, src |-> m.src, new |-> NewState(s, m)]
    <2>1. /\ job' = job \/ job' = [job EXCEPT ![s] = j]
          /\ UNCHANGED <<lock, tpc, todo, found, fails, mult>>
      BY <1>26 DEF state_event_mad_set
    <2>2. j \in [pc : {"idle", "wait", "acked"}, amod : Amod \cup {None},
                 src : SM \cup {None}, new : Running \cup {None}]
      BY Zenon DEF EnvTypeOK, NewState, Running
    <2> HIDE DEF j
    <2> QED BY <2>1, <2>2 DEF ThreadTypeOK
  <1> QED
    BY Zenon, <1>1, <1>2, <1>3, <1>4, <1>5, <1>6, <1>7, <1>8, <1>9, <1>10, <1>11, <1>12, <1>13,
       <1>14, <1>15, <1>16, <1>17, <1>18, <1>19, <1>20, <1>21, <1>22, <1>23, <1>24, <1>25,
       <1>26
    DEF Next, Topology, topology_transition, Timer, Async, Dbsync

\* Every step keeps the flags Boolean.
LEMMA FlagTypes ==
  ASSUME IInv, [Next]_vars
  PROVE  FlagTypeOK'
PROOF
  <1> USE ElectionAssumption DEF IInv, TypeOK, topoVars, pingVars, envVars
  <1>1. CASE UNCHANGED <<saw, illegal, trig, wake, swept, handing>>
    BY <1>1, Zenon DEF FlagTypeOK
  <1>2. CASE \E s \in SM : SweepBegins(s)
    BY <1>1, <1>2 DEF SweepBegins
  <1>3. CASE \E s \in SM : Refused(s) \/ sm_fsm_handover(s)
    BY <1>1, <1>3 DEF Refused, sm_fsm_handover
  <1>4. CASE \E s, p \in SM : GetSmInfoFails(s, p) \/ NoSmThere(s, p) \/ DbsyncDone(s, p)
    BY <1>1, <1>4, Zenon DEF GetSmInfoFails, NoSmThere, DbsyncDone
  <1>5. CASE \/ \E m \in net : SetLost(m)
             \/ \E s \in SM, m \in net : state_event_mad_set(s, m)
             \/ UNCHANGED vars
    BY <1>1, <1>5, Zenon DEF SetLost, state_event_mad_set, vars
  <1>6. ASSUME NEW s \in SM, topology_main(s) PROVE FlagTypeOK'
    BY <1>6, Zenon DEF topology_main, NextWakeup, FlagTypeOK
  <1>7. ASSUME NEW s \in SM, BecomesMaster(s) PROVE FlagTypeOK'
    BY <1>7, Zenon DEF BecomesMaster, MoveTo, FlagTypeOK
  <1>8. ASSUME NEW s \in SM, DiscoveringDecides(s) PROVE FlagTypeOK'
    BY <1>8, Zenon DEF DiscoveringDecides, FlagTypeOK
  <1>9. ASSUME NEW s \in SM, MasterDecides(s) PROVE FlagTypeOK'
    BY <1>9, Zenon DEF MasterDecides, FlagTypeOK
  <1>10. ASSUME NEW s \in SM, NotToSweep(s) PROVE FlagTypeOK'
    BY <1>10, Zenon DEF NotToSweep, FlagTypeOK
  <1>11. ASSUME NEW s \in SM, SweepCompletes(s) PROVE FlagTypeOK'
    BY <1>11, Zenon DEF SweepCompletes, NextWakeup, FlagTypeOK
  <1>12. ASSUME NEW s \in SM, SweepAborts(s) PROVE FlagTypeOK'
    BY <1>12, Zenon DEF SweepAborts, NextWakeup, FlagTypeOK
  <1>13. ASSUME NEW s \in SM, ScheduledSweep(s) PROVE FlagTypeOK'
    BY <1>13, Zenon DEF ScheduledSweep, FlagTypeOK
  <1>14. ASSUME NEW s \in SM, PingFails(s) PROVE FlagTypeOK'
    BY <1>14, Zenon DEF PingFails, Rediscover, sm_transition, MoveTo, FlagTypeOK
  <1>15. ASSUME NEW s \in SM, PortUninitialized(s) PROVE FlagTypeOK'
    BY <1>15, Zenon DEF PortUninitialized, Rediscover, sm_transition, MoveTo, FlagTypeOK
  <1>16. ASSUME NEW s \in SM, PingAnswered(s) PROVE FlagTypeOK'
    <2>1. CASE state[smlid[s]] = "MASTER"
      <3>1. smlid[s] \in SM /\ state_event_mad_get(smlid[s], s, rec)
        BY <1>16, <2>1, Zenon DEF PingAnswered, StateTypeOK
      <3>2. trig' \in [SM -> BOOLEAN] /\ handing' \in [SM -> BOOLEAN]
        BY <3>1, GetTypes
      <3> QED BY <1>16, <2>1, <3>2, Zenon DEF PingAnswered, FlagTypeOK
    <2>2. CASE state[smlid[s]] # "MASTER"
      BY <1>16, <2>2, Zenon DEF PingAnswered, Rediscover, sm_transition, MoveTo, FlagTypeOK
    <2> QED BY <2>1, <2>2
  <1>17. ASSUME NEW s \in SM, HandoverTaken(s) PROVE FlagTypeOK'
    BY <1>17, Zenon DEF HandoverTaken, TakenState, sm_transition, MoveTo, FlagTypeOK
  <1>18. ASSUME NEW s \in SM, sm_fsm_master_ack(s) PROVE FlagTypeOK'
    BY <1>18, Zenon DEF sm_fsm_master_ack, sm_transition, MoveTo, FlagTypeOK
  <1>19. ASSUME NEW s \in SM, sm_fsm_standby_disable(s) PROVE FlagTypeOK'
    BY <1>19, Zenon DEF sm_fsm_standby_disable, sm_transition, MoveTo, FlagTypeOK
  <1>20. ASSUME NEW s \in SM, Crash(s) PROVE FlagTypeOK'
    BY <1>20, Zenon DEF Crash, FlagTypeOK
  <1>21. ASSUME NEW s \in SM, Start(s) PROVE FlagTypeOK'
    BY <1>21, Zenon DEF Start, Starts, FlagTypeOK
  <1>22. ASSUME NEW s \in SM, NEW p \in SM, sm_getSmInfo(s, p) PROVE FlagTypeOK'
    <2>1. trig' \in [SM -> BOOLEAN] /\ handing' \in [SM -> BOOLEAN]
      BY <1>22, GetRecords
    <2> QED BY <1>22, <2>1, Zenon DEF sm_getSmInfo, FlagTypeOK
  <1>23. ASSUME NEW s \in SM, NEW p \in SM, DbsyncNoAnswer(s, p) PROVE FlagTypeOK'
    BY <1>23, Zenon DEF DbsyncNoAnswer, FlagTypeOK
  <1>24. ASSUME NEW s \in SM, NEW p \in SM, sm_dbsync_disableStandbySm(s, p) PROVE FlagTypeOK'
    BY <1>24, Zenon DEF sm_dbsync_disableStandbySm, FlagTypeOK
  <1> QED
    BY Zenon, <1>1, <1>2, <1>3, <1>4, <1>5, <1>6, <1>7, <1>8, <1>9, <1>10, <1>11, <1>12, <1>13,
       <1>14, <1>15, <1>16, <1>17, <1>18, <1>19, <1>20, <1>21, <1>22, <1>23, <1>24
    DEF Next, Topology, topology_transition, Timer, Async, Dbsync

\* Every step keeps the types of the Sets under way, and the bounds.
LEMMA EnvTypes ==
  ASSUME IInv, [Next]_vars
  PROVE  EnvTypeOK'
PROOF
  <1> USE ElectionAssumption DEF IInv, TypeOK, topoVars, pingVars, envVars
  <1>1. CASE UNCHANGED <<net, crashes, dups, timeouts, sweeps>>
    BY <1>1, Zenon DEF EnvTypeOK
  <1>2. CASE \E s \in SM : SweepBegins(s) \/ BecomesMaster(s) \/ DiscoveringDecides(s) \/ NotToSweep(s)
             \/ SweepCompletes(s) \/ SweepAborts(s)
    BY <1>1, <1>2, Zenon DEF SweepBegins, BecomesMaster, DiscoveringDecides, NotToSweep,
        SweepCompletes, SweepAborts
  <1>3. CASE \E s \in SM : ScheduledSweep(s) \/ PortUninitialized(s) \/ PingAnswered(s)
    BY <1>1, <1>3, Zenon DEF ScheduledSweep, PortUninitialized, PingAnswered
  <1>4. CASE \E s \in SM : Refused(s) \/ HandoverTaken(s) \/ sm_fsm_master_ack(s) \/
             sm_fsm_standby_disable(s) \/ Start(s)
    BY <1>1, <1>4, Zenon DEF Refused, HandoverTaken, sm_fsm_master_ack, sm_fsm_standby_disable,
        Start
  <1>5. CASE \E s, p \in SM : sm_getSmInfo(s, p) \/ NoSmThere(s, p) \/ DbsyncDone(s, p) \/
                           DbsyncNoAnswer(s, p)
    BY <1>1, <1>5 DEF sm_getSmInfo, NoSmThere, DbsyncDone, DbsyncNoAnswer
  <1>6. CASE UNCHANGED vars
    BY <1>1, <1>6, Zenon DEF vars
  <1>7. ASSUME NEW s \in SM, topology_main(s) PROVE EnvTypeOK'
    BY <1>7 DEF topology_main, EnvTypeOK
  <1>8. ASSUME NEW s \in SM, MasterDecides(s) PROVE EnvTypeOK'
    <2> DEFINE m == [amod |-> "HANDOVER", src |-> s, dst |-> Best(s), st |-> "MASTER"]
    <2>1. Best(s) \in SM
      BY <1>8, BestIsCandidate DEF MasterDecides, Candidates
    <2>2. m \in [amod : Amod, src : SM, dst : SM, st : Running]
      BY <2>1, Zenon DEF Amod, Running
    <2>3. (net' = net \/ net' = net \cup {m}) /\ UNCHANGED <<crashes, dups, timeouts, sweeps>>
      BY <1>8, Zenon DEF MasterDecides
    <2> HIDE DEF m
    <2> QED BY <2>2, <2>3, Zenon DEF EnvTypeOK
  <1>9. ASSUME NEW s \in SM, PingFails(s) PROVE EnvTypeOK'
    <2>1. MasterSuspect(s) /\ UNCHANGED <<net, crashes, dups, sweeps>>
      BY <1>9, Zenon DEF PingFails
    <2>2. timeouts' \in 0 .. MaxTimeouts
      <3>1. timeouts' = timeouts \/ GetTimesOut(smlid[s])
        BY <2>1, Zenon DEF MasterSuspect
      <3>2. timeouts \in 0 .. MaxTimeouts /\ MaxTimeouts \in Nat
        BY Zenon DEF EnvTypeOK
      <3> QED BY <3>1, <3>2 DEF GetTimesOut
    <2> QED BY <2>1, <2>2, Zenon DEF EnvTypeOK
  <1>10. ASSUME NEW s \in SM, sm_fsm_handover(s) PROVE EnvTypeOK'
    <2> DEFINE m == [amod |-> "ACKNOWLEDGE", src |-> s, dst |-> job[s].src, st |-> state[s]]
    <2>1. job[s].src \in SM /\ state[s] \in Running
      BY <1>10 DEF sm_fsm_handover, GotLock, Orderly, JobInv, Running
    <2>2. m \in [amod : Amod, src : SM, dst : SM, st : Running]
      BY <2>1 DEF Amod
    <2>3. net' = net \cup {m} /\ UNCHANGED <<crashes, dups, timeouts, sweeps>>
      BY <1>10 DEF sm_fsm_handover
    <2> HIDE DEF m
    <2> QED BY <2>2, <2>3 DEF EnvTypeOK
  <1>11. ASSUME NEW s \in SM, Crash(s) PROVE EnvTypeOK'
    BY <1>11 DEF Crash, EnvTypeOK
  <1>12. ASSUME NEW s \in SM, NEW p \in SM, GetSmInfoFails(s, p) PROVE EnvTypeOK'
    BY <1>12 DEF GetSmInfoFails, GetTimesOut, EnvTypeOK
  <1>13. ASSUME NEW s \in SM, NEW p \in SM, sm_dbsync_disableStandbySm(s, p) PROVE EnvTypeOK'
    BY <1>13 DEF sm_dbsync_disableStandbySm, Amod, Running, EnvTypeOK
  <1>14. ASSUME NEW m \in net, SetLost(m) PROVE EnvTypeOK'
    BY <1>14, Zenon DEF SetLost, EnvTypeOK
  <1>15. ASSUME NEW s \in SM, NEW m \in net, state_event_mad_set(s, m) PROVE EnvTypeOK'
    BY <1>15 DEF state_event_mad_set, EnvTypeOK
  <1> QED
    BY Zenon, <1>1, <1>2, <1>3, <1>4, <1>5, <1>6, <1>7, <1>8, <1>9, <1>10, <1>11, <1>12, <1>13,
       <1>14, <1>15
    DEF Next, Topology, topology_transition, Timer, Async, Dbsync

\* Every step keeps the types of smRecords.
LEMMA RecordTypes ==
  ASSUME IInv, [Next]_vars
  PROVE  RecordsOK(rec)'
PROOF
  <1> USE ElectionAssumption DEF IInv, TypeOK, topoVars, pingVars, envVars
  <1>1. CASE UNCHANGED <<rec>>
    BY <1>1, Zenon DEF RecordsOK
  <1>2. CASE \E s \in SM : SweepBegins(s) \/ BecomesMaster(s) \/ DiscoveringDecides(s) \/
             MasterDecides(s) \/ NotToSweep(s)
    BY <1>1, <1>2, Zenon DEF SweepBegins, BecomesMaster, DiscoveringDecides, MasterDecides,
        NotToSweep
  <1>3. CASE \E s \in SM : ScheduledSweep(s) \/ PingFails(s) \/ PortUninitialized(s)
    BY <1>1, <1>3, Zenon DEF ScheduledSweep, PingFails, PortUninitialized
  <1>4. CASE \E s \in SM : Refused(s) \/ sm_fsm_handover(s) \/ HandoverTaken(s) \/ sm_fsm_master_ack(s)
             \/ sm_fsm_standby_disable(s) \/ Start(s)
    BY <1>1, <1>4, Zenon DEF Refused, sm_fsm_handover, HandoverTaken, sm_fsm_master_ack,
        sm_fsm_standby_disable, Start
  <1>5. CASE \E s, p \in SM : NoSmThere(s, p)
    BY <1>1, <1>5, Zenon DEF NoSmThere
  <1>6. CASE \/ \E m \in net : SetLost(m)
             \/ \E s \in SM, m \in net : state_event_mad_set(s, m)
             \/ UNCHANGED vars
    BY <1>1, <1>6 DEF SetLost, state_event_mad_set, vars
  <1>7. ASSUME NEW s \in SM, topology_main(s) PROVE RecordsOK(rec)'
    <2>1. rec' = rec \/ rec' = Forget(s, rec)
      BY <1>7, Zenon DEF topology_main
    <2>2. RecordsOK(rec) /\ RecordsOK(Forget(s, rec))
      BY ForgetRecords, Zenon
    <2> QED BY <2>1, <2>2, Zenon
  <1>8. ASSUME NEW s \in SM, SweepCompletes(s) PROVE RecordsOK(rec)'
    BY <1>8 DEF SweepCompletes, NoRec, MaxPriority, RecordsOK
  <1>9. ASSUME NEW s \in SM, SweepAborts(s) PROVE RecordsOK(rec)'
    <2>1. rec' = rec \/ rec' = Forget(s, rec)
      BY <1>9, Zenon DEF SweepAborts
    <2>2. RecordsOK(rec) /\ RecordsOK(Forget(s, rec))
      BY ForgetRecords, Zenon
    <2> QED BY <2>1, <2>2, Zenon
  <1>10. ASSUME NEW s \in SM, PingAnswered(s) PROVE RecordsOK(rec)'
    <2>1. CASE state[smlid[s]] = "MASTER"
      <3>1. smlid[s] \in SM /\ state_event_mad_get(smlid[s], s, rec)
        BY <1>10, <2>1 DEF PingAnswered, StateTypeOK
      <3> QED BY <3>1, GetTypes, Zenon
    <2>2. CASE state[smlid[s]] # "MASTER"
      BY <1>1, <1>10, <2>2, Zenon DEF PingAnswered
    <2> QED BY <2>1, <2>2, Zenon
  <1>11. ASSUME NEW s \in SM, Crash(s) PROVE RecordsOK(rec)'
    BY <1>11, ForgetRecords DEF Crash
  <1>12. ASSUME NEW s \in SM, NEW p \in SM, sm_getSmInfo(s, p) PROVE RecordsOK(rec)'
    BY <1>12, GetRecords, Zenon
  <1>13. ASSUME NEW s \in SM, NEW p \in SM, GetSmInfoFails(s, p) PROVE RecordsOK(rec)'
    BY <1>13, DropRecord, Zenon DEF GetSmInfoFails
  <1>14. ASSUME NEW s \in SM, NEW p \in SM, DbsyncDone(s, p) PROVE RecordsOK(rec)'
    BY <1>14, SetSync, Zenon DEF DbsyncDone
  <1>15. ASSUME NEW s \in SM, NEW p \in SM, DbsyncNoAnswer(s, p) PROVE RecordsOK(rec)'
    BY <1>15, DropRecord, Zenon DEF DbsyncNoAnswer
  <1>16. ASSUME NEW s \in SM, NEW p \in SM, sm_dbsync_disableStandbySm(s, p) PROVE RecordsOK(rec)'
    BY <1>16, SetSync, Zenon DEF sm_dbsync_disableStandbySm
  <1> QED
    BY Zenon, <1>1, <1>2, <1>3, <1>4, <1>5, <1>6, <1>7, <1>8, <1>9, <1>10, <1>11, <1>12, <1>13,
       <1>14, <1>15, <1>16
    DEF Next, Topology, topology_transition, Timer, Async, Dbsync

-----------------------------------------------------------------------------
(* Transitions and priorities.                                             *)

\* A legal request is carried out and not logged.
LEMMA MovesLegally ==
  ASSUME TypeOK, NEW s \in SM, NEW new, MoveTo(s, new),
         state[s] = new \/ <<state[s], new>> \in Legal
  PROVE  state' = [state EXCEPT ![s] = new] /\ \A t \in SM : illegal'[t] => illegal[t]
PROOF
  <1> DEFINE ok == new = state[s] \/ <<state[s], new>> \in Legal
  <1>1. ok
    BY Zenon
  <1>2. /\ state' = IF ok THEN [state EXCEPT ![s] = new] ELSE state
        /\ illegal' = [illegal EXCEPT ![s] = @ \/ ~ok]
    BY DEF MoveTo
  <1>3. illegal \in [SM -> BOOLEAN]
    BY DEF TypeOK, FlagTypeOK
  <1> HIDE DEF ok
  <1>4. \A t \in SM : illegal'[t] => illegal[t]
    BY <1>1, <1>2, <1>3, Zenon
  <1> QED BY <1>1, <1>2, <1>4

\* The transitions that the async thread asks for keep the SM orderly: between
\* the states of an SM that takes part, and to NOTACTIVE.
LEMMA Steps ==
  ASSUME IInv, NEW s \in SM, NEW new, sm_transition(s, new),
         job' = [job EXCEPT ![s] = Idle] \/ (job[s].pc = "idle" /\ UNCHANGED job),
         \/ state[s] = "STANDBY" /\ new = "DISCOVERING"
         \/ state[s] \in {"STANDBY", "MASTER"} /\ new \in {"STANDBY", "MASTER", "NOTACTIVE"}
  PROVE  Orderly'
PROOF
  <1> USE ElectionAssumption
  <1>1. state[s] = new \/ <<state[s], new>> \in Legal
    BY Zenon DEF Legal
  <1>2. state' = [state EXCEPT ![s] = new] /\ \A t \in SM : illegal'[t] => illegal[t]
    BY <1>1, MovesLegally, Zenon DEF IInv, sm_transition
  <1>3. prio' = IF state[s] = "MASTER" /\ new # "MASTER"
                THEN [prio EXCEPT ![s] = Priority[s]] ELSE prio
    BY Zenon DEF sm_transition, RestorePriority
  <1>4. /\ state \in [SM -> Running \cup {"DOWN"}] /\ DOMAIN prio = SM
        /\ job'[s].pc = "idle" /\ \A t \in SM : t # s => job'[t] = job[t]
    BY DEF IInv, TypeOK, StateTypeOK, ThreadTypeOK, Idle
  <1>5. JobInv'
    BY <1>2, <1>4, Zenon DEF IInv, Orderly, JobInv
  <1>6. NoIllegalTransition'
    BY <1>2, <1>4, Zenon DEF IInv, Orderly, NoIllegalTransition
  <1>7. ElevatedIsMaster'
    BY <1>2, <1>3, <1>4, Zenon DEF IInv, Orderly, ElevatedIsMaster
  <1> QED BY <1>5, <1>6, <1>7, Zenon DEF Orderly

\* Every step keeps what a Set in hand implies, asks only for legal transitions of an SM
\* that is not deactivated, and leaves the configured priority to an SM that is not master.
LEMMA TransitionsLegal ==
  ASSUME IInv, [Next]_vars
  PROVE  Orderly'
PROOF
  <1> USE DEF topoVars, pingVars, envVars
  <1> /\ Orderly /\ state \in [SM -> Running \cup {"DOWN"}] /\ DOMAIN prio = SM
      /\ job \in [SM -> [pc : {"idle", "wait", "acked"}, amod : Amod \cup {None},
                         src : SM \cup {None}, new : Running \cup {None}]]
      /\ illegal \in [SM -> BOOLEAN]
    BY DEF IInv, TypeOK, StateTypeOK, ThreadTypeOK, FlagTypeOK
  <1>1. CASE UNCHANGED <<state, prio, illegal, job>>
    BY <1>1, Zenon DEF Orderly, JobInv, NoIllegalTransition, ElevatedIsMaster
  <1>2. CASE \E s \in SM : topology_main(s) \/ SweepBegins(s) \/ NotToSweep(s) \/ SweepCompletes(s) \/
             SweepAborts(s)
    BY <1>1, <1>2, Zenon DEF topology_main, SweepBegins, NotToSweep, SweepCompletes, SweepAborts
  <1>3. CASE \E s \in SM : ScheduledSweep(s)
    BY <1>1, <1>3, Zenon DEF ScheduledSweep
  <1>4. CASE \E s, p \in SM : sm_getSmInfo(s, p) \/ GetSmInfoFails(s, p) \/ NoSmThere(s, p) \/
                           DbsyncDone(s, p) \/ DbsyncNoAnswer(s, p) \/
                           sm_dbsync_disableStandbySm(s, p)
    BY <1>1, <1>4 DEF sm_getSmInfo, GetSmInfoFails, NoSmThere, DbsyncDone, DbsyncNoAnswer,
        sm_dbsync_disableStandbySm
  <1>5. CASE \/ \E m \in net : SetLost(m)
             \/ UNCHANGED vars
    BY <1>1, <1>5, Zenon DEF SetLost, vars
  <1>6. ASSUME NEW s \in SM, BecomesMaster(s) PROVE Orderly'
    <2>1. CASE state[s] = "NOTACTIVE"
      <3>1. UNCHANGED <<state, job>> /\ \A t \in SM : t # s => illegal'[t] = illegal[t] /\ prio'[t] = prio[t]
        BY <1>6, <2>1, Zenon DEF BecomesMaster, MoveTo, Legal, Elevate
      <3> QED BY <2>1, <3>1 DEF Orderly, JobInv, NoIllegalTransition, ElevatedIsMaster
    <2>2. CASE state[s] # "NOTACTIVE"
      <3>1. MoveTo(s, "MASTER") /\ UNCHANGED job
        BY <1>6, Zenon DEF BecomesMaster
      <3>2. state[s] = "MASTER" \/ <<state[s], "MASTER">> \in Legal
        BY <1>6, <2>2, Zenon DEF BecomesMaster, AtTransition, Up, Running, Legal
      <3>3. state' = [state EXCEPT ![s] = "MASTER"] /\ \A t \in SM : illegal'[t] => illegal[t]
        BY <3>1, <3>2, MovesLegally DEF IInv
      <3>4. \A t \in SM : t # s => prio'[t] = prio[t]
        BY <1>6, Zenon DEF BecomesMaster, Elevate
      <3> QED BY <2>2, <3>1, <3>3, <3>4 DEF Orderly, JobInv, NoIllegalTransition, ElevatedIsMaster
    <2> QED BY <2>1, <2>2, Zenon
  <1>7. ASSUME NEW s \in SM, DiscoveringDecides(s) PROVE Orderly'
    <2>1. /\ state[s] = "DISCOVERING" /\ UNCHANGED <<job, illegal>>
          /\ \/ state' = [state EXCEPT ![s] = "STANDBY"] /\ prio' = prio
             \/ state' = [state EXCEPT ![s] = "MASTER"] /\ prio' = Elevate(s, TRUE, prio)
      BY <1>7, Zenon DEF DiscoveringDecides
    <2>2. \A t \in SM : t # s => state'[t] = state[t] /\ prio'[t] = prio[t]
      BY <2>1 DEF Elevate
    <2>3. \/ state'[s] = "STANDBY" /\ prio'[s] = prio[s]
          \/ state'[s] = "MASTER"
      BY <2>1, Zenon
    <2> QED BY <2>1, <2>2, <2>3 DEF Orderly, JobInv, NoIllegalTransition, ElevatedIsMaster
  <1>8. ASSUME NEW s \in SM, MasterDecides(s) PROVE Orderly'
    <2>1. /\ state[s] = "MASTER" /\ UNCHANGED <<state, job, illegal>>
          /\ prio' = prio \/ prio' = Elevate(s, TRUE, prio)
      BY <1>8, Zenon DEF MasterDecides
    <2>2. \A t \in SM : t # s => prio'[t] = prio[t]
      BY <2>1 DEF Elevate
    <2> QED BY <2>1, <2>2 DEF Orderly, JobInv, NoIllegalTransition, ElevatedIsMaster
  <1>9. ASSUME NEW s \in SM, PingFails(s) PROVE Orderly'
    <2>1. CASE TooManyFails(s)
      <3>1. /\ state[s] = "STANDBY" /\ job[s].pc = "idle" /\ sm_transition(s, "DISCOVERING")
            /\ UNCHANGED job
        <4>1. Pings(s) /\ Rediscover(s) /\ UNCHANGED job
          BY <1>9, <2>1, Zenon DEF PingFails
        <4> QED BY <4>1 DEF Pings, Rediscover, Idle
      <3> QED BY <3>1, Steps
    <2>2. CASE ~TooManyFails(s)
      BY <1>1, <1>9, <2>2, Zenon DEF PingFails
    <2> QED BY <2>1, <2>2
  <1>10. ASSUME NEW s \in SM, PortUninitialized(s) PROVE Orderly'
    <2>1. /\ state[s] = "STANDBY" /\ job[s].pc = "idle" /\ sm_transition(s, "DISCOVERING")
          /\ UNCHANGED job
      <3>1. Pings(s) /\ Rediscover(s) /\ UNCHANGED job
        BY <1>10, Zenon DEF PortUninitialized
      <3> QED BY <3>1 DEF Pings, Rediscover, Idle
    <2> QED BY <2>1, Steps
  <1>11. ASSUME NEW s \in SM, PingAnswered(s) PROVE Orderly'
    <2>1. CASE state[smlid[s]] # "MASTER"
      <3>1. /\ state[s] = "STANDBY" /\ job[s].pc = "idle" /\ sm_transition(s, "DISCOVERING")
            /\ UNCHANGED job
        <4>1. Pings(s) /\ Rediscover(s) /\ UNCHANGED job
          BY <1>11, <2>1, Zenon DEF PingAnswered
        <4> QED BY <4>1 DEF Pings, Rediscover, Idle
      <3> QED BY <3>1, Steps
    <2>2. CASE state[smlid[s]] = "MASTER"
      BY <1>1, <1>11, <2>2, Zenon DEF PingAnswered
    <2> QED BY <2>1, <2>2, Zenon
  <1>12. ASSUME NEW s \in SM, Refused(s) PROVE Orderly'
    <2>1. UNCHANGED <<state, prio, illegal>> /\ job' = [job EXCEPT ![s] = Idle]
      BY <1>12, Zenon DEF Refused
    <2>2. \A t \in SM : job'[t] = job[t] \/ job'[t].pc = "idle"
      BY <2>1 DEF Idle
    <2> QED BY <2>1, <2>2 DEF Orderly, JobInv, NoIllegalTransition, ElevatedIsMaster
  <1>13. ASSUME NEW s \in SM, sm_fsm_handover(s) PROVE Orderly'
    <2>1. /\ job[s].pc = "wait" /\ job' = [job EXCEPT ![s].pc = "acked"]
          /\ UNCHANGED <<state, prio, illegal>>
      BY <1>13 DEF sm_fsm_handover, GotLock
    <2>2. \A t \in SM : /\ job'[t].pc # "idle" => job[t].pc # "idle"
                        /\ job'[t].src = job[t].src /\ job'[t].amod = job[t].amod
                        /\ job'[t].new = job[t].new
      BY <2>1
    <2> QED BY <2>1, <2>2 DEF Orderly, JobInv, NoIllegalTransition, ElevatedIsMaster
  <1>14. ASSUME NEW s \in SM, HandoverTaken(s) PROVE Orderly'
    <2>1. /\ job[s].pc = "acked" /\ sm_transition(s, "MASTER")
          /\ job' = [job EXCEPT ![s] = Idle]
      BY <1>14 DEF HandoverTaken, TakenState
    <2>2. state[s] \in {"STANDBY", "MASTER"}
      BY <2>1, Zenon DEF Orderly, JobInv
    <2> QED BY <2>1, <2>2, Steps, Zenon
  <1>15. ASSUME NEW s \in SM, sm_fsm_master_ack(s) PROVE Orderly'
    <2>1. /\ job[s].pc = "wait" /\ job[s].amod = "ACKNOWLEDGE" /\ job[s].new # None
          /\ sm_transition(s, job[s].new) /\ job' = [job EXCEPT ![s] = Idle]
      BY <1>15 DEF sm_fsm_master_ack, GotLock
    <2>2. job[s].new = "STANDBY" /\ state[s] \in {"STANDBY", "MASTER"}
      BY <2>1 DEF Orderly, JobInv
    <2> QED BY <2>1, <2>2, Steps, Zenon
  <1>16. ASSUME NEW s \in SM, sm_fsm_standby_disable(s) PROVE Orderly'
    <2>1. /\ job[s].pc = "wait" /\ job[s].amod = "DISABLE" /\ job[s].new # None
          /\ sm_transition(s, job[s].new) /\ job' = [job EXCEPT ![s] = Idle]
      BY <1>16 DEF sm_fsm_standby_disable, GotLock
    <2>2. job[s].new = "NOTACTIVE" /\ state[s] \in {"STANDBY", "MASTER"}
      BY <2>1 DEF Orderly, JobInv
    <2> QED BY <2>1, <2>2, Steps, Zenon
  <1>17. ASSUME NEW s \in SM, Crash(s) PROVE Orderly'
    <2>1. /\ state' = [state EXCEPT ![s] = "DOWN"] /\ prio' = [prio EXCEPT ![s] = Priority[s]]
          /\ job' = [job EXCEPT ![s] = Idle] /\ illegal' = [illegal EXCEPT ![s] = FALSE]
      BY <1>17, Zenon DEF Crash
    <2>2. /\ state'[s] = "DOWN" /\ job'[s].pc = "idle" /\ ~illegal'[s]
          /\ \A t \in SM : t # s => /\ state'[t] = state[t] /\ prio'[t] = prio[t]
                                   /\ job'[t] = job[t] /\ illegal'[t] = illegal[t]
      BY <2>1 DEF Idle
    <2> QED BY <2>2 DEF Orderly, JobInv, NoIllegalTransition, ElevatedIsMaster
  <1>18. ASSUME NEW s \in SM, Start(s) PROVE Orderly'
    BY <1>18 DEF Start, Starts, Up, Orderly, JobInv, NoIllegalTransition, ElevatedIsMaster
  <1>19. ASSUME NEW s \in SM, NEW m \in net, state_event_mad_set(s, m) PROVE Orderly'
    <2> DEFINE j == [pc |-> "wait", amod |-> m.amod, src |-> m.src, new |-> NewState(s, m)]
    <2>1. UNCHANGED <<state, prio, illegal>>
      BY <1>19, Zenon DEF state_event_mad_set
    <2>2. CASE ~TakesLock(s, m)
      BY <1>1, <1>19, <2>2, Zenon DEF state_event_mad_set
    <2>3. CASE TakesLock(s, m)
      <3>1. job' = [job EXCEPT ![s] = j] /\ state[s] \in {"STANDBY", "MASTER"}
        BY <1>19, <2>3, Zenon DEF state_event_mad_set, TakesLock
      <3>2. m.amod \in Amod /\ m.src \in SM
        BY DEF IInv, TypeOK, EnvTypeOK
      <3>3. /\ j.src \in SM /\ j.amod \in Amod
            /\ j.amod = "ACKNOWLEDGE" => j.new \in {"STANDBY", None}
            /\ j.amod = "DISABLE" => j.new \in {"NOTACTIVE", None}
        BY <3>1, <3>2, Zenon DEF NewState
      <3> HIDE DEF j
      <3> QED BY <2>1, <3>1, <3>3 DEF Orderly, JobInv, NoIllegalTransition, ElevatedIsMaster
    <2> QED BY <2>2, <2>3
  <1> QED
    BY Zenon, <1>1, <1>2, <1>3, <1>4, <1>5, <1>6, <1>7, <1>8, <1>9, <1>10, <1>11, <1>12, <1>13,
       <1>14, <1>15, <1>16, <1>17, <1>18, <1>19
    DEF Next, Topology, topology_transition, Timer, Async, Dbsync

-----------------------------------------------------------------------------
\* IInv holds throughout.
LEMMA Invariance == Spec => []IInv
PROOF
  <1>1. IInv /\ [Next]_vars => IInv'
    BY StateTypes, RecordTypes, ThreadTypes, FlagTypes, EnvTypes, TransitionsLegal DEF IInv, TypeOK
  <1> QED BY <1>1, InitInv, PTL DEF Spec

\* Type correctness of the election, for any number of SMs; the failed pings of a
\* STANDBY stay below the doubled limit of sm_check_Master.
THEOREM TypeCorrect == Spec => []TypeOK
PROOF
  <1>1. IInv => TypeOK
    BY DEF IInv
  <1> QED BY <1>1, Invariance, PTL

\* No SM that takes part in the election is asked for a transition sm_transition
\* refuses, however its two threads interleave and however often Sets are retried.
THEOREM TransitionsAreLegal == Spec => []NoIllegalTransition
PROOF
  <1>1. IInv => NoIllegalTransition
    BY DEF IInv, Orderly
  <1> QED BY <1>1, Invariance, PTL

\* No SM that waits for or looks for a master runs at its elevated priority.
THEOREM ElevationEnds == Spec => []ElevatedIsMaster
PROOF
  <1>1. IInv => ElevatedIsMaster
    BY DEF IInv, Orderly
  <1> QED BY <1>1, Invariance, PTL
=============================================================================
