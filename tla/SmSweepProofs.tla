---------------------------- MODULE SmSweepProofs ----------------------------
(***************************************************************************)
(* Proofs about SmSweep, for every set of ports and every number of        *)
(* failures: a MASTER with periodic sweeps always has a sweep ahead, no    *)
(* change of a group's members is dropped (when no member joins again), and *)
(* switches that miss an MFT update are retried within seconds.            *)
(***************************************************************************)
EXTENDS SmSweep, TLAPS

-----------------------------------------------------------------------------
(* Types.                                                                  *)

\* The types of the flags, and of everything else.
Flags ==
  /\ sema \in BOOLEAN /\ resweep \in BOOLEAN /\ forceMfts \in BOOLEAN
  /\ needed \in BOOLEAN
  /\ valid \in BOOLEAN /\ again \in BOOLEAN /\ sendOut \in BOOLEAN /\ late \in BOOLEAN
  /\ reprog \in BOOLEAN /\ needProg \in BOOLEAN
  /\ dirty \in BOOLEAN /\ asked \in BOOLEAN

Times ==
  /\ wake \in {"off", "due", "soon", "later"}
  /\ timer \in Rates /\ newTimer \in Rates \cup {"none"}
  /\ since \in {"no", "wait", "ripe"} /\ rsince \in {"no", "wait", "ripe"}

Places ==
  /\ apc \in {"recv", "rate", "discovery", "gate", "timeout"}
  /\ tpc \in {"wait", "sweep", "multicast", "send", "decide", "write", "congestion"}
  /\ rpc \in {"recv", "check", "flag", "trigger"}
  /\ newMft \subseteq Host /\ oldMft \subseteq Host /\ mft \subseteq Host
  /\ joined \subseteq Host /\ fails \in 0..MaxFails

\* Every step of every thread keeps the types.
LEMMA TypeStep ==
  TypeOK /\ [Next]_vars => TypeOK'
PROOF
  <1> SUFFICES ASSUME TypeOK, [Next]_vars PROVE TypeOK'
    OBVIOUS
  <1>0. Flags /\ Times /\ Places
    BY DEF TypeOK, Flags, Times, Places
  <1> SUFFICES Flags' /\ Times' /\ Places'
    BY Zenon DEF TypeOK, Flags, Times, Places
  <1> USE SweepAssumption DEF schedule, asyncVars, topoVars, mftVars, saVars, owedVars
  <1>1. CASE WakeupDue
    <2>1. Flags'
      BY <1>0, <1>1, Zenon DEF WakeupDue, Flags
    <2>2. Times'
      BY <1>0, <1>1 DEF WakeupDue, Times
    <2>3. Places'
      BY <1>0, <1>1 DEF WakeupDue, Places
    <2> QED
      BY <2>1, <2>2, <2>3
  <1>2. CASE DiscoveryRipe
    <2>1. Flags'
      BY <1>0, <1>2, Zenon DEF DiscoveryRipe, Flags
    <2>2. Times'
      BY <1>0, <1>2 DEF DiscoveryRipe, Times
    <2>3. Places'
      BY <1>0, <1>2 DEF DiscoveryRipe, Places
    <2> QED
      BY <2>1, <2>2, <2>3
  <1>3. CASE ReprogRipe
    <2>1. Flags'
      BY <1>0, <1>3, Zenon DEF ReprogRipe, Flags
    <2>2. Times'
      BY <1>0, <1>3 DEF ReprogRipe, Times
    <2>3. Places'
      BY <1>0, <1>3 DEF ReprogRipe, Places
    <2> QED
      BY <2>1, <2>2, <2>3
  <1>4. ASSUME NEW trap \in BOOLEAN, mai_recv_handles(trap) PROVE Flags' /\ Times' /\ Places'
    <2>1. Flags'
      BY <1>0, <1>4, Zenon DEF mai_recv_handles, Flags
    <2>2. Times'
      BY <1>0, <1>4 DEF mai_recv_handles, Times
    <2>3. Places'
      BY <1>0, <1>4 DEF mai_recv_handles, Places
    <2> QED
      BY <2>1, <2>2, <2>3
  <1>5. CASE SweepRateChange
    <2>1. Flags'
      BY <1>0, <1>5, Zenon DEF SweepRateChange, WakeForced, Flags
    <2>2. Times'
      BY <1>0, <1>5 DEF SweepRateChange, WakeForced, Times
    <2>3. Places'
      BY <1>0, <1>5 DEF SweepRateChange, WakeForced, Places
    <2> QED
      BY <2>1, <2>2, <2>3
  <1>6. CASE DiscoveryNeeded
    <2>1. Flags'
      BY <1>0, <1>6, Zenon DEF DiscoveryNeeded, Flags
    <2>2. Times'
      BY <1>0, <1>6 DEF DiscoveryNeeded, Times
    <2>3. Places'
      BY <1>0, <1>6 DEF DiscoveryNeeded, Places
    <2> QED
      BY <2>1, <2>2, <2>3
  <1>7. CASE TimeoutGate
    <2>1. Flags'
      BY <1>0, <1>7, Zenon DEF TimeoutGate, Flags
    <2>2. Times'
      BY <1>0, <1>7 DEF TimeoutGate, Times
    <2>3. Places'
      BY <1>0, <1>7 DEF TimeoutGate, Places
    <2> QED
      BY <2>1, <2>2, <2>3
  <1>8. CASE state_event_timeout
    <2>1. Flags'
      BY <1>0, <1>8, Zenon DEF state_event_timeout, sm_trigger_sweep, Flags
    <2>2. Times'
      BY <1>0, <1>8 DEF state_event_timeout, sm_trigger_sweep, Times
    <2>3. Places'
      BY <1>0, <1>8 DEF state_event_timeout, sm_trigger_sweep, Places
    <2> QED
      BY <2>1, <2>2, <2>3
  <1>9. CASE SweepBegins
    <2>1. Flags'
      BY <1>0, <1>9, Zenon DEF SweepBegins, Flags
    <2>2. Times'
      BY <1>0, <1>9 DEF SweepBegins, Times
    <2>3. Places'
      BY <1>0, <1>9 DEF SweepBegins, Places
    <2> QED
      BY <2>1, <2>2, <2>3
  <1>10. CASE SweepSucceeds
    <2>1. Flags'
      BY <1>0, <1>10, Zenon DEF SweepSucceeds, Flags
    <2>2. Times'
      BY <1>0, <1>10 DEF SweepSucceeds, Times
    <2>3. Places'
      BY <1>0, <1>10 DEF SweepSucceeds, Places
    <2> QED
      BY <2>1, <2>2, <2>3
  <1>11. ASSUME NEW force \in BOOLEAN, SweepAsksAgain(force) PROVE Flags' /\ Times' /\ Places'
    <2>1. Flags'
      BY <1>0, <1>11, Zenon DEF SweepAsksAgain, Fail, sm_request_resweep, Sooner, Flags
    <2>2. Times'
      BY <1>0, <1>11 DEF SweepAsksAgain, Fail, sm_request_resweep, Sooner, Times
    <2>3. Places'
      BY <1>0, <1>11 DEF SweepAsksAgain, Fail, sm_request_resweep, Sooner, Places
    <2> QED
      BY <2>1, <2>2, <2>3
  <1>12. CASE SweepFails
    <2>1. Flags'
      BY <1>0, <1>12, Zenon DEF SweepFails, Fail, Flags
    <2>2. Times'
      BY <1>0, <1>12 DEF SweepFails, Fail, Times
    <2>3. Places'
      BY <1>0, <1>12 DEF SweepFails, Fail, Places
    <2> QED
      BY <2>1, <2>2, <2>3
  <1>13. ASSUME NEW changed \in BOOLEAN, topology_multicast(changed) PROVE Flags' /\ Times' /\ Places'
    <2>1. Flags'
      BY <1>0, <1>13, Zenon DEF topology_multicast, Calculates, Flags
    <2>2. Times'
      BY <1>0, <1>13 DEF topology_multicast, Calculates, Times
    <2>3. Places'
      BY <1>0, <1>13 DEF topology_multicast, Calculates, Places
    <2> QED
      BY <2>1, <2>2, <2>3
  <1>14. CASE MftsSent
    <2>1. Flags'
      BY <1>0, <1>14, Zenon DEF MftsSent, SendsMfts, Flags
    <2>2. Times'
      BY <1>0, <1>14 DEF MftsSent, SendsMfts, Times
    <2>3. Places'
      BY <1>0, <1>14 DEF MftsSent, SendsMfts, Places
    <2> QED
      BY <2>1, <2>2, <2>3
  <1>15. CASE MftsFail
    <2>1. Flags'
      BY <1>0, <1>15, Zenon DEF MftsFail, ForceAgain, Fail, sm_request_resweep, Sooner, Flags
    <2>2. Times'
      BY <1>0, <1>15 DEF MftsFail, ForceAgain, Fail, sm_request_resweep, Sooner, Times
    <2>3. Places'
      BY <1>0, <1>15 DEF MftsFail, ForceAgain, Fail, sm_request_resweep, Sooner, Places
    <2> QED
      BY <2>1, <2>2, <2>3
  <1>16. CASE Decide
    <2>1. Flags'
      BY <1>0, <1>16, Zenon DEF Decide, Again, Flags
    <2>2. Times'
      BY <1>0, <1>16 DEF Decide, Again, Times
    <2>3. Places'
      BY <1>0, <1>16 DEF Decide, Again, Places
    <2> QED
      BY <2>1, <2>2, <2>3
  <1>17. CASE WriteWakeup
    <2>1. Flags'
      BY <1>0, <1>17, Zenon DEF WriteWakeup, NextWakeup, Flags
    <2>2. Times'
      BY <1>0, <1>17 DEF WriteWakeup, NextWakeup, Times
    <2>3. Places'
      BY <1>0, <1>17 DEF WriteWakeup, NextWakeup, Places
    <2> QED
      BY <2>1, <2>2, <2>3
  <1>18. CASE NextPass
    <2>1. Flags'
      BY <1>0, <1>18, Zenon DEF NextPass, Flags
    <2>2. Times'
      BY <1>0, <1>18 DEF NextPass, Times
    <2>3. Places'
      BY <1>0, <1>18 DEF NextPass, Places
    <2> QED
      BY <2>1, <2>2, <2>3
  <1>19. CASE sa_McMemberRecord
    <2>0. reprog' \in {reprog, TRUE, FALSE}
      BY <1>19 DEF sa_McMemberRecord, Join, Leave, JoinAgain
    <2>1. Flags'
      <3>1. reprog' \in BOOLEAN
        BY <1>0, <2>0, Zenon DEF Flags
      <3>2. UNCHANGED <<sema, resweep, forceMfts, needed, valid, again, sendOut, late,
                        needProg, dirty, asked>>
        BY <1>19 DEF sa_McMemberRecord
      <3> QED
        BY <1>0, <3>1, <3>2, Zenon DEF Flags
    <2>2. Times'
      BY <1>0, <1>19 DEF sa_McMemberRecord, Join, Leave, JoinAgain, Times
    <2>3. Places'
      BY <1>0, <1>19 DEF sa_McMemberRecord, Join, Leave, JoinAgain, Places
    <2> QED
      BY <2>1, <2>2, <2>3
  <1>20. CASE ReprogCheck
    <2>1. Flags'
      BY <1>0, <1>20, Zenon DEF ReprogCheck, Flags
    <2>2. Times'
      BY <1>0, <1>20 DEF ReprogCheck, Times
    <2>3. Places'
      BY <1>0, <1>20 DEF ReprogCheck, Places
    <2> QED
      BY <2>1, <2>2, <2>3
  <1>21. CASE GroupsNeedProg
    <2>1. Flags'
      BY <1>0, <1>21, Zenon DEF GroupsNeedProg, Flags
    <2>2. Times'
      BY <1>0, <1>21 DEF GroupsNeedProg, Times
    <2>3. Places'
      BY <1>0, <1>21 DEF GroupsNeedProg, Places
    <2> QED
      BY <2>1, <2>2, <2>3
  <1>22. CASE ReprogTrigger
    <2>1. Flags'
      BY <1>0, <1>22, Zenon DEF ReprogTrigger, sm_trigger_sweep, Flags
    <2>2. Times'
      BY <1>0, <1>22 DEF ReprogTrigger, sm_trigger_sweep, Times
    <2>3. Places'
      BY <1>0, <1>22 DEF ReprogTrigger, sm_trigger_sweep, Places
    <2> QED
      BY <2>1, <2>2, <2>3
  <1>23. CASE LateCallback
    <2>1. Flags'
      BY <1>0, <1>23, Zenon DEF LateCallback, sm_request_resweep, Sooner, Flags
    <2>2. Times'
      BY <1>0, <1>23 DEF LateCallback, sm_request_resweep, Sooner, Times
    <2>3. Places'
      BY <1>0, <1>23 DEF LateCallback, sm_request_resweep, Sooner, Places
    <2> QED
      BY <2>1, <2>2, <2>3
  <1>24. CASE sm_forceSweep
    <2>1. Flags'
      BY <1>0, <1>24, Zenon DEF sm_forceSweep, Flags
    <2>2. Times'
      BY <1>0, <1>24 DEF sm_forceSweep, Times
    <2>3. Places'
      BY <1>0, <1>24 DEF sm_forceSweep, Places
    <2> QED
      BY <2>1, <2>2, <2>3
  <1>25. ASSUME NEW rate \in Rates, sm_setSweepRate(rate) PROVE Flags' /\ Times' /\ Places'
    <2>1. Flags'
      BY <1>0, <1>25, Zenon DEF sm_setSweepRate, Flags
    <2>2. Times'
      BY <1>0, <1>25 DEF sm_setSweepRate, Times
    <2>3. Places'
      BY <1>0, <1>25 DEF sm_setSweepRate, Places
    <2> QED
      BY <2>1, <2>2, <2>3
  <1>26. CASE UNCHANGED vars
    <2>1. Flags'
      BY <1>0, <1>26, Zenon DEF vars, Flags
    <2>2. Times'
      BY <1>0, <1>26 DEF vars, Times
    <2>3. Places'
      BY <1>0, <1>26 DEF vars, Places
    <2> QED
      BY <2>1, <2>2, <2>3
  <1> QED
    BY <1>1, <1>2, <1>3, <1>4, <1>5, <1>6, <1>7, <1>8, <1>9, <1>10, <1>11, <1>12, <1>13, <1>14,
       <1>15, <1>16, <1>17, <1>18, <1>19, <1>20, <1>21, <1>22, <1>23, <1>24, <1>25, <1>26
    DEF Next, Time, Async, Topology, Reader

\* Type correctness, for every set of ports and every number of failures.
THEOREM TypeCorrect == Spec => []TypeOK
PROOF
  <1>1. Init => TypeOK
    <2> SUFFICES ASSUME Init PROVE TypeOK
      OBVIOUS
    <2>1. wake \in {"off", "due", "soon", "later"}
      BY DEF Init
    <2>2. fails \in 0..MaxFails
      BY SweepAssumption DEF Init
    <2> QED
      BY <2>1, <2>2, Zenon DEF Init, TypeOK
  <1>2. TypeOK /\ [Next]_vars => TypeOK'
    BY TypeStep
  <1> QED
    BY <1>1, <1>2, PTL DEF Spec

-----------------------------------------------------------------------------
(* A sweep is always ahead.                                                *)

\* With periodic sweeps the timer is on and stays so.
TimerOn == timer = "on" /\ newTimer \in {"on", "none"}

AheadInv == TimerOn /\ SweepAhead

\* Every step of every thread keeps a sweep ahead of the MASTER.
LEMMA AheadStep ==
  ASSUME Rates = {"on"}
  PROVE  AheadInv /\ [Next]_vars => AheadInv'
PROOF
  <1> SUFFICES ASSUME AheadInv, [Next]_vars PROVE AheadInv'
    OBVIOUS
  <1> USE DEF AheadInv, TimerOn, SweepAhead, Sweeping,
          schedule, asyncVars, topoVars, mftVars, saVars, owedVars
  <1>1. CASE WakeupDue
    BY <1>1 DEF WakeupDue
  <1>2. CASE DiscoveryRipe
    BY <1>2 DEF DiscoveryRipe
  <1>3. CASE ReprogRipe
    BY <1>3 DEF ReprogRipe
  <1>4. ASSUME NEW trap \in BOOLEAN, mai_recv_handles(trap) PROVE AheadInv'
    BY <1>4 DEF mai_recv_handles
  <1>5. CASE SweepRateChange
    BY <1>5 DEF SweepRateChange, WakeForced
  <1>6. CASE DiscoveryNeeded
    BY <1>6 DEF DiscoveryNeeded
  <1>7. CASE TimeoutGate
    BY <1>7 DEF TimeoutGate
  <1>8. CASE state_event_timeout
    BY <1>8 DEF state_event_timeout, sm_trigger_sweep
  <1>9. CASE SweepBegins
    BY <1>9 DEF SweepBegins
  <1>10. CASE SweepSucceeds
    BY <1>10 DEF SweepSucceeds
  <1>11. ASSUME NEW force \in BOOLEAN, SweepAsksAgain(force) PROVE AheadInv'
    BY <1>11 DEF SweepAsksAgain, sm_request_resweep, Sooner
  <1>12. CASE SweepFails
    BY <1>12 DEF SweepFails
  <1>13. ASSUME NEW changed \in BOOLEAN, topology_multicast(changed) PROVE AheadInv'
    BY <1>13 DEF topology_multicast
  <1>14. CASE MftsSent
    BY <1>14 DEF MftsSent
  <1>15. CASE MftsFail
    BY <1>15 DEF MftsFail, sm_request_resweep, Sooner
  <1>16. CASE Decide
    BY <1>16 DEF Decide
  <1>17. CASE WriteWakeup
    BY <1>17 DEF WriteWakeup, NextWakeup
  <1>18. CASE NextPass
    BY <1>18 DEF NextPass
  <1>19. CASE sa_McMemberRecord
    BY <1>19 DEF sa_McMemberRecord
  <1>20. CASE ReprogCheck
    BY <1>20 DEF ReprogCheck
  <1>21. CASE GroupsNeedProg
    BY <1>21 DEF GroupsNeedProg
  <1>22. CASE ReprogTrigger
    BY <1>22 DEF ReprogTrigger, sm_trigger_sweep
  <1>23. CASE LateCallback
    BY <1>23 DEF LateCallback, sm_request_resweep, Sooner
  <1>24. CASE sm_forceSweep
    BY <1>24 DEF sm_forceSweep
  <1>25. ASSUME NEW rate \in Rates, sm_setSweepRate(rate) PROVE AheadInv'
    BY <1>25 DEF sm_setSweepRate
  <1>26. CASE UNCHANGED vars
    BY <1>26 DEF vars
  <1> QED
    BY <1>1, <1>2, <1>3, <1>4, <1>5, <1>6, <1>7, <1>8, <1>9, <1>10, <1>11, <1>12, <1>13, <1>14,
       <1>15, <1>16, <1>17, <1>18, <1>19, <1>20, <1>21, <1>22, <1>23, <1>24, <1>25, <1>26
    DEF Next, Time, Async, Topology, Reader

\* A MASTER with periodic sweeps is never left without a next sweep, whatever the
\* order of the unlocked writes to topology_wakeup_time in async_main,
\* state_event_timeout, topology_main, sm_request_resweep and sa_main_reader.
THEOREM SweepAheadCorrect == Spec => []AlwaysSweepAhead
PROOF
  <1>1. CASE Rates = {"on"}
    <2>1. Init => AheadInv
      BY <1>1 DEF Init, AheadInv, TimerOn, SweepAhead
    <2>2. AheadInv /\ [Next]_vars => AheadInv'
      BY <1>1, AheadStep
    <2>3. AheadInv => AlwaysSweepAhead
      BY DEF AheadInv, AlwaysSweepAhead
    <2> QED
      BY <2>1, <2>2, <2>3, PTL DEF Spec
  <1>2. CASE "off" \in Rates
    <2>1. AlwaysSweepAhead
      BY <1>2 DEF AlwaysSweepAhead
    <2> QED
      BY <2>1, PTL
  <1> QED
    BY <1>1, <1>2, SweepAssumption

-----------------------------------------------------------------------------
(* No change of the members is lost.                                       *)

\* Somewhere behind the SA reader the present members are on their way to the
\* switches, or are there already.
Carried ==
  \/ needProg
  \/ tpc = "send" /\ newMft = joined /\ (SendsMfts \/ mft = joined)
  \/ tpc # "send" /\ oldMft = joined /\ (forceMfts \/ mft = joined)

\* The reader forgets a change (sa_mft_reprog) only when it is carried.
JoinInv == ~reprog \/ rpc = "trigger" => Carried

\* No step of any thread drops the members on their way to the switches.
LEMMA JoinStep ==
  ASSUME ~Rejoins
  PROVE  JoinInv /\ [Next]_vars => JoinInv'
PROOF
  <1> SUFFICES ASSUME JoinInv, [Next]_vars PROVE JoinInv'
    OBVIOUS
  <1> USE DEF JoinInv, Carried, SendsMfts,
          schedule, asyncVars, topoVars, mftVars, saVars, owedVars
  <1>1. CASE WakeupDue
    BY <1>1 DEF WakeupDue
  <1>2. CASE DiscoveryRipe
    BY <1>2 DEF DiscoveryRipe
  <1>3. CASE ReprogRipe
    BY <1>3 DEF ReprogRipe
  <1>4. ASSUME NEW trap \in BOOLEAN, mai_recv_handles(trap) PROVE JoinInv'
    BY <1>4 DEF mai_recv_handles
  <1>5. CASE SweepRateChange
    BY <1>5 DEF SweepRateChange
  <1>6. CASE DiscoveryNeeded
    BY <1>6 DEF DiscoveryNeeded
  <1>7. CASE TimeoutGate
    BY <1>7 DEF TimeoutGate
  <1>8. CASE state_event_timeout
    BY <1>8 DEF state_event_timeout
  <1>9. CASE SweepBegins
    BY <1>9 DEF SweepBegins
  <1>10. CASE SweepSucceeds
    BY <1>10 DEF SweepSucceeds
  <1>11. ASSUME NEW force \in BOOLEAN, SweepAsksAgain(force) PROVE JoinInv'
    BY <1>11 DEF SweepAsksAgain
  <1>12. CASE SweepFails
    BY <1>12 DEF SweepFails
  <1>13. ASSUME NEW changed \in BOOLEAN, topology_multicast(changed) PROVE JoinInv'
    BY <1>13 DEF topology_multicast, Calculates
  <1>14. CASE MftsSent
    BY <1>14 DEF MftsSent
  <1>15. CASE MftsFail
    BY <1>15 DEF MftsFail, ForceAgain
  <1>16. CASE Decide
    BY <1>16 DEF Decide
  <1>17. CASE WriteWakeup
    BY <1>17 DEF WriteWakeup
  <1>18. CASE NextPass
    BY <1>18 DEF NextPass
  <1>19. CASE sa_McMemberRecord
    BY <1>19 DEF sa_McMemberRecord, Join, Leave, JoinAgain
  <1>20. CASE ReprogCheck
    BY <1>20 DEF ReprogCheck
  <1>21. CASE GroupsNeedProg
    BY <1>21 DEF GroupsNeedProg
  <1>22. CASE ReprogTrigger
    BY <1>22 DEF ReprogTrigger
  <1>23. CASE LateCallback
    BY <1>23 DEF LateCallback
  <1>24. CASE sm_forceSweep
    BY <1>24 DEF sm_forceSweep
  <1>25. ASSUME NEW rate \in Rates, sm_setSweepRate(rate) PROVE JoinInv'
    BY <1>25 DEF sm_setSweepRate
  <1>26. CASE UNCHANGED vars
    BY <1>26 DEF vars
  <1> QED
    BY <1>1, <1>2, <1>3, <1>4, <1>5, <1>6, <1>7, <1>8, <1>9, <1>10, <1>11, <1>12, <1>13, <1>14,
       <1>15, <1>16, <1>17, <1>18, <1>19, <1>20, <1>21, <1>22, <1>23, <1>24, <1>25, <1>26
    DEF Next, Time, Async, Topology, Reader

\* A join or a leave that sa_McMemberRecord accepts is never dropped between the SA
\* reader, the topology thread and the switches, whatever fails: with periodic sweeps
\* and without repeated joins.
THEOREM NoLostJoinCorrect ==
  ASSUME ~Rejoins, Rates = {"on"}
  PROVE  Spec => []NoLostJoin
PROOF
  <1>1. Init => AheadInv /\ JoinInv
    BY DEF Init, AheadInv, TimerOn, SweepAhead, JoinInv, Carried
  <1>2. AheadInv /\ JoinInv /\ [Next]_vars => AheadInv' /\ JoinInv'
    BY AheadStep, JoinStep
  <1>3. AheadInv /\ JoinInv => NoLostJoin
    BY DEF AheadInv, JoinInv, Carried, NoLostJoin
  <1> QED
    BY <1>1, <1>2, <1>3, PTL DEF Spec

-----------------------------------------------------------------------------
(* A failed update is retried soon.                                        *)

RetryInv ==
  /\ mft # oldMft => forceMfts
  /\ tpc = "send" /\ ~sendOut => newMft = oldMft
  /\ tpc = "decide" /\ mft # oldMft => resweep \/ ~valid
  /\ tpc = "write" /\ mft # oldMft => again
  /\ RetryIsSoon

\* No step of any thread puts the retry of a failed update off.
LEMMA RetryStep ==
  RetryInv /\ [Next]_vars => RetryInv'
PROOF
  <1> SUFFICES ASSUME RetryInv, [Next]_vars PROVE RetryInv'
    OBVIOUS
  <1> USE DEF RetryInv, RetryIsSoon,
          schedule, asyncVars, topoVars, mftVars, saVars, owedVars
  <1>1. CASE WakeupDue
    BY <1>1 DEF WakeupDue
  <1>2. CASE DiscoveryRipe
    BY <1>2 DEF DiscoveryRipe
  <1>3. CASE ReprogRipe
    BY <1>3 DEF ReprogRipe
  <1>4. ASSUME NEW trap \in BOOLEAN, mai_recv_handles(trap) PROVE RetryInv'
    BY <1>4 DEF mai_recv_handles
  <1>5. CASE SweepRateChange
    BY <1>5 DEF SweepRateChange, WakeForced
  <1>6. CASE DiscoveryNeeded
    BY <1>6 DEF DiscoveryNeeded
  <1>7. CASE TimeoutGate
    BY <1>7 DEF TimeoutGate
  <1>8. CASE state_event_timeout
    BY <1>8 DEF state_event_timeout, sm_trigger_sweep
  <1>9. CASE SweepBegins
    BY <1>9 DEF SweepBegins
  <1>10. CASE SweepSucceeds
    BY <1>10 DEF SweepSucceeds
  <1>11. ASSUME NEW force \in BOOLEAN, SweepAsksAgain(force) PROVE RetryInv'
    BY <1>11 DEF SweepAsksAgain, sm_request_resweep, Sooner
  <1>12. CASE SweepFails
    BY <1>12 DEF SweepFails
  <1>13. ASSUME NEW changed \in BOOLEAN, topology_multicast(changed) PROVE RetryInv'
    BY <1>13 DEF topology_multicast, Calculates
  <1>14. CASE MftsSent
    BY <1>14 DEF MftsSent, SendsMfts
  <1>15. CASE MftsFail
    BY <1>15 DEF MftsFail, ForceAgain, sm_request_resweep, Sooner
  <1>16. CASE Decide
    BY <1>16 DEF Decide, Again
  <1>17. CASE WriteWakeup
    BY <1>17 DEF WriteWakeup, NextWakeup
  <1>18. CASE NextPass
    BY <1>18 DEF NextPass
  <1>19. CASE sa_McMemberRecord
    BY <1>19 DEF sa_McMemberRecord
  <1>20. CASE ReprogCheck
    BY <1>20 DEF ReprogCheck
  <1>21. CASE GroupsNeedProg
    BY <1>21 DEF GroupsNeedProg
  <1>22. CASE ReprogTrigger
    BY <1>22 DEF ReprogTrigger, sm_trigger_sweep
  <1>23. CASE LateCallback
    BY <1>23 DEF LateCallback, sm_request_resweep, Sooner
  <1>24. CASE sm_forceSweep
    BY <1>24 DEF sm_forceSweep
  <1>25. ASSUME NEW rate \in Rates, sm_setSweepRate(rate) PROVE RetryInv'
    BY <1>25 DEF sm_setSweepRate
  <1>26. CASE UNCHANGED vars
    BY <1>26 DEF vars
  <1> QED
    BY <1>1, <1>2, <1>3, <1>4, <1>5, <1>6, <1>7, <1>8, <1>9, <1>10, <1>11, <1>12, <1>13, <1>14,
       <1>15, <1>16, <1>17, <1>18, <1>19, <1>20, <1>21, <1>22, <1>23, <1>24, <1>25, <1>26
    DEF Next, Time, Async, Topology, Reader

\* Switches that did not take their MFTs are sent them again within seconds, in every
\* interleaving with the resets of topology_resweep and with periodic sweeps on or off.
THEOREM RetryIsSoonCorrect == Spec => []RetryIsSoon
PROOF
  <1>1. Init => RetryInv
    BY DEF Init, RetryInv, RetryIsSoon
  <1>2. RetryInv /\ [Next]_vars => RetryInv'
    BY RetryStep
  <1>3. RetryInv => RetryIsSoon
    BY DEF RetryInv
  <1> QED
    BY <1>1, <1>2, <1>3, PTL DEF Spec
=============================================================================
