----------------------------- MODULE SmElection -----------------------------
(***************************************************************************)
(* Several subnet managers on one fabric elect the MASTER among them.      *)
(* Each SM runs two threads that this module interleaves:                  *)
(*  - the topology thread (topology_main, sm_topology.c) sweeps the fabric *)
(*    under new_topology_lock: it asks every other SM for its SMInfo,      *)
(*    keeps the answers in smRecords and decides in topology_transition;   *)
(*  - the async thread (sm_async.c, sm_fsm.c) answers SMInfo Gets, handles *)
(*    the Set(SMInfo) controls HANDOVER, ACKNOWLEDGE and DISABLE, pings    *)
(*    the master while STANDBY and starts the scheduled sweeps.            *)
(* A Get is one step: the answer and what the Get does at the answering    *)
(* SM.  It fails when the peer is down or its async thread is busy.        *)
(* A Set is a message: the sender goes on after its reply or its timeout,  *)
(* so the message may be handled late or, when it was retried, twice.      *)
(***************************************************************************)
EXTENDS Integers, FiniteSets

CONSTANTS
  SM,              \* the ports that run a subnet manager
  Guid,            \* port GUID of each SM: the lower one wins a tie
  Priority,        \* sm_config.priority
  Elevated,        \* sm_config.elevated_priority
  Misconfigured,   \* SMs the master's consistency check deactivates
  PingMaxFail,     \* sm_config.master_ping_max_fail
  SweepTimer,      \* sm_config.timer # 0: periodic sweeps are on
  MaxFaults,       \* bound on the crashes and the Sets delivered twice, together
  MaxTimeouts,     \* bound on the Gets that time out at a busy SM, 0: none
  MaxSweeps        \* bound on the sweeps of all SMs together, 0: none

\* SM_MAX_PRIORITY: the field of SMInfo has four bits.
MaxPriority == 15

ASSUME ElectionAssumption ==
  /\ Guid \in [SM -> Nat]
  /\ \A a, b \in SM : Guid[a] = Guid[b] => a = b
  /\ Priority \in [SM -> 0..MaxPriority] /\ Elevated \in [SM -> 0..MaxPriority]
  /\ Misconfigured \subseteq SM
  /\ PingMaxFail \in Nat \ {0}
  /\ SweepTimer \in BOOLEAN
  /\ MaxFaults \in Nat /\ MaxTimeouts \in Nat
  /\ MaxSweeps \in Nat

VARIABLES
  state,     \* sm_state of each SM; DOWN when its process does not run
  prio,      \* sm_smInfo.u.s.Priority
  saw,       \* sm_saw_another_sm
  rec,       \* smRecords: what each SM remembers of every other SM
  smlid,     \* PortInfo.MasterSMLID of each SM's port, as the SM it names
  lock,      \* who holds new_topology_lock
  tpc,       \* where the topology thread is
  todo,      \* the ports its sweep has still to look at
  found,     \* the ports on which its sweep saw PI_CM_IS_SM
  job,       \* what the async thread is doing
  fails,     \* fsmCheckMasterFailed
  mult,      \* fsmMultMaxFail
  trig,      \* topology_sema was posted
  wake,      \* topology_wakeup_time # 0
  swept,     \* topology_passcount > 0
  handing,   \* triggered_handover and not yet handover_sent
  net,       \* Set(SMInfo) controls under way
  illegal,   \* the SM's log has an illegal transition asked of sm_transition
  crashes, dups, timeouts, sweeps   \* how much of each bound is used

topoVars == <<tpc, todo, found>>
pingVars == <<fails, mult>>
envVars  == <<crashes, dups, timeouts, sweeps>>
vars == <<state, prio, saw, rec, smlid, lock, topoVars, job, pingVars, trig,
          wake, swept, handing, net, illegal, envVars>>

None == "none"
Running == {"NOTACTIVE", "DISCOVERING", "STANDBY", "MASTER"}
Amod == {"HANDOVER", "ACKNOWLEDGE", "DISABLE"}

\* An entry of smRecords: the peer's SMInfo and how far its synchronization is:
\* not done, "done", or never to be, as its configuration "differs" from ours.
NoRec == [st |-> None, pr |-> 0, sync |-> "no"]
Known(s, p) == rec[s][p] # NoRec
Idle == [pc |-> "idle", amod |-> None, src |-> None, new |-> None]
Up(s) == state[s] # "DOWN"

-----------------------------------------------------------------------------
(* What both threads use.                                                  *)

\* The election rule: a, at priority pa, is preferred to b at priority pb.
Higher(pa, a, pb, b) == pa > pb \/ (pa = pb /\ Guid[a] < Guid[b])

\* Mutant: a peer that is master counts only once it is synchronized.
UpToDateIfSynced(s, p) == rec[s][p].sync = "done"

\* sm_dbsync_isUpToDate: a peer that thinks it is master always counts.
UpToDate(s, p) == rec[s][p].st = "MASTER" \/ rec[s][p].sync = "done"

\* The transitions sm_transition accepts.
Legal == {<<"NOTACTIVE", "DISCOVERING">>, <<"NOTACTIVE", "STANDBY">>,
          <<"DISCOVERING", "STANDBY">>, <<"DISCOVERING", "MASTER">>,
          <<"DISCOVERING", "NOTACTIVE">>,
          <<"STANDBY", "MASTER">>, <<"STANDBY", "DISCOVERING">>, <<"STANDBY", "NOTACTIVE">>,
          <<"MASTER", "STANDBY">>, <<"MASTER", "NOTACTIVE">>}

\* sm_transition: an illegal request is logged and leaves the state alone.
MoveTo(s, new) ==
  LET ok == new = state[s] \/ <<state[s], new>> \in Legal
  IN /\ state' = IF ok THEN [state EXCEPT ![s] = new] ELSE state
     /\ illegal' = [illegal EXCEPT ![s] = @ \/ ~ok]

\* Mutant: leaving MASTER keeps the elevated priority.
KeepPriority(s, new) == prio' = prio

\* Leaving MASTER restores the configured priority (sm_restorePriorityOnly).
RestorePriority(s, new) ==
  prio' = IF state[s] = "MASTER" /\ new # "MASTER"
          THEN [prio EXCEPT ![s] = Priority[s]] ELSE prio

sm_transition(s, new) == MoveTo(s, new) /\ RestorePriority(s, new)

\* What an SMInfo Get from s does at the SM p that answers it, as a change of
\* p's variables: state_event_mad looks at the requester only once p is a
\* MASTER that has completed a sweep.
GetStateChanged(p, s) == state[s] \in {"MASTER", "STANDBY"} /\ rec[p][s].st # state[s]
GetWantsHandover(p, s, due) ==
  /\ state[s] \in {"MASTER", "STANDBY"}
  /\ Higher(prio[s], s, prio[p], p)
  /\ UpToDate(p, s) /\ (due => rec[p][s].st = "MASTER")

\* When s's last synchronization is older than db_sync_interval the Get also
\* starts a new one (sm_dbsync_fullSyncCheck), and s is out of date until then.
state_event_mad_get(p, s, r) ==
  LET heard == state[p] = "MASTER" /\ swept[p] IN
  \E due \in {FALSE, heard /\ rec[p][s].sync = "done"} :
    LET hand == heard /\ GetWantsHandover(p, s, due) IN
    /\ trig' = [trig EXCEPT ![p] = @ \/ (heard /\ GetStateChanged(p, s))
                                     \/ (hand /\ ~handing[p])]
    /\ handing' = [handing EXCEPT ![p] = @ \/ hand]
    /\ rec' = IF heard /\ state[s] \in {"DISCOVERING", "NOTACTIVE"}
              THEN [r EXCEPT ![p][s] = NoRec]
              ELSE [r EXCEPT ![p][s].sync = IF due THEN "no" ELSE @]

\* A Get of p's SMInfo is answered by p's async thread.
Answers(p) == Up(p) /\ job[p] = Idle

\* Its async thread is busy for as long as the Get is retried.
GetTimesOut(p) ==
  /\ Up(p) /\ ~Answers(p)
  /\ MaxTimeouts = 0 \/ timeouts < MaxTimeouts
  /\ timeouts' = IF MaxTimeouts = 0 THEN 0 ELSE timeouts + 1

\* SM_Set_SMInfo returns when the receiver has replied, which it does before it
\* acts on the control, or when the retries run out because the receiver's async
\* thread is busy or gone; the control then stays in the receiver's queue.
SetReturns(s, amod) == \A m \in net : m.src = s /\ m.amod = amod => ~Answers(m.dst)

-----------------------------------------------------------------------------
(* The topology thread.                                                    *)

\* clearSaTables calls sm_dbsync_upsmlist: an SM that is not to sweep forgets
\* every other SM.
Forget(s, r) == [r EXCEPT ![s] = [p \in SM |-> NoRec]]

\* Mutant: a failed sweep is not repeated.
NextWakeupIfValid(s, valid) == wake' = [wake EXCEPT ![s] = valid /\ SweepTimer]

\* End of the loop body: when to sweep again.  A sweep that failed is always
\* repeated, one that did not only when periodic sweeps are on.
NextWakeup(s, valid) == wake' = [wake EXCEPT ![s] = ~valid \/ SweepTimer]

\* topology_main takes topology_sema and looks at sm_state, without the lock.
SweepWanted(s) == state[s] \in {"DISCOVERING", "MASTER"}

topology_main(s) ==
  /\ Up(s) /\ tpc[s] = "idle" /\ trig[s]
  /\ trig' = [trig EXCEPT ![s] = FALSE]
  /\ MaxSweeps = 0 \/ sweeps < MaxSweeps
  /\ sweeps' = IF MaxSweeps = 0 THEN 0 ELSE sweeps + 1
  /\ IF SweepWanted(s)
     THEN /\ tpc' = [tpc EXCEPT ![s] = "lock"]
          /\ UNCHANGED <<rec, swept, wake>>
     ELSE /\ rec' = Forget(s, rec)
          /\ swept' = [swept EXCEPT ![s] = FALSE]
          /\ NextWakeup(s, TRUE)
          /\ UNCHANGED tpc
  /\ UNCHANGED <<state, prio, saw, smlid, lock, todo, found, job, pingVars,
                 handing, net, illegal, crashes, dups, timeouts>>

\* It takes new_topology_lock and starts topology_discovery.
SweepBegins(s) ==
  /\ Up(s) /\ tpc[s] = "lock" /\ lock[s] = "free"
  /\ lock' = [lock EXCEPT ![s] = "topology"]
  /\ tpc' = [tpc EXCEPT ![s] = "discover"]
  /\ todo' = [todo EXCEPT ![s] = SM \ {s}]
  /\ found' = [found EXCEPT ![s] = {}]
  /\ UNCHANGED <<state, prio, saw, rec, smlid, job, pingVars, trig, wake,
                 swept, handing, net, illegal, envVars>>

\* sm_getSmInfo, for a port whose capability mask says that an SM runs there.
\* sm_dbsync_addSm keeps what is known of the peer's synchronization.
LooksAt(s, p) ==
  /\ Up(s) /\ tpc[s] = "discover" /\ p \in todo[s]
  /\ todo' = [todo EXCEPT ![s] = @ \ {p}]

sm_getSmInfo(s, p) ==
  /\ LooksAt(s, p) /\ Answers(p)
  /\ found' = [found EXCEPT ![s] = @ \cup {p}]
  /\ state_event_mad_get(p, s,
       [rec EXCEPT ![s][p] = [st |-> state[p], pr |-> prio[p], sync |-> @.sync]])
  /\ UNCHANGED <<state, prio, saw, smlid, lock, tpc, job, pingVars, wake, swept,
                 net, illegal, envVars>>

\* The Get times out: the record is deleted.
GetSmInfoFails(s, p) ==
  /\ LooksAt(s, p) /\ GetTimesOut(p)
  /\ found' = [found EXCEPT ![s] = @ \cup {p}]
  /\ rec' = [rec EXCEPT ![s][p] = NoRec]
  /\ UNCHANGED <<state, prio, saw, smlid, lock, tpc, job, pingVars, trig, wake,
                 swept, handing, net, illegal, crashes, dups, sweeps>>

\* No SM runs on the port: discovery does not touch smRecords.
NoSmThere(s, p) ==
  /\ LooksAt(s, p) /\ ~Up(p)
  /\ UNCHANGED <<state, prio, saw, rec, smlid, lock, tpc, found, job, pingVars,
                 trig, wake, swept, handing, net, illegal, envVars>>

\* topology_transition: the best of the other SMs on record ...
Candidates(s) == {p \in SM \ {s} : Known(s, p) /\ rec[s][p].st # "NOTACTIVE"}
Best(s) == CHOOSE p \in Candidates(s) :
             \A q \in Candidates(s) \ {p} : Higher(rec[s][p].pr, p, rec[s][q].pr, q)

\* ... and what its state and priority mean for us.
BestIsHigher(s) == Higher(rec[s][Best(s)].pr, Best(s), prio[s], s)
BestIs(s, st) == rec[s][Best(s)].st = st
WillHandover(s) == state[s] = "MASTER" /\ BestIsHigher(s)
DoHandover(s) ==
  /\ WillHandover(s)
  /\ BestIs(s, "MASTER") \/ BestIs(s, "STANDBY")
  /\ UpToDate(s, Best(s))
AwaitsHandover(s) == state[s] = "MASTER" /\ ~BestIsHigher(s) /\ BestIs(s, "MASTER")

\* sm_elevatePriority, once another SM was seen.
Elevate(s, seen, p) ==
  IF seen /\ Elevated[s] > Priority[s] THEN [p EXCEPT ![s] = Elevated[s]] ELSE p

AtTransition(s) == Up(s) /\ tpc[s] = "discover" /\ todo[s] = {}
ThenGoTo(s, pc) == tpc' = [tpc EXCEPT ![s] = pc]

\* Nobody else: become or stay master.
BecomesMaster(s) ==
  /\ AtTransition(s) /\ Candidates(s) = {}
  /\ LET seen == saw[s] \/ \E p \in SM \ {s} : Known(s, p) IN
     /\ MoveTo(s, "MASTER")
     /\ prio' = Elevate(s, seen, prio)
     /\ saw' = [saw EXCEPT ![s] = seen]
  /\ ThenGoTo(s, "assign")
  /\ UNCHANGED <<rec, smlid, lock, todo, found, job, pingVars, trig, wake,
                 swept, handing, net, envVars>>

\* A DISCOVERING SM yields to a MASTER, and to a better SM.
DiscoveringDecides(s) ==
  /\ AtTransition(s) /\ Candidates(s) # {} /\ state[s] = "DISCOVERING"
  /\ LET yields == BestIs(s, "MASTER") \/ BestIsHigher(s)
     IN /\ state' = [state EXCEPT ![s] = IF yields THEN "STANDBY" ELSE "MASTER"]
        /\ prio' = IF yields THEN prio ELSE Elevate(s, TRUE, prio)
        /\ ThenGoTo(s, IF yields THEN "abort" ELSE "assign")
  /\ saw' = [saw EXCEPT ![s] = TRUE]
  /\ UNCHANGED <<rec, smlid, lock, todo, found, job, pingVars, trig, wake,
                 swept, handing, net, illegal, envVars>>

\* A MASTER hands over to a better SM that is up to date, and suspends its
\* sweep when it does or when it waits for another MASTER to hand over.
MasterDecides(s) ==
  /\ AtTransition(s) /\ Candidates(s) # {} /\ state[s] = "MASTER"
  /\ net' = IF DoHandover(s)
            THEN net \cup {[amod |-> "HANDOVER", src |-> s, dst |-> Best(s), st |-> "MASTER"]}
            ELSE net
  /\ handing' = [handing EXCEPT ![s] = @ /\ ~DoHandover(s)]
  /\ prio' = IF WillHandover(s) THEN prio ELSE Elevate(s, TRUE, prio)
  /\ ThenGoTo(s, IF DoHandover(s) \/ AwaitsHandover(s) THEN "abort" ELSE "assign")
  /\ saw' = [saw EXCEPT ![s] = TRUE]
  /\ UNCHANGED <<state, rec, smlid, lock, todo, found, job, pingVars, trig, wake,
                 swept, illegal, envVars>>

\* sm_state changed between the look at it and the lock: the sweep stops.
NotToSweep(s) ==
  /\ AtTransition(s) /\ Candidates(s) # {}
  /\ state[s] \in {"STANDBY", "NOTACTIVE"}
  /\ saw' = [saw EXCEPT ![s] = TRUE]
  /\ ThenGoTo(s, "abort")
  /\ UNCHANGED <<state, prio, rec, smlid, lock, todo, found, job, pingVars, trig,
                 wake, swept, handing, net, illegal, envVars>>

topology_transition(s) ==
  BecomesMaster(s) \/ DiscoveringDecides(s) \/ MasterDecides(s) \/ NotToSweep(s)

\* The rest of a sweep that succeeds: every port gets our LID as its SM's, and
\* sm_dbsync_upsmlist drops the SMs that this sweep did not find.
SweepCompletes(s) ==
  /\ Up(s) /\ tpc[s] = "assign"
  /\ smlid' = [p \in SM |-> s]
  /\ rec' = [rec EXCEPT ![s] = [p \in SM |->
               IF state[s] = "STANDBY" \/ p \notin found[s] THEN NoRec ELSE @[p]]]
  /\ swept' = [swept EXCEPT ![s] = TRUE]
  /\ lock' = [lock EXCEPT ![s] = "free"]
  /\ ThenGoTo(s, "idle") /\ found' = [found EXCEPT ![s] = {}]
  /\ NextWakeup(s, TRUE)
  /\ UNCHANGED <<state, prio, saw, todo, job, pingVars, trig, handing, net,
                 illegal, envVars>>

\* A sweep that ends with VSTATUS_NOT_MASTER.
SweepAborts(s) ==
  /\ Up(s) /\ tpc[s] = "abort" /\ SetReturns(s, "HANDOVER")
  /\ IF state[s] \in {"STANDBY", "NOTACTIVE"}
     THEN rec' = Forget(s, rec) /\ swept' = [swept EXCEPT ![s] = FALSE]
     ELSE UNCHANGED <<rec, swept>>
  /\ lock' = [lock EXCEPT ![s] = "free"]
  /\ ThenGoTo(s, "idle") /\ found' = [found EXCEPT ![s] = {}]
  /\ NextWakeup(s, FALSE)
  /\ UNCHANGED <<state, prio, saw, smlid, todo, job, pingVars, trig,
                 handing, net, illegal, envVars>>

-----------------------------------------------------------------------------
(* The async thread.                                                       *)

\* state_event_timeout in DISCOVERING and MASTER: the scheduled sweep.  A timer
\* that expires during a sweep only posts topology_sema for the next one, so it
\* is enough to let it expire between sweeps.
ScheduledSweep(s) ==
  /\ state[s] \in {"DISCOVERING", "MASTER"} /\ job[s] = Idle /\ wake[s]
  /\ tpc[s] = "idle" /\ ~trig[s]
  /\ wake' = [wake EXCEPT ![s] = FALSE]
  /\ trig' = [trig EXCEPT ![s] = TRUE]
  /\ UNCHANGED <<state, prio, saw, rec, smlid, lock, topoVars, job, pingVars,
                 swept, handing, net, illegal, envVars>>

\* Mutant: a MASTER checks on the master too.
PingsUnlessDiscovering(s) == state[s] \in {"STANDBY", "MASTER"} /\ job[s] = Idle /\ wake[s]

\* sm_check_Master, at every sm_masterCheckInterval: a STANDBY watches the master.
\* Like every timer event this needs topology_wakeup_time # 0.
Pings(s) == state[s] = "STANDBY" /\ job[s] = Idle /\ wake[s]

\* sm_check_Master does not find a master.
Rediscover(s) ==
  /\ sm_transition(s, "DISCOVERING") /\ trig' = [trig EXCEPT ![s] = TRUE]
  /\ fails' = [fails EXCEPT ![s] = 0] /\ mult' = [mult EXCEPT ![s] = 1]

\* Our port was not initialized, or the master failed to answer too often; while
\* the port still names us as its SM the limit is twice as high.
MasterSuspect(s) ==
  IF smlid[s] # s /\ Up(smlid[s]) THEN GetTimesOut(smlid[s]) ELSE UNCHANGED timeouts
MultMaxFail(s) == IF smlid[s] = s THEN 2 ELSE mult[s]

\* Mutant: the failure is counted after the limit is tested.
TooManyFailsLate(s) == fails[s] >= MultMaxFail(s) * PingMaxFail

TooManyFails(s) == fails[s] + 1 >= MultMaxFail(s) * PingMaxFail
PingFails(s) ==
  /\ Pings(s)
  /\ smlid[s] # None /\ MasterSuspect(s)
  /\ IF TooManyFails(s)
     THEN Rediscover(s)
     ELSE /\ fails' = [fails EXCEPT ![s] = @ + 1]
          /\ mult' = [mult EXCEPT ![s] = MultMaxFail(s)]
          /\ UNCHANGED <<state, prio, illegal, trig>>
  /\ UNCHANGED <<saw, rec, smlid, lock, topoVars, job, wake, swept, handing, net,
                 crashes, dups, sweeps>>

PortUninitialized(s) ==
  /\ Pings(s) /\ smlid[s] = None
  /\ Rediscover(s)
  /\ UNCHANGED <<saw, rec, smlid, lock, topoVars, job, wake, swept, handing, net,
                 envVars>>

\* The SM our port names answers: it must still be master.
PingAnswered(s) ==
  /\ Pings(s) /\ smlid[s] \notin {None, s} /\ Answers(smlid[s])
  /\ saw' = [saw EXCEPT ![s] = TRUE]
  /\ IF state[smlid[s]] = "MASTER"
     THEN /\ state_event_mad_get(smlid[s], s, rec)
          /\ fails' = [fails EXCEPT ![s] = 0] /\ mult' = [mult EXCEPT ![s] = 1]
          /\ UNCHANGED <<state, prio, illegal>>
     ELSE /\ Rediscover(s)
          /\ UNCHANGED <<rec, handing>>
  /\ UNCHANGED <<smlid, lock, topoVars, job, wake, swept, net, envVars>>

\* state_event_mad on a Set(SMInfo): the new state that the handler of the
\* current state asks for, None when it refuses the control.
NewState(s, m) ==
  IF m.amod = "HANDOVER" /\ state[s] \in {"STANDBY", "MASTER"} THEN "MASTER"
  ELSE IF m.amod = "DISABLE" /\ state[s] = "STANDBY" THEN "NOTACTIVE"
  ELSE IF /\ m.amod = "ACKNOWLEDGE" /\ state[s] = "MASTER"
          /\ m.st \in {"STANDBY", "MASTER"} THEN "STANDBY"
  ELSE None

\* It replies, and a STANDBY or MASTER then waits for new_topology_lock, even
\* when it has refused the control.  Only an ACKNOWLEDGE may come from an SM that
\* is not master.  A Set that was retried is handled once more.
TakesLock(s, m) ==
  /\ m.amod = "ACKNOWLEDGE" \/ m.st = "MASTER"
  /\ state[s] \in {"STANDBY", "MASTER"}

state_event_mad_set(s, m) ==
  /\ Up(s) /\ job[s] = Idle /\ m.dst = s
  /\ \/ net' = net \ {m} /\ UNCHANGED dups
     \/ crashes + dups < MaxFaults /\ dups' = dups + 1 /\ UNCHANGED net
  /\ job' = IF TakesLock(s, m)
            THEN [job EXCEPT ![s] =
                    [pc |-> "wait", amod |-> m.amod, src |-> m.src, new |-> NewState(s, m)]]
            ELSE job
  /\ UNCHANGED <<state, prio, saw, rec, smlid, lock, topoVars, pingVars, trig,
                 wake, swept, handing, illegal, crashes, timeouts, sweeps>>

GotLock(s) == Up(s) /\ job[s].pc = "wait" /\ lock[s] = "free"

Refused(s) ==
  /\ GotLock(s) /\ job[s].new = None
  /\ job' = [job EXCEPT ![s] = Idle]
  /\ UNCHANGED <<state, prio, saw, rec, smlid, lock, topoVars, pingVars, trig,
                 wake, swept, handing, net, illegal, envVars>>

\* sm_fsm_standby and sm_fsm_master: a HANDOVER is acknowledged under the lock ...
sm_fsm_handover(s) ==
  /\ GotLock(s) /\ job[s].amod = "HANDOVER"
  /\ lock' = [lock EXCEPT ![s] = "async"]
  /\ job' = [job EXCEPT ![s].pc = "acked"]
  /\ net' = net \cup {[amod |-> "ACKNOWLEDGE", src |-> s, dst |-> job[s].src, st |-> state[s]]}
  /\ UNCHANGED <<state, prio, saw, rec, smlid, topoVars, pingVars, trig, wake,
                 swept, handing, illegal, envVars>>

\* Mutant: an ACKNOWLEDGE that times out undoes the handover.
TakenIfAnswered(s) ==
  IF \E m \in net : m.src = s /\ m.amod = "ACKNOWLEDGE" THEN state[s] ELSE "MASTER"

\* ... and makes us MASTER once the reply came or timed out.
TakenState(s) == "MASTER"
HandoverTaken(s) ==
  /\ Up(s) /\ job[s].pc = "acked" /\ SetReturns(s, "ACKNOWLEDGE")
  /\ sm_transition(s, TakenState(s))
  /\ trig' = [trig EXCEPT ![s] = TRUE]
  /\ lock' = [lock EXCEPT ![s] = "free"]
  /\ job' = [job EXCEPT ![s] = Idle]
  /\ UNCHANGED <<saw, rec, smlid, topoVars, pingVars, wake, swept, handing, net,
                 envVars>>

\* sm_fsm_master on the ACKNOWLEDGE of a handover: step down.
sm_fsm_master_ack(s) ==
  /\ GotLock(s) /\ job[s].amod = "ACKNOWLEDGE" /\ job[s].new # None
  /\ sm_transition(s, job[s].new)
  /\ trig' = [trig EXCEPT ![s] = TRUE]
  /\ job' = [job EXCEPT ![s] = Idle]
  /\ UNCHANGED <<saw, rec, smlid, lock, topoVars, pingVars, wake, swept, handing,
                 net, envVars>>

\* sm_fsm_standby on DISABLE.
sm_fsm_standby_disable(s) ==
  /\ GotLock(s) /\ job[s].amod = "DISABLE" /\ job[s].new # None
  /\ sm_transition(s, job[s].new)
  /\ job' = [job EXCEPT ![s] = Idle]
  /\ UNCHANGED <<saw, rec, smlid, lock, topoVars, pingVars, trig, wake, swept,
                 handing, net, envVars>>

-----------------------------------------------------------------------------
(* The database synchronization thread, reduced to its effect on smRecords. *)
(* sync = "no" stands for a capability that is not known yet and for a full *)
(* synchronization that is under way or has failed.                        *)

\* The SMs whose capability, and with it their configuration, is asked for.
AskTarget(s, p) ==
  /\ state[s] = "MASTER" /\ p # s /\ rec[s][p].sync = "no"
  /\ rec[s][p].st \in {"NOTACTIVE", "DISCOVERING", "STANDBY"}

\* A full synchronization of a standby succeeds.
DbsyncDone(s, p) ==
  /\ AskTarget(s, p) /\ rec[s][p].st = "STANDBY"
  /\ Up(p) /\ p \notin Misconfigured
  /\ rec' = [rec EXCEPT ![s][p].sync = "done"]
  /\ UNCHANGED <<state, prio, saw, smlid, lock, topoVars, job, pingVars, trig,
                 wake, swept, handing, net, illegal, envVars>>

\* An SM does not tell its capability: it is forgotten until a new sweep.
DbsyncNoAnswer(s, p) ==
  /\ AskTarget(s, p) /\ ~Up(p)
  /\ rec' = [rec EXCEPT ![s][p] = NoRec]
  /\ trig' = [trig EXCEPT ![s] = TRUE]
  /\ UNCHANGED <<state, prio, saw, smlid, lock, topoVars, job, pingVars, wake,
                 swept, handing, net, illegal, envVars>>

\* sm_dbsync_configCheck finds that p's configuration differs from ours, and
\* sm_dbsync_disableStandbySm deactivates p.  That is done once per record: p is
\* not asked again.  A Set that fails triggers no sweep.
sm_dbsync_disableStandbySm(s, p) ==
  /\ AskTarget(s, p) /\ Up(p) /\ p \in Misconfigured
  /\ rec' = [rec EXCEPT ![s][p].sync = "differs"]
  /\ net' = net \cup {[amod |-> "DISABLE", src |-> s, dst |-> p, st |-> "MASTER"]}
  /\ \E ok \in BOOLEAN : trig' = [trig EXCEPT ![s] = @ \/ ok]
  /\ UNCHANGED <<state, prio, saw, smlid, lock, topoVars, job, pingVars,
                 wake, swept, handing, illegal, envVars>>

-----------------------------------------------------------------------------
(* Crashes, restarts and Sets that reach nobody.                           *)

\* The values of a process that starts: topology_main moves it to DISCOVERING
\* and async_main triggers the first sweep.
Starts(s) ==
  /\ state' = [state EXCEPT ![s] = "DISCOVERING"]
  /\ prio' = [prio EXCEPT ![s] = Priority[s]]
  /\ trig' = [trig EXCEPT ![s] = TRUE]

Crash(s) ==
  /\ Up(s) /\ crashes + dups < MaxFaults
  /\ crashes' = crashes + 1
  /\ state' = [state EXCEPT ![s] = "DOWN"]
  /\ prio' = [prio EXCEPT ![s] = Priority[s]]
  /\ saw' = [saw EXCEPT ![s] = FALSE]
  /\ rec' = Forget(s, rec)
  /\ lock' = [lock EXCEPT ![s] = "free"]
  /\ tpc' = [tpc EXCEPT ![s] = "idle"]
  /\ todo' = [todo EXCEPT ![s] = {}] /\ found' = [found EXCEPT ![s] = {}]
  /\ job' = [job EXCEPT ![s] = Idle]
  /\ fails' = [fails EXCEPT ![s] = 0] /\ mult' = [mult EXCEPT ![s] = 1]
  /\ trig' = [trig EXCEPT ![s] = FALSE] /\ wake' = [wake EXCEPT ![s] = FALSE]
  /\ swept' = [swept EXCEPT ![s] = FALSE]
  /\ handing' = [handing EXCEPT ![s] = FALSE]
  /\ illegal' = [illegal EXCEPT ![s] = FALSE]
  /\ UNCHANGED <<smlid, net, dups, timeouts, sweeps>>

Start(s) ==
  /\ ~Up(s)
  /\ Starts(s)
  /\ UNCHANGED <<saw, rec, smlid, lock, topoVars, job, pingVars, wake, swept,
                 handing, net, illegal, envVars>>

SetLost(m) ==
  /\ ~Up(m.dst)
  /\ net' = net \ {m}
  /\ UNCHANGED <<state, prio, saw, rec, smlid, lock, topoVars, job, pingVars,
                 trig, wake, swept, handing, illegal, envVars>>

-----------------------------------------------------------------------------
Init ==
  /\ state = [s \in SM |-> "DOWN"]
  /\ prio = Priority
  /\ saw = [s \in SM |-> FALSE]
  /\ rec = [s \in SM |-> [p \in SM |-> NoRec]]
  /\ smlid = [s \in SM |-> None]
  /\ lock = [s \in SM |-> "free"]
  /\ tpc = [s \in SM |-> "idle"]
  /\ todo = [s \in SM |-> {}] /\ found = [s \in SM |-> {}]
  /\ job = [s \in SM |-> Idle]
  /\ fails = [s \in SM |-> 0] /\ mult = [s \in SM |-> 1]
  /\ trig = [s \in SM |-> FALSE] /\ wake = [s \in SM |-> FALSE]
  /\ swept = [s \in SM |-> FALSE]
  /\ handing = [s \in SM |-> FALSE]
  /\ net = {} /\ illegal = [s \in SM |-> FALSE]
  /\ crashes = 0 /\ dups = 0 /\ timeouts = 0
  /\ sweeps = 0

Topology(s) ==
  \/ topology_main(s) \/ SweepBegins(s)
  \/ \E p \in SM : sm_getSmInfo(s, p) \/ GetSmInfoFails(s, p) \/ NoSmThere(s, p)
  \/ topology_transition(s) \/ SweepCompletes(s) \/ SweepAborts(s)

Timer(s) == ScheduledSweep(s) \/ PingFails(s) \/ PortUninitialized(s) \/ PingAnswered(s)

Async(s) ==
  \/ Refused(s) \/ sm_fsm_handover(s) \/ HandoverTaken(s)
  \/ sm_fsm_master_ack(s) \/ sm_fsm_standby_disable(s)

Dbsync(s) ==
  \E p \in SM : \/ DbsyncDone(s, p) \/ DbsyncNoAnswer(s, p)
                \/ sm_dbsync_disableStandbySm(s, p)

Next ==
  \/ \E s \in SM : Topology(s) \/ Timer(s) \/ Async(s) \/ Dbsync(s) \/ Crash(s) \/ Start(s)
  \/ \E m \in net : SetLost(m) \/ \E s \in SM : state_event_mad_set(s, m)

Spec == Init /\ [][Next]_vars

\* What the threads' scheduling gives: no thread stops for ever between two of
\* its steps, timers expire, a Set that waits is received, and a standby that is
\* up is synchronized.  Nothing is assumed of crashes and starts.
Fairness ==
  \A s \in SM : /\ WF_vars(Topology(s)) /\ WF_vars(Timer(s)) /\ WF_vars(Async(s))
               /\ WF_vars(\E m \in net : state_event_mad_set(s, m))
               /\ \A p \in SM : WF_vars(DbsyncDone(s, p))

FairSpec == Spec /\ Fairness

-----------------------------------------------------------------------------
(* Properties.                                                             *)

\* Only a priority that the SM itself may have is on record for it.
RecordsOK(r) ==
  /\ r \in [SM -> [SM -> [st : Running \cup {None}, pr : 0..MaxPriority,
                          sync : {"no", "done", "differs"}]]]
  /\ \A s, p \in SM : r[s][p].pr \in {0, Priority[p], Elevated[p]}

StateTypeOK ==
  /\ state \in [SM -> Running \cup {"DOWN"}]
  /\ prio \in [SM -> 0..MaxPriority] /\ \A s \in SM : prio[s] \in {Priority[s], Elevated[s]}
  /\ smlid \in [SM -> SM \cup {None}]

ThreadTypeOK ==
  /\ lock \in [SM -> {"free", "topology", "async"}]
  /\ tpc \in [SM -> {"idle", "lock", "discover", "assign", "abort"}]
  /\ todo \in [SM -> SUBSET SM] /\ found \in [SM -> SUBSET SM]
  /\ job \in [SM -> [pc : {"idle", "wait", "acked"}, amod : Amod \cup {None},
                     src : SM \cup {None}, new : Running \cup {None}]]
  /\ fails \in [SM -> 0..2 * PingMaxFail - 1] /\ mult \in [SM -> 1..2]

FlagTypeOK ==
  /\ saw \in [SM -> BOOLEAN] /\ illegal \in [SM -> BOOLEAN]
  /\ trig \in [SM -> BOOLEAN] /\ wake \in [SM -> BOOLEAN]
  /\ swept \in [SM -> BOOLEAN] /\ handing \in [SM -> BOOLEAN]

EnvTypeOK ==
  /\ net \subseteq [amod : Amod, src : SM, dst : SM, st : Running]
  /\ crashes \in 0..MaxFaults /\ dups \in 0..MaxFaults
  /\ timeouts \in 0..MaxTimeouts /\ sweeps \in 0..MaxSweeps

\* The types of the variables; fsmCheckMasterFailed never reaches the doubled
\* limit of sm_check_Master.
TypeOK == StateTypeOK /\ RecordsOK(rec) /\ ThreadTypeOK /\ FlagTypeOK /\ EnvTypeOK

\* An SM that takes part in the election never logs "SM illegal STATE
\* TRANSITION": whatever the two threads do between the look at sm_state and the
\* request, no handler asks for a transition that the state the SM is in by then
\* does not allow.  Only one that was deactivated meanwhile does (SweepsAsMaster).
NoIllegalTransition == \A s \in SM : illegal[s] => state[s] = "NOTACTIVE"

\* An SM that steps down, by whichever of its threads, is back at
\* sm_config.priority, or it would win the next election against the SM it has
\* just handed the fabric to: no STANDBY or DISCOVERING SM runs elevated.
ElevatedIsMaster ==
  \A s \in SM : state[s] \in {"STANDBY", "DISCOVERING"} => prio[s] = Priority[s]

\* A MASTER that steps down on the ACKNOWLEDGE of its HANDOVER leaves the fabric
\* to an SM that is MASTER or is about to be, although sm_fsm_master does not
\* check which handover was acknowledged and a retried ACKNOWLEDGE comes twice.
\* As long as no Get timed out: after that two masters may hand over to each
\* other and both step down, which the pings of Elected repair.
HandoverKeepsMaster ==
  [][\A s \in SM : timeouts = 0 /\ crashes = 0 /\ sm_fsm_master_ack(s) =>
        \E p \in SM \ {s} : state'[p] = "MASTER" \/ job'[p].pc = "acked"]_vars

\* A Get that times out because the async thread of a live peer is blocked.
Timeout(s) == (\E p \in SM : GetSmInfoFails(s, p)) \/ (PingFails(s) /\ smlid[s] # s)
Excused == <>[](\A s \in SM : ~Up(s)) \/ \E s \in SM : []<><<Timeout(s)>>_vars

\* The election ends: from some point on there is one MASTER, it stays the same one,
\* and it has completed a sweep, so that every SM's port names it for good and the
\* standbys watch the right SM.  Unless no SM runs or Gets go on timing out at live
\* peers for ever.
Elected ==
  Excused \/ \E s \in SM : <>[](/\ state[s] = "MASTER" /\ \A p \in SM \ {s} : state[p] # "MASTER"
                                /\ smlid = [p \in SM |-> s])

\* "standby must check on master every sm_masterCheckInterval seconds"
\* (sm_async.c:524): an SM that is STANDBY gets to its check of the master.
StandbyPings == \A s \in SM : (state[s] = "STANDBY") ~> (Pings(s) \/ state[s] # "STANDBY")

-----------------------------------------------------------------------------
(* What comments and documents say and the code does not do.               *)

\* topology_transition is to "stop discovery if not master or dual master": an
\* SM that goes on to program the fabric is MASTER.  topology_main looks at
\* sm_state before it takes new_topology_lock, so an SM that steps down and is
\* deactivated in between gets there; with no other SM on record its sweep goes
\* on, although sm_transition has refused to make it MASTER.
SweepsAsMaster == \A s \in SM : tpc[s] = "assign" => state[s] = "MASTER"

\* "the SM also has a slow periodic sweep at SweepInterval to verify fabric
\* config": a MASTER that is left alone keeps completing sweeps.
LoneMasterSweeps ==
  \A s \in SM : <>[](state[s] = "MASTER" /\ \A p \in SM \ {s} : ~Up(p))
                 => []<><<SweepCompletes(s)>>_vars
=============================================================================
