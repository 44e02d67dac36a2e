------------------------------- MODULE SmSweep -------------------------------
(***************************************************************************)
(* When the MASTER sweeps: the threads of one subnet manager agree through *)
(* shared variables, without a lock, on when the topology thread has to    *)
(* sweep the fabric and to reprogram the multicast forwarding tables.      *)
(*  - The async thread (async_main, state_event_timeout) turns traps,      *)
(*    forced sweeps and the sweep timer into topology_wakeup_time and, once *)
(*    that is due, into a post of topology_sema.                           *)
(*  - The topology thread (topology_main) waits for topology_sema, sweeps  *)
(*    and writes topology_wakeup_time for the next sweep.                  *)
(*  - The SA reader (sa_main_reader) handles multicast joins and leaves and *)
(*    posts topology_sema itself, one second after the first of them.      *)
(* topology_wakeup_time is kept as how far away it is: "off" (zero), "due", *)
(* "soon" (the five seconds of a repeated sweep) or "later" (SweepInterval). *)
(***************************************************************************)
EXTENDS Integers, FiniteSets

CONSTANTS
  Host,       \* the ports that join and leave the multicast group
  Rates,      \* the settings of SweepInterval: "on", "off" (zero)
  Traps,      \* switches send traps
  Forces,     \* something calls sm_forceSweep
  Rejoins,    \* a member may join again without changing its join state
  MaxFails    \* bound on the sweeps and MFT updates that fail

ASSUME SweepAssumption ==
  /\ Rates \subseteq {"on", "off"} /\ Rates # {}
  /\ Traps \in BOOLEAN /\ Forces \in BOOLEAN /\ Rejoins \in BOOLEAN
  /\ MaxFails \in Nat

VARIABLES
  wake,       \* topology_wakeup_time
  sema,       \* topology_sema was posted
  resweep,    \* topology_resweep
  forceMfts,  \* topology_forceMfts
  timer,      \* sm_config.timer
  \* the async thread
  apc,        \* where it is in its loop
  newTimer,   \* new_sm_timer, "none" when it holds the invalid value
  needed,     \* smFabricDiscoveryNeeded
  since,      \* lastTimeDiscoveryRequested: "no", "wait" or, after 1 s, "ripe"
  \* the topology thread
  tpc,        \* where it is in its loop
  valid,      \* newTopologyValid
  again,      \* which branch it takes when it sets topology_wakeup_time
  sendOut,    \* smSendOutMFTs
  late,       \* MFT requests whose sm_dispatch_wait gave up are on the wire
  newMft, oldMft, mft,  \* members in the MFTs of sm_newTopology, of
                        \* old_topology, and of the switches
  \* the SA reader
  rpc,        \* where it is in its loop
  joined,     \* the members of the group
  reprog,     \* sa_mft_reprog
  rsince,     \* timeMftLastUpdated: "no", "wait" or "ripe"
  needProg,   \* sm_McGroups_Need_Prog
  \* what is owed
  dirty,      \* a trap was taken and no sweep has begun since
  asked,      \* a sweep was forced and none has begun since
  fails       \* how much of MaxFails is used

schedule  == <<wake, sema, resweep, forceMfts, timer>>
asyncVars == <<apc, newTimer, needed, since>>
topoVars  == <<tpc, valid, again, sendOut, late>>
mftVars   == <<newMft, oldMft, mft>>
saVars    == <<rpc, joined, reprog, rsince, needProg>>
owedVars  == <<dirty, asked>>
vars == <<schedule, asyncVars, topoVars, mftVars, saVars, owedVars, fails>>

-----------------------------------------------------------------------------
(* Shared by the threads.                                                  *)

\* Mutant: the semaphore is not posted.
TriggerNothing == sema' = sema

sm_trigger_sweep == sema' = TRUE

\* sm_request_resweep never puts a sweep off, and does not start one when
\* topology_wakeup_time is zero: it leaves that to the end of the sweep.
Sooner(w) == IF w = "later" THEN "soon" ELSE w
sm_request_resweep == resweep' = TRUE /\ wake' = Sooner(wake)

\* Time passes.
WakeupDue ==
  /\ wake \in {"soon", "later"} /\ wake' = "due"
  /\ UNCHANGED <<sema, resweep, forceMfts, timer, asyncVars, topoVars, mftVars,
                 saVars, owedVars, fails>>
DiscoveryRipe ==
  /\ since = "wait" /\ since' = "ripe"
  /\ UNCHANGED <<schedule, apc, newTimer, needed, topoVars, mftVars, saVars,
                 owedVars, fails>>
ReprogRipe ==
  /\ rsince = "wait" /\ rsince' = "ripe"
  /\ UNCHANGED <<schedule, asyncVars, topoVars, mftVars, rpc, joined, reprog,
                 needProg, owedVars, fails>>
Time == WakeupDue \/ DiscoveryRipe \/ ReprogRipe

\* Any thread may ask for a sweep, or change its interval.
sm_forceSweep ==
  /\ Forces /\ newTimer' = timer /\ asked' = TRUE
  /\ UNCHANGED <<schedule, apc, needed, since, topoVars, mftVars, saVars, dirty, fails>>
sm_setSweepRate(rate) ==
  /\ Forces /\ newTimer' = rate
  /\ UNCHANGED <<schedule, apc, needed, since, topoVars, mftVars, saVars,
                 owedVars, fails>>

-----------------------------------------------------------------------------
(* The async thread: one pass of its loop.                                 *)

\* It receives a MAD, a trap perhaps.
mai_recv_handles(trap) ==
  /\ apc = "recv" /\ apc' = "rate"
  /\ trap => Traps
  /\ needed' = (needed \/ trap) /\ dirty' = (dirty \/ trap)
  /\ UNCHANGED <<schedule, newTimer, since, topoVars, mftVars, saVars, asked, fails>>

\* A new sweep interval, or a forced sweep as the present interval set again.
WakeForced(w) ==
  IF timer = "off" THEN "due" ELSE IF newTimer = "off" \/ w = "off" THEN "off" ELSE "due"
SweepRateChange ==
  /\ apc = "rate" /\ apc' = "discovery"
  /\ IF newTimer = "none" THEN UNCHANGED <<wake, timer, newTimer>>
     ELSE wake' = WakeForced(wake) /\ timer' = newTimer /\ newTimer' = "none"
  /\ UNCHANGED <<sema, resweep, forceMfts, needed, since, topoVars, mftVars, saVars,
                 owedVars, fails>>

\* Traps accumulate for a second before the fabric is discovered again.
DiscoveryNeeded ==
  /\ apc = "discovery" /\ apc' = "gate"
  /\ IF needed /\ since = "ripe"
     THEN wake' = "due" /\ needed' = FALSE /\ since' = "no"
     ELSE /\ since' = IF needed /\ since = "no" THEN "wait" ELSE since
          /\ UNCHANGED <<wake, needed>>
  /\ UNCHANGED <<sema, resweep, forceMfts, timer, newTimer, topoVars, mftVars, saVars,
                 owedVars, fails>>

\* It looks at topology_wakeup_time once ...
TimeoutGate ==
  /\ apc = "gate" /\ apc' = IF wake = "due" THEN "timeout" ELSE "recv"
  /\ UNCHANGED <<schedule, newTimer, needed, since, topoVars, mftVars, saVars,
                 owedVars, fails>>

\* ... and state_event_timeout looks once more.
state_event_timeout ==
  /\ apc = "timeout" /\ apc' = "recv"
  /\ IF wake = "due" THEN wake' = "off" /\ sm_trigger_sweep ELSE UNCHANGED <<wake, sema>>
  /\ UNCHANGED <<resweep, forceMfts, timer, newTimer, needed, since, topoVars,
                 mftVars, saVars, owedVars, fails>>

Async ==
  \/ \E trap \in BOOLEAN : mai_recv_handles(trap)
  \/ SweepRateChange \/ DiscoveryNeeded \/ TimeoutGate \/ state_event_timeout

-----------------------------------------------------------------------------
(* The topology thread: one pass of its loop.                              *)

\* Mutant: one failure more than the bound.
FailOnceMore == fails <= MaxFails /\ fails' = fails + 1

\* Something fails, MaxFails times at most.
Fail == fails < MaxFails /\ fails' = fails + 1

\* A sweep begins once topology_sema was posted, however often.
SweepBegins ==
  /\ tpc = "wait" /\ sema /\ sema' = FALSE
  /\ tpc' = "sweep" /\ dirty' = FALSE /\ asked' = FALSE
  /\ UNCHANGED <<wake, resweep, forceMfts, timer, asyncVars, valid, again, sendOut,
                 late, mftVars, saVars, fails>>

\* The topology functions before topology_multicast succeed, some of them may ask
\* for another sweep (a port that cannot be activated asks for all MFTs too), or one
\* of them fails.
SweepSucceeds ==
  /\ tpc = "sweep" /\ tpc' = "multicast"
  /\ UNCHANGED <<schedule, asyncVars, valid, again, sendOut, late, mftVars, saVars,
                 owedVars, fails>>
SweepAsksAgain(force) ==
  /\ tpc = "sweep" /\ tpc' = "multicast"
  /\ Fail /\ sm_request_resweep /\ forceMfts' = (forceMfts \/ force)
  /\ UNCHANGED <<sema, timer, asyncVars, valid, again, sendOut, late, mftVars, saVars,
                 owedVars>>
SweepFails ==
  /\ tpc = "sweep" /\ tpc' = "decide"
  /\ Fail /\ valid' = FALSE
  /\ UNCHANGED <<schedule, asyncVars, again, sendOut, late, mftVars, saVars, owedVars>>

\* Mutant: sm_McGroups_Need_Prog is cleared and not looked at.
CalculatesIfChanged(changed) == changed

\* topology_multicast computes the MFTs anew when members or the fabric changed.
Calculates(changed) == needProg \/ changed
topology_multicast(changed) ==
  /\ tpc = "multicast" /\ tpc' = "send"
  /\ sendOut' = Calculates(changed) /\ needProg' = FALSE
  /\ newMft' = IF sendOut' THEN joined ELSE oldMft
  /\ UNCHANGED <<schedule, asyncVars, valid, again, late, oldMft, mft, rpc, joined,
                 reprog, rsince, owedVars, fails>>

\* topology_copy, then sm_set_all_mft if there is something to send.
SendsMfts == sendOut \/ forceMfts
MftsSent ==
  /\ tpc = "send" /\ tpc' = "decide"
  /\ oldMft' = newMft
  /\ mft' = IF SendsMfts THEN newMft ELSE mft
  /\ forceMfts' = FALSE
  /\ UNCHANGED <<wake, sema, resweep, timer, asyncVars, valid, again, sendOut, late,
                 newMft, saVars, owedVars, fails>>

\* Mutant: the sweep is repeated without topology_forceMfts.
ForceAgainNot == FALSE

\* Some switch did not take its MFT: another sweep sends all of them again.
ForceAgain == TRUE
MftsFail ==
  /\ tpc = "send" /\ SendsMfts /\ Fail
  /\ tpc' = "decide"
  /\ oldMft' = newMft /\ mft' \in {mft, newMft}
  /\ forceMfts' = ForceAgain /\ sm_request_resweep
  /\ late' \in {late, TRUE}
  /\ UNCHANGED <<sema, timer, asyncVars, valid, again, sendOut, newMft, saVars,
                 owedVars>>

\* A request that sm_dispatch_wait gave up on fails at last, whatever the topology
\* thread does then.
LateCallback ==
  /\ late /\ late' = FALSE
  /\ forceMfts' = TRUE /\ sm_request_resweep
  /\ UNCHANGED <<sema, timer, asyncVars, tpc, valid, again, sendOut, mftVars, saVars,
                 owedVars, fails>>

\* Mutant: topology_resweep is not looked at.
AgainIfInvalid == ~valid

\* The end of the loop: a look at topology_resweep, then the next wakeup.
Again == ~valid \/ resweep
Decide ==
  /\ tpc = "decide" /\ tpc' = "write" /\ again' = Again
  /\ UNCHANGED <<schedule, asyncVars, valid, sendOut, late, mftVars, saVars, owedVars,
                 fails>>

\* Mutant: a sweep that succeeds schedules no other.
WakeupIfAgain == IF again THEN "soon" ELSE "off"

NextWakeup == IF again THEN "soon" ELSE IF timer = "on" THEN "later" ELSE "off"
WriteWakeup ==
  /\ tpc = "write" /\ tpc' = "congestion"
  /\ wake' = NextWakeup
  /\ UNCHANGED <<sema, resweep, forceMfts, timer, asyncVars, valid, again, sendOut,
                 late, mftVars, saVars, owedVars, fails>>

\* After topology_congestion the flags of the next sweep are reset, before the
\* thread waits for it.
NextPass ==
  /\ tpc = "congestion" /\ tpc' = "wait"
  /\ resweep' = FALSE /\ valid' = TRUE /\ sendOut' = FALSE /\ again' = FALSE
  /\ UNCHANGED <<wake, sema, forceMfts, timer, asyncVars, late, mftVars, saVars,
                 owedVars, fails>>

Topology ==
  \/ SweepBegins \/ SweepSucceeds \/ SweepFails
  \/ \E force \in BOOLEAN : SweepAsksAgain(force)
  \/ \E changed \in BOOLEAN : topology_multicast(changed)
  \/ MftsSent \/ MftsFail \/ Decide \/ WriteWakeup \/ NextPass

-----------------------------------------------------------------------------
(* The SA reader.                                                          *)

\* A port becomes a member, or joins in one more way (full, non or send-only member).
Join(h) ==
  /\ joined' = joined \cup {h}
  /\ reprog' = TRUE

\* A member leaves, keeps part of its join state, or was the last full member: then
\* all others are removed with it.
Leave(h) ==
  /\ h \in joined /\ joined' \in {joined, joined \ {h}, {}}
  /\ reprog' = TRUE

\* A member joins as before: "don't trigger sweep if joinstate has no change".
JoinAgain(h) ==
  /\ Rejoins /\ h \in joined /\ UNCHANGED joined
  /\ reprog' = FALSE

sa_McMemberRecord ==
  /\ rpc = "recv" /\ rpc' = "check"
  /\ \/ \E h \in Host : Join(h) \/ Leave(h) \/ JoinAgain(h)
     \/ UNCHANGED <<joined, reprog>>
  /\ UNCHANGED <<schedule, asyncVars, topoVars, mftVars, rsince, needProg, owedVars, fails>>

\* Requests accumulate for a second.
ReprogCheck ==
  /\ rpc = "check"
  /\ IF reprog /\ rsince = "ripe"
     THEN rpc' = "flag" /\ wake' = "off" /\ UNCHANGED rsince
     ELSE /\ rpc' = "recv" /\ UNCHANGED wake
          /\ rsince' = IF reprog /\ rsince = "no" THEN "wait" ELSE rsince
  /\ UNCHANGED <<sema, resweep, forceMfts, timer, asyncVars, topoVars, mftVars, joined,
                 reprog, needProg, owedVars, fails>>

GroupsNeedProg ==
  /\ rpc = "flag" /\ rpc' = "trigger" /\ needProg' = TRUE
  /\ UNCHANGED <<schedule, asyncVars, topoVars, mftVars, joined, reprog, rsince,
                 owedVars, fails>>
ReprogTrigger ==
  /\ rpc = "trigger" /\ rpc' = "recv"
  /\ sm_trigger_sweep /\ reprog' = FALSE /\ rsince' = "no"
  /\ UNCHANGED <<wake, resweep, forceMfts, timer, asyncVars, topoVars, mftVars, joined,
                 needProg, owedVars, fails>>

Reader == sa_McMemberRecord \/ ReprogCheck \/ GroupsNeedProg \/ ReprogTrigger

-----------------------------------------------------------------------------
\* A MASTER that has just completed its first sweep.
Init ==
  /\ timer \in Rates
  /\ wake = IF timer = "on" THEN "later" ELSE "off"
  /\ sema = FALSE /\ resweep = FALSE /\ forceMfts = FALSE
  /\ apc = "recv" /\ newTimer = "none" /\ needed = FALSE /\ since = "no"
  /\ tpc = "wait" /\ valid = TRUE /\ again = FALSE /\ sendOut = FALSE /\ late = FALSE
  /\ newMft = {} /\ oldMft = {} /\ mft = {}
  /\ rpc = "recv" /\ joined = {} /\ reprog = FALSE /\ rsince = "no" /\ needProg = FALSE
  /\ dirty = FALSE /\ asked = FALSE /\ fails = 0

Next ==
  \/ Time \/ Async \/ Topology \/ Reader
  \/ LateCallback \/ sm_forceSweep \/ \E rate \in Rates : sm_setSweepRate(rate)

Spec == Init /\ [][Next]_vars

\* No thread stops for ever in its loop, and time passes.
Fairness ==
  /\ WF_vars(WakeupDue) /\ WF_vars(DiscoveryRipe) /\ WF_vars(ReprogRipe)
  /\ WF_vars(Async) /\ WF_vars(Topology) /\ WF_vars(Reader)

FairSpec == Spec /\ Fairness

-----------------------------------------------------------------------------
(* Properties.                                                             *)

\* The types of the variables.
TypeOK ==
  /\ wake \in {"off", "due", "soon", "later"}
  /\ sema \in BOOLEAN /\ resweep \in BOOLEAN /\ forceMfts \in BOOLEAN
  /\ timer \in Rates /\ newTimer \in Rates \cup {"none"}
  /\ apc \in {"recv", "rate", "discovery", "gate", "timeout"}
  /\ needed \in BOOLEAN /\ since \in {"no", "wait", "ripe"}
  /\ tpc \in {"wait", "sweep", "multicast", "send", "decide", "write", "congestion"}
  /\ valid \in BOOLEAN /\ again \in BOOLEAN /\ sendOut \in BOOLEAN /\ late \in BOOLEAN
  /\ newMft \subseteq Host /\ oldMft \subseteq Host /\ mft \subseteq Host
  /\ rpc \in {"recv", "check", "flag", "trigger"} /\ joined \subseteq Host
  /\ reprog \in BOOLEAN /\ rsince \in {"no", "wait", "ripe"} /\ needProg \in BOOLEAN
  /\ dirty \in BOOLEAN /\ asked \in BOOLEAN /\ fails \in 0..MaxFails

\* The topology thread will still write topology_wakeup_time for the next sweep.
Sweeping == tpc \in {"sweep", "multicast", "send", "decide", "write"}

\* A sweep is on its way: its time is set, the semaphore is posted, the SA reader is
\* about to post it, or the sweep in progress will set the time.
SweepAhead == wake # "off" \/ sema \/ rpc \in {"flag", "trigger"} \/ Sweeping

\* With periodic sweeps, no interleaving of the three threads' unlocked writes to
\* topology_wakeup_time leaves a MASTER without a next sweep.
AlwaysSweepAhead == "off" \notin Rates => SweepAhead

\* A change of the group's members is never dropped on its way to the switches: it
\* waits in the SA reader, in sm_McGroups_Need_Prog, in the MFTs that are about to be
\* sent, or in topology_forceMfts with another sweep ahead.
NoLostJoin ==
  mft # joined =>
    \/ reprog
    \/ needProg /\ SweepAhead
    \/ tpc = "send" /\ newMft = joined /\ SendsMfts
    \/ forceMfts /\ oldMft = joined /\ SweepAhead

\* Switches that did not take the MFTs sent to them are tried again within seconds
\* and do not stay behind for a sweep interval, although topology_resweep, which asks
\* for that, is also reset at the head of the loop.
RetryIsSoon ==
  mft # oldMft /\ tpc \in {"congestion", "wait"} => wake # "later" \/ sema

\* Every sweep that a trap or sm_forceSweep asks for takes place.
RequestsSwept == (dirty ~> ~dirty) /\ (asked ~> ~asked)

\* A port that joins the group, and does not leave it, is in the switches' MFTs in
\* the end, and one that leaves is not, whatever fails at first.
MembersProgrammed ==
  \A h \in Host : /\ h \in joined ~> h \in mft \/ h \notin joined
                  /\ h \notin joined ~> h \notin mft \/ h \in joined
=============================================================================
