----------------------------- MODULE SmDispatch -----------------------------
(***************************************************************************)
(* The SM's asynchronous dispatcher (sm_dispatch.c) together with the two  *)
(* threads that share it.  The topology thread enqueues one request per    *)
(* LFT or MFT block while it sweeps, waits for the queue to drain, and     *)
(* frees the Node_t objects of the topologies it replaces.  The            *)
(* topology_rcv thread sends queued requests and runs the completion       *)
(* callback of each of them.  Everything either thread does to the         *)
(* dispatcher happens under sm_async_send_rcv_cntxt.lock.                  *)
(*                                                                         *)
(* A Node_t is named by the sweep that allocated it and the switch it      *)
(* describes, so that a pointer kept past topology_free_topology can be    *)
(* told from a pointer to a live node.                                     *)
(***************************************************************************)
EXTENDS Naturals, FiniteSets

CONSTANTS
    Switch,             \* the switches of the fabric
    ReqsSupported,      \* sm_config.max_parallel_reqs
    BatchSize,          \* sm_config.sma_batch_size: requests a node can take
    StallThreshold,     \* SM_DISPATCH_STALL_THRESHOLD
    AbandonThreshold,   \* sm_config.topo_abandon_threshold
    CheckMftResponses,  \* sm_config.check_mft_responses
    MaxSweeps,          \* bound: sweeps the topology thread may start
    MaxRequests         \* bound: requests that may be enqueued in all

ASSUME DispatchAssumption ==
    /\ ReqsSupported \in Nat \ {0}
    /\ BatchSize \in Nat \ {0}
    /\ StallThreshold \in 0 .. 255
    /\ AbandonThreshold \in Nat
    /\ CheckMftResponses \in BOOLEAN
    /\ MaxSweeps \in Nat
    /\ MaxRequests \in Nat

VARIABLES
    queue,           \* disp->queue: requests not yet sent, oldest id first
    sent,            \* requests that own a context entry
    reqsOutstanding, \* disp->reqsOutstanding
    sweepPasscount,  \* disp->sweepPasscount
    async,           \* Node_t.asyncReqsOutstanding of every node allocated
    lock,            \* holder of sm_async_send_rcv_cntxt.lock between steps
    cursor,          \* sm_dispatch_update's position in the queue
    pc,              \* where the topology thread is
    round,           \* attribute being programmed: "LFT" or "MFT"
    newGen,          \* sm_newTopology: the sweep that allocated its nodes
    oldGen,          \* old_topology
    saveGen,         \* save_topology
    sweeps,          \* sweeps started so far
    nextId,          \* id of the next request
    saved,           \* save and savedCount of sm_dispatch_wait
    valid,           \* newTopologyValid
    ignored,         \* an error of this sweep was ignored (abandon threshold)
    abandon,         \* topo_abandon_count
    mftFailed,       \* worstStatus of sm_set_all_mft asks for a resweep
    resweep,         \* topology_resweep
    lftLost          \* history: an LFT block of this sweep was not acknowledged

dispVars == <<queue, sent, reqsOutstanding, sweepPasscount, async>>
rcvVars  == <<lock, cursor>>
genVars  == <<newGen, oldGen, saveGen, sweeps>>
ctlVars  == <<valid, ignored, abandon>>
vars == <<dispVars, rcvVars, genVars, ctlVars, pc, round, nextId, saved, mftFailed,
          resweep, lftLost>>

Gen  == 1 .. MaxSweeps
Node == Gen \X Switch
Attr == {"LFT", "MFT"}

\* 0 stands for an empty topology: memset, or freed and cleared.
None == 0

\* sm_dispatch_req_t; ids grow in the order of QListInsertTail.
Request == [id : 1 .. MaxRequests, node : Node, pass : Nat, aid : Attr]

Live == {newGen, oldGen, saveGen} \ {None}

\* Mutant: MFT blocks queued against sm_newTopology after topology_copy.
TargetAlwaysNew == newGen

\* The generation whose switches the current round programs: LFTs go to the
\* topology being built, MFTs to the one topology_copy has just installed.
Target == IF round = "LFT" THEN newGen ELSE oldGen

Fresh(r) == r.pass = sweepPasscount
OnWire(n) == {r \in sent : r.node = n /\ Fresh(r)}

\* Mutant: sm_dispatch_update walks the queue from its tail.
OldestFromTail(S) == CHOOSE r \in S : \A q \in S : r.id >= q.id

\* QListHead: the request queued first.
Oldest(S) == CHOOSE r \in S : \A q \in S : r.id <= q.id

\* The locals of sm_dispatch_wait when it is called.
NothingSaved == [length |-> 0, count |-> 0]

Init ==
    /\ queue = {} /\ sent = {} /\ reqsOutstanding = 0 /\ sweepPasscount = 0
    /\ async = [n \in Node |-> 0]
    /\ lock = "free" /\ cursor = 0
    /\ pc = "idle" /\ round = "LFT"
    /\ newGen = None /\ oldGen = None /\ saveGen = None /\ sweeps = 0
    /\ nextId = 1
    /\ saved = NothingSaved /\ mftFailed = FALSE
    /\ valid = TRUE /\ ignored = FALSE /\ abandon = 0
    /\ resweep = FALSE /\ lftLost = FALSE

-----------------------------------------------------------------------------
(* The topology thread *)

\* A sweep begins: topology_discovery allocates fresh, zeroed Node_t objects.
topology_discovery ==
    /\ pc = "idle" /\ sweeps < MaxSweeps
    /\ sweeps' = sweeps + 1 /\ newGen' = sweeps + 1
    /\ pc' = "program" /\ round' = "LFT"
    /\ valid' = TRUE /\ ignored' = FALSE /\ lftLost' = FALSE
    /\ UNCHANGED <<dispVars, rcvVars, oldGen, saveGen, abandon, nextId, saved,
                   mftFailed, resweep>>

\* sm_dispatch_new_req followed by sm_dispatch_enqueue.
sm_send_stl_request_async_dispatch(s) ==
    /\ pc = "program" /\ lock = "free" /\ nextId <= MaxRequests
    /\ queue' = queue \union
         {[id |-> nextId, node |-> <<Target, s>>, pass |-> sweepPasscount, aid |-> round]}
    /\ nextId' = nextId + 1
    /\ UNCHANGED <<sent, reqsOutstanding, sweepPasscount, async, rcvVars, genVars,
                   ctlVars, pc, round, saved, mftFailed, resweep, lftLost>>

\* All blocks of the round are queued: call sm_dispatch_wait.
DispatchWait ==
    /\ pc = "program"
    /\ pc' = "wait" /\ saved' = NothingSaved
    /\ UNCHANGED <<dispVars, rcvVars, genVars, ctlVars, round, nextId, mftFailed,
                   resweep, lftLost>>

\* Mutant: savedCount is compared but never counted up.
LookAgainUncounted(count) == count

\* savedCount++ on a uint8_t.
LookAgain(count) == (count + 1) % 256

\* The queue had this length at the last StallThreshold looks.
Stalled(len) == saved.length = len /\ saved.count = StallThreshold

Drained == queue = {} /\ reqsOutstanding = 0

\* One turn of sm_dispatch_wait's loop, under the lock: done, stalled (the
\* queue has kept its length StallThreshold times), or wait for evtEmpty.
sm_dispatch_wait ==
    /\ pc = "wait" /\ lock = "free"
    /\ LET len == Cardinality(queue) IN
       \/ Drained /\ pc' = "waitOk" /\ UNCHANGED saved
       \/ ~Drained /\ queue = {} /\ pc' = "event" /\ UNCHANGED saved
       \/ /\ queue # {} /\ saved.length # len
          /\ pc' = "event" /\ saved' = [length |-> len, count |-> 1]
       \/ /\ queue # {} /\ saved.length = len /\ ~Stalled(len)
          /\ pc' = "event" /\ saved' = [saved EXCEPT !.count = LookAgain(@)]
       \/ queue # {} /\ Stalled(len) /\ pc' = "clear" /\ UNCHANGED saved
    /\ UNCHANGED <<dispVars, rcvVars, genVars, ctlVars, round, nextId, mftFailed,
                   resweep, lftLost>>

\* vs_event_wait returns, signalled or after SM_DISPATCH_EVENT_TIMEOUT; the
\* loop re-checks the dispatcher either way.
vs_event_wait ==
    /\ pc = "event" /\ pc' = "wait"
    /\ UNCHANGED <<dispVars, rcvVars, genVars, ctlVars, round, nextId, saved, mftFailed,
                   resweep, lftLost>>

\* sm_dispatch_wait returned VSTATUS_OK: more LFT blocks, the end of the
\* sweep functions, or the end of sm_set_all_mft.
WaitReturnsOk ==
    /\ pc = "waitOk"
    /\ \/ round = "LFT" /\ pc' \in {"program", "bump"} /\ UNCHANGED resweep
       \/ round = "MFT" /\ pc' = "release" /\ resweep' = (resweep \/ mftFailed)
    /\ UNCHANGED <<dispVars, rcvVars, genVars, ctlVars, round, nextId, saved, mftFailed, lftLost>>

\* The LFT calculation or an enqueue fails: sm_routing_route_switch_LR clears
\* the dispatcher without waiting for what is on the wire.
LftProgramFails ==
    /\ pc = "program" /\ round = "LFT"
    /\ pc' = "clear"
    /\ UNCHANGED <<dispVars, rcvVars, genVars, ctlVars, round, nextId, saved, resweep,
                   mftFailed, lftLost>>

\* An MFT enqueue fails: sm_set_all_mft records worstStatus and goes on.
MftProgramFails ==
    /\ pc = "program" /\ round = "MFT" /\ ~mftFailed
    /\ mftFailed' = TRUE
    /\ UNCHANGED <<dispVars, rcvVars, genVars, ctlVars, pc, round, nextId, saved, resweep, lftLost>>

\* This SM lost the mastership: worstStatus becomes VSTATUS_NOT_MASTER, for
\* which topology_main asks for no resweep, and the loop is left.
MftNotMaster ==
    /\ pc = "program" /\ round = "MFT"
    /\ mftFailed' = FALSE /\ pc' = "wait" /\ saved' = NothingSaved
    /\ UNCHANGED <<dispVars, rcvVars, genVars, ctlVars, round, nextId, resweep, lftLost>>

\* topology_main's reaction to a topology function that returned an error:
\* abandon the sweep, or ignore the error once both thresholds are passed.
\* Whether topo_errors has passed its threshold depends on the errors other
\* functions tolerated in this sweep, so it is left open.
FunctionError ==
    /\ abandon' = abandon + 1
    /\ \/ valid' = FALSE /\ UNCHANGED ignored
       \/ abandon + 1 > AbandonThreshold /\ ignored' = TRUE /\ UNCHANGED valid

\* sm_dispatch_clear frees what is queued, not what is on the wire.  After
\* LFTs its caller propagates the error up to topology_main; after MFTs
\* topology_main asks for a resweep.
sm_dispatch_clear ==
    /\ pc = "clear" /\ lock = "free"
    /\ queue' = {}
    /\ lftLost' = (lftLost \/ \E r \in queue : r.aid = "LFT" /\ r.node[1] = Target)
    /\ \/ round = "LFT" /\ FunctionError /\ pc' = "bump" /\ UNCHANGED resweep
       \/ round = "MFT" /\ UNCHANGED ctlVars /\ pc' = "release" /\ resweep' = TRUE
    /\ UNCHANGED <<sent, reqsOutstanding, sweepPasscount, async, rcvVars, genVars,
                   round, nextId, saved, mftFailed>>

\* A topology function that does not use the dispatcher fails.
TopologyFunctionFails ==
    /\ pc = "program" /\ round = "LFT"
    /\ \A r \in queue \union sent : r.node[1] # newGen
    /\ FunctionError /\ pc' = "bump"
    /\ UNCHANGED <<dispVars, rcvVars, genVars, round, nextId, saved, resweep, mftFailed, lftLost>>

\* Mutant: the passcount is bumped only for a sweep that succeeded.
NextPassIfValid == IF valid THEN sweepPasscount + 1 ELSE sweepPasscount

\* ++disp->sweepPasscount, whichever way the sweep ended.
NextPass == sweepPasscount + 1

\* The end of the topology functions: the requests of this sweep become
\* stale.  topo_abandon_count is cleared past its threshold, or when no
\* function counted an error, tolerated ones included.
sm_dispatch_bump_passcount ==
    /\ pc = "bump" /\ lock = "free"
    /\ sweepPasscount' = NextPass
    /\ \/ abandon > AbandonThreshold /\ abandon' = 0
       \/ abandon <= AbandonThreshold /\ valid /\ abandon' \in {0, abandon}
       \/ abandon <= AbandonThreshold /\ ~valid /\ abandon' = abandon
    /\ pc' = IF valid THEN "copy" ELSE "clearNew"
    /\ UNCHANGED <<queue, sent, reqsOutstanding, async, rcvVars, genVars, valid, ignored,
                   round, nextId, saved, resweep, mftFailed, lftLost>>

\* topology_copy installs the new topology; then sm_set_all_mft, unless no
\* MFT needs programming.
topology_copy ==
    /\ pc = "copy"
    /\ saveGen' = oldGen /\ oldGen' = newGen /\ newGen' = None
    /\ round' = "MFT" /\ mftFailed' = FALSE
    /\ pc' \in {"program", "release"}
    /\ UNCHANGED <<dispVars, rcvVars, sweeps, ctlVars, nextId, saved, resweep, lftLost>>

topology_release_saved_topology ==
    /\ pc = "release"
    /\ saveGen' = None /\ pc' = "schedule"
    /\ UNCHANGED <<dispVars, rcvVars, newGen, oldGen, sweeps, ctlVars, round, nextId,
                   saved, resweep, mftFailed, lftLost>>

topology_clearNew ==
    /\ pc = "clearNew"
    /\ newGen' = None /\ pc' = "schedule"
    /\ UNCHANGED <<dispVars, rcvVars, oldGen, saveGen, sweeps, ctlVars, round, nextId,
                   saved, resweep, mftFailed, lftLost>>

\* The end of the sweep: the wakeup time is set from valid and resweep, and
\* resweep is cleared when the thread next waits on topology_sema.
Reschedule ==
    /\ pc = "schedule"
    /\ pc' = "idle" /\ resweep' = FALSE
    /\ UNCHANGED <<dispVars, rcvVars, genVars, ctlVars, round, nextId, saved, mftFailed, lftLost>>

-----------------------------------------------------------------------------
(* The topology_rcv thread *)

\* Mutant: the limit is tested after the increment it should prevent.
AtLimitLate == reqsOutstanding > ReqsSupported

AtLimit == reqsOutstanding >= ReqsSupported

\* sm_dispatch_update takes the lock when there is something to send.
sm_dispatch_update ==
    /\ lock = "free" /\ queue # {} /\ ~AtLimit
    /\ lock' = "rcv" /\ cursor' = 0
    /\ UNCHANGED <<dispVars, genVars, ctlVars, pc, round, nextId, saved, resweep, mftFailed, lftLost>>

\* The requests sm_dispatch_update has not looked at in this scan.
Ahead == {r \in queue : r.id > cursor}

\* Mutant: a node may take one request more than asyncReqsSupported.
SendableLate(r) == ~Fresh(r) \/ async[r.node] <= BatchSize

\* A request is sent if it is stale, or if its node can take one more.
Sendable(r) == ~Fresh(r) \/ async[r.node] < BatchSize

\* One turn of sm_dispatch_update's loop: send the request at the cursor.
UpdateSend ==
    /\ lock = "rcv" /\ Ahead # {} /\ ~AtLimit
    /\ LET r == Oldest(Ahead) IN
       /\ Sendable(r)
       /\ queue' = queue \ {r} /\ sent' = sent \union {r}
       /\ reqsOutstanding' = reqsOutstanding + 1
       /\ async' = IF Fresh(r) THEN [async EXCEPT ![r.node] = @ + 1] ELSE async
       /\ cursor' = r.id
    /\ UNCHANGED <<sweepPasscount, lock, genVars, ctlVars, pc, round, nextId, saved,
                   resweep, mftFailed, lftLost>>

\* One turn of the loop: pass over a request whose node is saturated.
UpdateSkip ==
    /\ lock = "rcv" /\ Ahead # {} /\ ~AtLimit
    /\ LET r == Oldest(Ahead) IN ~Sendable(r) /\ cursor' = r.id
    /\ UNCHANGED <<dispVars, lock, genVars, ctlVars, pc, round, nextId, saved, resweep,
                   mftFailed, lftLost>>

\* The end of the queue, or the limit on outstanding requests, is reached.
UpdateDone ==
    /\ lock = "rcv" /\ (Ahead = {} \/ AtLimit)
    /\ lock' = "free" /\ cursor' = 0
    /\ UNCHANGED <<dispVars, genVars, ctlVars, pc, round, nextId, saved, resweep, mftFailed, lftLost>>

\* Mutant: only a timeout is an error, a response's MAD status is not looked at.
FailedTimeoutOnly(r, status) == status = "timeout" /\ (r.aid = "LFT" \/ CheckMftResponses)

\* The completions after which the callback calls sm_request_resweep.
Failed(r, status) == status # "ok" /\ (r.aid = "LFT" \/ CheckMftResponses)

\* sm_dispatch_cntxt_callback, run once for each context entry: by
\* cs_cntxt_find_release when the response arrives (good, or with a bad MAD
\* status) and by cs_cntxt_age when the retries are exhausted.
sm_dispatch_cntxt_callback(r, status) ==
    /\ lock = "free" /\ r \in sent
    /\ sent' = sent \ {r}
    /\ resweep' = (resweep \/ Failed(r, status))
    /\ lftLost' = \/ lftLost
                  \/ status # "ok" /\ r.aid = "LFT" /\ r.node[1] \in {newGen, oldGen}
    /\ reqsOutstanding' = IF reqsOutstanding # 0 THEN reqsOutstanding - 1 ELSE 0
    /\ async' = IF Fresh(r) /\ async[r.node] # 0
                THEN [async EXCEPT ![r.node] = @ - 1] ELSE async
    /\ UNCHANGED <<queue, sweepPasscount, rcvVars, genVars, ctlVars, pc, round, nextId,
                   saved, mftFailed>>

-----------------------------------------------------------------------------
Topology ==
    \/ topology_discovery
    \/ \E s \in Switch : sm_send_stl_request_async_dispatch(s)
    \/ DispatchWait \/ sm_dispatch_wait \/ vs_event_wait \/ WaitReturnsOk
    \/ LftProgramFails \/ MftProgramFails \/ MftNotMaster
    \/ sm_dispatch_clear \/ TopologyFunctionFails \/ sm_dispatch_bump_passcount
    \/ topology_copy \/ topology_release_saved_topology \/ topology_clearNew
    \/ Reschedule

Update == sm_dispatch_update \/ UpdateSend \/ UpdateSkip \/ UpdateDone

Callback == \E r \in sent, status \in {"ok", "bad", "timeout"} :
                sm_dispatch_cntxt_callback(r, status)

Next == Topology \/ Update \/ Callback

Spec == Init /\ [][Next]_vars

(***************************************************************************)
(* Each thread keeps running, and every context entry is answered or       *)
(* times out, so the completion of each request is weakly fair: the lock   *)
(* is free again and again, so fairness is strong for what needs it.       *)
(***************************************************************************)
Fairness ==
    /\ WF_vars(Update)
    /\ SF_vars(Callback)
    /\ SF_vars(sm_dispatch_wait) /\ WF_vars(vs_event_wait)
    /\ SF_vars(sm_dispatch_clear) /\ WF_vars(WaitReturnsOk)

FairSpec == Spec /\ Fairness

-----------------------------------------------------------------------------
(* Properties *)

PcState == {"idle", "program", "wait", "event", "waitOk", "clear", "bump", "copy",
            "release", "clearNew", "schedule"}

DataTypeOK ==
    /\ queue \subseteq Request /\ sent \subseteq Request
    /\ reqsOutstanding \in Nat /\ sweepPasscount \in Nat
    /\ async \in [Node -> Nat]
    /\ lock \in {"free", "rcv"} /\ cursor \in 0 .. MaxRequests
    /\ pc \in PcState /\ round \in Attr
    /\ newGen \in 0 .. MaxSweeps /\ oldGen \in 0 .. MaxSweeps /\ saveGen \in 0 .. MaxSweeps
    /\ sweeps \in 0 .. MaxSweeps /\ nextId \in 1 .. MaxRequests + 1
    /\ saved \in [length : Nat, count : Nat]
    /\ abandon \in Nat

FlagTypeOK ==
    /\ valid \in BOOLEAN /\ ignored \in BOOLEAN /\ mftFailed \in BOOLEAN
    /\ resweep \in BOOLEAN /\ lftLost \in BOOLEAN

\* The type invariant.
TypeOK == DataTypeOK /\ FlagTypeOK

\* reqsOutstanding counts exactly the requests that own a context entry, over
\* any number of sweeps, clears and stale completions, and never passes
\* max_parallel_reqs (the size of the context pool, so a context is always
\* there for sm_dispatch_send and the callback never sees a NULL context).
Accounting ==
    /\ reqsOutstanding = Cardinality(sent)
    /\ reqsOutstanding <= ReqsSupported

\* sm_dispatch_update and the callback dereference nodep exactly for the
\* requests whose passcount is current: such a request never names a node of
\* a topology that has been freed, whichever way the sweep that queued it ended.
NoDanglingNode ==
    \A r \in queue \union sent : Fresh(r) => r.node[1] \in Live

\* A switch never has more than sma_batch_size current requests on the wire,
\* and its counter never falls below the requests it stands for (an underflow
\* or an early decrement would let the dispatcher overrun the switch).
NodeBatch ==
    \A n \in Node : Cardinality(OnWire(n)) <= async[n] /\ async[n] <= BatchSize

\* A sweep that ends valid with no error ignored has had an answer for every
\* LFT block it queued, and if one of them failed a resweep has been asked
\* for: no switch silently keeps a stale forwarding table.
LftProgrammed ==
    pc = "schedule" /\ valid /\ ~ignored =>
        /\ \A r \in queue \union sent : r.aid = "LFT" => r.node[1] # oldGen
        /\ lftLost => resweep

\* Requests of one sweep to one switch are sent in the order they were queued.
NodeFifo ==
    [][\A r \in sent' \ sent : \A q \in queue :
          q.node = r.node /\ q.pass = r.pass => q.id >= r.id]_vars

\* sm_dispatch_wait returns: the topology thread is never stuck in it.
WaitReturns == pc = "wait" ~> pc \notin {"wait", "event"}

=============================================================================
