----------------------------- MODULE PmDispatch -----------------------------
(***************************************************************************)
(* The PMA dispatcher of the performance manager: one sweep over the port  *)
(* counters of all nodes, several nodes and several packets per node at a  *)
(* time.                                                                   *)
(*     Esm/ib/src/pm/pm/pm_dispatch.c (and PmSkipNode, PmFailNode,         *)
(*     PmFailPacket of pm_sweep.c, PmTabulatePort of pm_calc.c)            *)
(*                                                                         *)
(* Two threads run this code: the engine thread starts a sweep and waits   *)
(* for sweepDone; the receive thread runs the callbacks of the request     *)
(* context (CsContext).  Both hold the lock of the context, so run is the  *)
(* program counter of whichever has it; run.pc = "free" means nobody.      *)
(* Only the shutdown flags are read without protection, once per call of   *)
(* DispatchNextNode and DispatchNextPacket: these calls are the steps.     *)
(*                                                                         *)
(* A node goes NONE, CLASS_INFO, GET_DATACOUNTERS, GET_ERRORCOUNTERS,      *)
(* CLR_PORT_STATUS, DONE.  Counters are abstracted to one bit per port:    *)
(* whether the stored counters exceed the clear thresholds.  DoNotMerge is *)
(* left out, no code sets it.                                              *)
(***************************************************************************)
EXTENDS Integers, Sequences, FiniteSets

CONSTANTS Node, None,
          LidMap,            \* the node at each lid 1 .. maxLid, or None
          Switch, PmaAvoid,  \* sets of nodes
          Port,              \* numbered over all nodes
          portsOf, active, VLSelectMask,
          MaxParallelNodes, PmaBatchSize,
          Payload,           \* what a MAD holds, in counters of one VL
          Busy,              \* ports whose counters may reach the thresholds
          SendFails,         \* cs_cntxt_send_mad_nolock may fail
          AllocFails,        \* vs_pool_alloc may fail
          Stops              \* the engine may be told to stop

ASSUME PmAssumption ==
    /\ None \notin Node
    /\ LidMap \in Seq(Node \cup {None})
    /\ Switch \subseteq Node /\ PmaAvoid \subseteq Node
    /\ portsOf \in [Node -> SUBSET Port]
    /\ active \subseteq Port /\ Busy \subseteq Port
    /\ MaxParallelNodes \in Nat \ {0} /\ PmaBatchSize \in Nat \ {0}

\* A node has ports of its own, and the counters of one port fit in a MAD.
ASSUME FabricAssumption ==
    /\ \A n \in Node : IsFiniteSet(portsOf[n]) /\ portsOf[n] # {}
    /\ \A m, n \in Node : m # n => portsOf[m] \cap portsOf[n] = {}
    /\ VLSelectMask \in [Port -> SUBSET Nat]
    /\ Payload \in Nat \ {0}
    /\ \A q \in Port : IsFiniteSet(VLSelectMask[q]) /\ Cardinality(VLSelectMask[q]) < Payload

VARIABLES engine,            \* pm_shutdown and g_pmEngineState
          main,              \* the engine thread
          run,               \* the thread that holds the lock of the context
          nextLid, numOutstandingNodes, postedEvent, sweepDone,
          FailedNodes,
          pmnode, state,     \* DispNodes[].info
          numOutstandingPackets, info,
          pkt,               \* DispNodes[].DispPackets[]
          wire,              \* context entries: <<slot, packet>>, packet 0 for
                             \* the query of the node
          gotClassPortInfo,  \* nodes
          status, got, over, \* Image[SweepIndex] of each port
          exhausted          \* history: an allocation has failed in this sweep

vars == <<engine, main, run, nextLid, numOutstandingNodes, postedEvent, sweepDone,
          FailedNodes, pmnode, state, numOutstandingPackets, info, pkt, wire,
          gotClassPortInfo, status, got, over, exhausted>>

sweep == <<nextLid, numOutstandingNodes, postedEvent, sweepDone, FailedNodes>>
image == <<status, got, over>>

Slot == 1 .. MaxParallelNodes
Packet == 1 .. PmaBatchSize
maxLid == Len(LidMap)

\* A slot that holds a node which is not done.
Working == {"CLASS_INFO", "GET_DATACOUNTERS", "GET_ERRORCOUNTERS", "CLR_PORT_STATUS"}

\* What info holds of a node besides its state: activePorts in the order they
\* are dispatched in, and their flags.
NoInfo == [failed |-> FALSE, ports |-> <<>>, IsDispatched |-> {}, NeedsError |-> {}]

NoPacket == [ports |-> {}, VLSelectMask |-> {}, numVLs |-> 0]

Init ==
    /\ engine = "started"
    /\ main = "idle"
    /\ run = [pc |-> "free", s |-> 1, p |-> 1, ret |-> "nextnode"]
    /\ nextLid = 1 /\ numOutstandingNodes = 0
    /\ postedEvent = FALSE /\ sweepDone = FALSE
    /\ FailedNodes = 0
    /\ pmnode = [s \in Slot |-> None]
    /\ state = [s \in Slot |-> "NONE"]
    /\ numOutstandingPackets = [s \in Slot |-> 0]
    /\ info = [s \in Slot |-> NoInfo]
    /\ pkt = [s \in Slot |-> [p \in Packet |-> NoPacket]]
    /\ wire = {}
    /\ gotClassPortInfo = {}
    /\ status = [q \in Port |-> "ok"]
    /\ got = [q \in Port |-> {}]
    /\ over = {}
    /\ exhausted = FALSE

-----------------------------------------------------------------------------
(* Sending.  The pool of the context has MaxParallelNodes * PmaBatchSize   *)
(* entries (PmDispatcherInit).                                             *)

\* Mutant: one entry per node.
PoolSizeNodes == MaxParallelNodes

PoolSize == MaxParallelNodes * PmaBatchSize

CanSend == Cardinality(wire) < PoolSize
CanFail == SendFails \/ Cardinality(wire) >= PoolSize

\* PmFailNode, PmFailPacket: the first failure of a port counts.
Fail(ports, why) ==
    [q \in Port |-> IF q \in ports /\ status[q] = "ok" THEN why ELSE status[q]]

\* PmFailPacketQuery or, when clearing, PmFailPacketClear.
Why(s) == IF state[s] = "CLR_PORT_STATUS" THEN "clear" ELSE "query"

\* The thread that holds the lock is done with this node for now: the engine
\* thread starts on the next slot, the receive thread gives the lock back.
Started == IF main = "starting"
             THEN [run EXCEPT !.pc = "nodes", !.s = @ + 1]
             ELSE [run EXCEPT !.pc = "free"]

-----------------------------------------------------------------------------
(* The engine thread: PmSweepAllPortCounters.                              *)

\* PmClearAllNodes, and the first half of DispatcherStartSweepAllNodes.
SweepBegin ==
    /\ main = "idle" /\ engine = "started" /\ run.pc = "free"
    /\ main' = "starting"
    /\ run' = [run EXCEPT !.pc = "nodes", !.s = 1]
    /\ nextLid' = 1 /\ numOutstandingNodes' = 0 /\ postedEvent' = FALSE
    /\ FailedNodes' = 0
    /\ pmnode' = [s \in Slot |-> None]
    /\ state' = [s \in Slot |-> "NONE"]
    /\ status' = [q \in Port |-> "ok"]
    /\ got' = [q \in Port |-> {}]
    /\ exhausted' = FALSE
    /\ UNCHANGED <<engine, sweepDone, numOutstandingPackets, info, pkt, wire,
                   gotClassPortInfo, over>>

\* The loop over the slots.
StartNodes ==
    /\ run.pc = "nodes"
    /\ IF run.s <= MaxParallelNodes /\ nextLid <= maxLid
         THEN run' = [run EXCEPT !.pc = "nextnode"] /\ UNCHANGED main
         ELSE run' = [run EXCEPT !.pc = "free"] /\ main' = "waiting"
    /\ UNCHANGED <<engine, sweep, pmnode, state, numOutstandingPackets, info, pkt,
                   wire, gotClassPortInfo, image, exhausted>>

\* vs_event_wait returns.
SweepEnd ==
    /\ main = "waiting" /\ sweepDone
    /\ sweepDone' = FALSE
    /\ main' = IF engine = "started" THEN "idle" ELSE "stopped"
    /\ UNCHANGED <<engine, run, nextLid, numOutstandingNodes, postedEvent, FailedNodes,
                   pmnode, state, numOutstandingPackets, info, pkt, wire,
                   gotClassPortInfo, image, exhausted>>

EngineStop ==
    /\ Stops /\ engine = "started"
    /\ engine' = "stopping"
    /\ main' = IF main = "idle" THEN "stopped" ELSE main
    /\ UNCHANGED <<run, sweep, pmnode, state, numOutstandingPackets, info, pkt, wire,
                   gotClassPortInfo, image, exhausted>>

-----------------------------------------------------------------------------
(* DispatchNextNode.                                                       *)

\* Mutant: the event is posted although nodes are in work.
NoNextNodeEarly ==
    LET post == ~postedEvent IN
    /\ postedEvent' = (postedEvent \/ post)
    /\ sweepDone' = (sweepDone \/ post)
    /\ run' = [run EXCEPT !.pc = IF main = "starting" THEN "nodes" ELSE "free"]

\* Mutant: only callbacks post the event.
NoNextNodeLater ==
    LET post == numOutstandingNodes = 0 /\ ~postedEvent /\ main = "waiting" IN
    /\ postedEvent' = (postedEvent \/ post)
    /\ sweepDone' = (sweepDone \/ post)
    /\ run' = [run EXCEPT !.pc = IF main = "starting" THEN "nodes" ELSE "free"]

\* No node to start: the event is posted if none is left either.
NoNextNode ==
    LET post == numOutstandingNodes = 0 /\ ~postedEvent IN
    /\ postedEvent' = (postedEvent \/ post)
    /\ sweepDone' = (sweepDone \/ post)
    /\ run' = [run EXCEPT !.pc = IF main = "starting" THEN "nodes" ELSE "free"]

NextNode ==
    /\ run.pc = "nextnode"
    /\ \/ /\ engine = "started"
          /\ run' = [run EXCEPT !.pc = "scan"]
          /\ UNCHANGED sweep
       \/ /\ engine = "stopping"
          /\ NoNextNode
          /\ UNCHANGED <<nextLid, numOutstandingNodes, FailedNodes>>
    /\ UNCHANGED <<engine, main, pmnode, state, numOutstandingPackets, info, pkt, wire,
                   gotClassPortInfo, image, exhausted>>

ScanEnd ==
    /\ run.pc = "scan"
    /\ nextLid > maxLid
    /\ NoNextNode
    /\ UNCHANGED <<engine, main, nextLid, numOutstandingNodes, FailedNodes, pmnode, state,
                   numOutstandingPackets, info, pkt, wire, gotClassPortInfo, image, exhausted>>

\* An unused lid, or a node without PMA (PmSkipNode).
ScanSkip ==
    /\ run.pc = "scan"
    /\ nextLid <= maxLid
    /\ LidMap[nextLid] \in PmaAvoid \cup {None}
    /\ nextLid' = nextLid + 1
    /\ status' = IF LidMap[nextLid] = None THEN status
                 ELSE [q \in Port |-> IF q \in portsOf[LidMap[nextLid]] THEN "skip"
                                                                        ELSE status[q]]
    /\ UNCHANGED <<engine, main, run, numOutstandingNodes, postedEvent, sweepDone,
                   FailedNodes, pmnode, state, numOutstandingPackets, info, pkt, wire,
                   gotClassPortInfo, got, over, exhausted>>

\* Mutant: the lid is not passed over.
TakeNodeAgain(st) ==
    /\ run.pc = "scan"
    /\ nextLid <= maxLid
    /\ LidMap[nextLid] \notin PmaAvoid \cup {None}
    /\ nextLid' = nextLid
    /\ pmnode' = [pmnode EXCEPT ![run.s] = LidMap[nextLid]]
    /\ state' = [state EXCEPT ![run.s] = st]
    /\ numOutstandingPackets' = [numOutstandingPackets EXCEPT ![run.s] = 0]

\* DispatchNode up to the state it leaves the node in.
TakeNode(st) ==
    /\ run.pc = "scan"
    /\ nextLid <= maxLid
    /\ LidMap[nextLid] \notin PmaAvoid \cup {None}
    /\ nextLid' = nextLid + 1
    /\ pmnode' = [pmnode EXCEPT ![run.s] = LidMap[nextLid]]
    /\ state' = [state EXCEPT ![run.s] = st]
    /\ numOutstandingPackets' = [numOutstandingPackets EXCEPT ![run.s] = 0]

DispatchNode ==
    /\ TakeNode("GET_DATACOUNTERS")
    /\ LidMap[nextLid] \in gotClassPortInfo
    /\ info' = [info EXCEPT ![run.s] = NoInfo]
    /\ numOutstandingNodes' = numOutstandingNodes + 1
    /\ run' = [run EXCEPT !.pc = "data", !.ret = "scan"]
    /\ UNCHANGED <<engine, main, postedEvent, sweepDone, FailedNodes, pkt, wire,
                   gotClassPortInfo, image, exhausted>>

\* PmSendGetClassPortInfo
QueryNode ==
    /\ TakeNode("CLASS_INFO")
    /\ LidMap[nextLid] \notin gotClassPortInfo
    /\ CanSend
    /\ info' = [info EXCEPT ![run.s] = NoInfo]
    /\ numOutstandingNodes' = numOutstandingNodes + 1
    /\ wire' = wire \cup {<<run.s, 0>>}
    /\ run' = Started
    /\ UNCHANGED <<engine, main, postedEvent, sweepDone, FailedNodes, pkt,
                   gotClassPortInfo, image, exhausted>>

\* Mutant: the caller counts the failed node as done a second time.
QueryNodeFailsTwice ==
    /\ TakeNode("DONE")
    /\ LidMap[nextLid] \notin gotClassPortInfo
    /\ CanFail
    /\ info' = [info EXCEPT ![run.s] = [NoInfo EXCEPT !.failed = TRUE]]
    /\ numOutstandingNodes' = numOutstandingNodes - 1
    /\ FailedNodes' = FailedNodes + 1
    /\ status' = Fail(portsOf[LidMap[nextLid]], "query")
    /\ UNCHANGED <<engine, main, run, postedEvent, sweepDone, pkt, wire,
                   gotClassPortInfo, got, over, exhausted>>

\* ... and its failure: PmFailNodeQuery and DispatchNodeDone.
QueryNodeFails ==
    /\ TakeNode("DONE")
    /\ LidMap[nextLid] \notin gotClassPortInfo
    /\ CanFail
    /\ info' = [info EXCEPT ![run.s] = [NoInfo EXCEPT !.failed = TRUE]]
    /\ FailedNodes' = FailedNodes + 1
    /\ status' = Fail(portsOf[LidMap[nextLid]], "query")
    /\ UNCHANGED <<engine, main, run, numOutstandingNodes, postedEvent, sweepDone, pkt,
                   wire, gotClassPortInfo, got, over, exhausted>>

\* DispatchNodeCallback
NodeCallback(s) ==
    /\ run.pc = "free" /\ <<s, 0>> \in wire
    /\ wire' = wire \ {<<s, 0>>}
    /\ \/ /\ gotClassPortInfo' = gotClassPortInfo \cup {pmnode[s]}
          /\ state' = [state EXCEPT ![s] = "GET_DATACOUNTERS"]
          /\ run' = [run EXCEPT !.pc = "data", !.s = s, !.ret = "nextnode"]
          /\ UNCHANGED <<info, status, numOutstandingNodes, FailedNodes>>
       \/ /\ info' = [info EXCEPT ![s].failed = TRUE]
          /\ status' = Fail(portsOf[pmnode[s]], "query")
          /\ state' = [state EXCEPT ![s] = "DONE"]
          /\ numOutstandingNodes' = numOutstandingNodes - 1
          /\ FailedNodes' = FailedNodes + 1
          /\ run' = [run EXCEPT !.pc = "nextnode", !.s = s]
          /\ UNCHANGED gotClassPortInfo
    /\ UNCHANGED <<engine, main, nextLid, postedEvent, sweepDone, pmnode,
                   numOutstandingPackets, pkt, got, over, exhausted>>

-----------------------------------------------------------------------------
(* Packets: DispatchNextPacket, MergePortIntoPacket, CalculatePortInPacket.*)

NumVLs(q) == Cardinality(VLSelectMask[q])

\* As numbers: the highest bit in which the masks differ is in b's.
SmallerMask(a, b) == \E v \in VLSelectMask[b] \ VLSelectMask[a] :
                       \A w \in VLSelectMask[a] \ VLSelectMask[b] : w < v

\* PmDispatcherSwitchPortDataCompare: more VLs first, then the smaller mask.
Before(a, b) == NumVLs(a) > NumVLs(b) \/ (NumVLs(a) = NumVLs(b) /\ SmallerMask(a, b))

\* The ports of T in an order that puts none behind one it is before in R.
Sorted(T, R) ==
    CHOOSE q \in [1 .. Cardinality(T) -> T] :
      \A i, j \in 1 .. Cardinality(T) : i < j => q[i] # q[j] /\ <<q[j], q[i]>> \notin R

\* activePorts without its skipped entries, which are sorted to the end.
ActivePorts(n) ==
    LET ports == portsOf[n] \cap active
    IN Sorted(ports, {x \in ports \X ports : Before(x[1], x[2])})
HasSkipped(n) == n \in Switch /\ portsOf[n] \ active # {}

\* The other two sorts, which keep the order of what compares equal.
First(ports, needed) ==
    LET T == {ports[i] : i \in 1 .. Len(ports)}
    IN Sorted(T, {x \in T \X T : \E i, j \in 1 .. Len(ports) :
                    /\ x = <<ports[i], ports[j]>>
                    /\ IF ports[i] \in needed THEN ports[j] \in needed => i < j
                                              ELSE ports[j] \notin needed /\ i < j})

\* numVLs of a packet is that of the first port it was ever filled from.
PacketVLs(s, p) ==
    IF pkt[s][p].numVLs = 0 /\ state[s] # "CLR_PORT_STATUS" /\ info[s].ports # <<>>
      THEN NumVLs(info[s].ports[1])
      ELSE pkt[s][p].numVLs

\* What is left of a packet that is not sent.
Numbered(s, p) == [ports |-> pkt[s][p].ports, VLSelectMask |-> pkt[s][p].VLSelectMask,
                   numVLs |-> PacketVLs(s, p)]

\* The size of a port in the MAD.
PortSize(s, p) == IF state[s] = "CLR_PORT_STATUS" THEN 0 ELSE PacketVLs(s, p)

\* A port goes with the first one of the packet if its VLs are among those
\* that one asks for; for clearing, if both clear the same counters.
Mergeable(s, acc, q) ==
    IF state[s] = "CLR_PORT_STATUS"
      THEN \A r \in acc.ports : r \in over <=> q \in over
      ELSE VLSelectMask[q] \subseteq acc.VLSelectMask

\* One port of the walk; full when it is looked at and has no room.
Merge(s, p, acc, q) ==
    LET size == PortSize(s, p) IN
    IF acc.full THEN acc
    ELSE IF Payload - size * Cardinality(acc.ports) <= size
      THEN [acc EXCEPT !.full = TRUE]
    ELSE IF q \in info[s].IsDispatched THEN acc
    ELSE IF acc.ports = {}
      THEN [acc EXCEPT !.ports = {q}, !.VLSelectMask = VLSelectMask[q]]
    ELSE IF Mergeable(s, acc, q) THEN [acc EXCEPT !.ports = @ \cup {q}]
    ELSE acc

Unfilled == [ports |-> {}, VLSelectMask |-> {}, full |-> FALSE]

\* The walk over activePorts.
Walked(s, p) ==
    LET walked[k \in 0 .. Len(info[s].ports)] ==
          IF k = 0 THEN Unfilled ELSE Merge(s, p, walked[k - 1], info[s].ports[k])
    IN walked

Merged(s, p) == Walked(s, p)[Len(info[s].ports)]

\* The ways DispatchNextPacket ends: "ok", "noport", or "notfound" (the send
\* failed, there is no memory, or the engine is stopping).
NextPacket(s, p, result) ==
    LET m == Merged(s, p) IN
    \/ /\ engine = "stopping"
       /\ result = "notfound"
       /\ UNCHANGED <<numOutstandingPackets, info, pkt, wire, status, exhausted>>
    \/ /\ engine = "started"
       /\ AllocFails /\ info[s].ports # <<>>
       /\ result = "notfound"
       /\ pkt' = [pkt EXCEPT ![s][p] = Numbered(s, p)]
       /\ exhausted' = TRUE
       /\ UNCHANGED <<numOutstandingPackets, info, wire, status>>
    \/ /\ engine = "started"
       /\ m.ports = {}
       /\ result = "noport"
       /\ pkt' = [pkt EXCEPT ![s][p] = Numbered(s, p)]
       /\ UNCHANGED <<numOutstandingPackets, info, wire, status, exhausted>>
    \/ /\ engine = "started"
       /\ m.ports # {}
       /\ CanSend
       /\ result = "ok"
       /\ pkt' = [pkt EXCEPT ![s][p] = [ports |-> m.ports, VLSelectMask |-> m.VLSelectMask,
                                       numVLs |-> PacketVLs(s, p)]]
       /\ info' = [info EXCEPT ![s].IsDispatched = @ \cup m.ports]
       /\ numOutstandingPackets' = [numOutstandingPackets EXCEPT ![s] = @ + 1]
       /\ wire' = wire \cup {<<s, p>>}
       /\ UNCHANGED <<status, exhausted>>
    \/ /\ engine = "started"
       /\ m.ports # {}
       /\ CanFail
       /\ result = IF HasSkipped(pmnode[s]) /\ ~m.full THEN "noport" ELSE "notfound"
       /\ pkt' = [pkt EXCEPT ![s][p] = Numbered(s, p)]
       /\ info' = [info EXCEPT ![s].IsDispatched = @ \cup m.ports, ![s].failed = TRUE]
       /\ status' = Fail(m.ports, Why(s))
       /\ UNCHANGED <<numOutstandingPackets, wire, exhausted>>

-----------------------------------------------------------------------------
(* DispatchNodeNextStep.                                                   *)

\* Mutant: the node stays outstanding.
NodeDoneUncounted(s) ==
    /\ info' = [info EXCEPT ![s] = [NoInfo EXCEPT !.failed = info[s].failed]]
    /\ state' = [state EXCEPT ![s] = "DONE"]
    /\ FailedNodes' = FailedNodes + (IF info[s].failed THEN 1 ELSE 0)
    /\ run' = [run EXCEPT !.pc = run.ret]
    /\ UNCHANGED numOutstandingNodes

\* Mutant: failed is cleared before it is looked at.
NodeDoneForgets(s) ==
    /\ info' = [info EXCEPT ![s] = NoInfo]
    /\ state' = [state EXCEPT ![s] = "DONE"]
    /\ numOutstandingNodes' = numOutstandingNodes - 1
    /\ FailedNodes' = FailedNodes + (IF info'[s].failed THEN 1 ELSE 0)
    /\ run' = [run EXCEPT !.pc = run.ret]

\* DispatchNodeDone, which frees activePorts, and on with another node.
NodeDone(s) ==
    /\ info' = [info EXCEPT ![s] = [NoInfo EXCEPT !.failed = info[s].failed]]
    /\ state' = [state EXCEPT ![s] = "DONE"]
    /\ numOutstandingNodes' = numOutstandingNodes - 1
    /\ FailedNodes' = FailedNodes + (IF info[s].failed THEN 1 ELSE 0)
    /\ run' = [run EXCEPT !.pc = run.ret]

StartData ==
    /\ run.pc = "data"
    /\ \/ /\ info' = [info EXCEPT ![run.s].ports = ActivePorts(pmnode[run.s])]
          /\ run' = [run EXCEPT !.pc = "ports", !.p = 1]
          /\ UNCHANGED exhausted
       \/ /\ AllocFails
          /\ exhausted' = TRUE
          /\ run' = [run EXCEPT !.pc = run.ret]
          /\ UNCHANGED info
    /\ UNCHANGED <<engine, main, sweep, pmnode, state, numOutstandingPackets, pkt, wire,
                   gotClassPortInfo, image>>

\* The loop of DispatcherStartSweepAllPorts.  It returns the number of packets
\* in flight; with none, the node goes on to its next state.
StartPorts ==
    /\ run.pc = "ports"
    /\ \/ /\ run.p > PmaBatchSize
          /\ run' = Started
          /\ UNCHANGED <<numOutstandingPackets, info, pkt, wire, status, exhausted>>
       \/ /\ run.p <= PmaBatchSize
          /\ \/ NextPacket(run.s, run.p, "ok") /\ run' = [run EXCEPT !.p = @ + 1]
             \/ NextPacket(run.s, run.p, "notfound") /\ UNCHANGED run
             \/ /\ NextPacket(run.s, run.p, "noport")
                /\ run' = IF run.p > 1 THEN Started ELSE [run EXCEPT !.pc = "next"]
    /\ UNCHANGED <<engine, main, sweep, pmnode, state, gotClassPortInfo, got, over>>

\* All packets of a state are done.
GetErrorCounters ==
    /\ run.pc = "next"
    /\ state[run.s] = "GET_DATACOUNTERS"
    /\ info[run.s].NeedsError # {}
    /\ state' = [state EXCEPT ![run.s] = "GET_ERRORCOUNTERS"]
    /\ info' = [info EXCEPT ![run.s].ports = First(@, info[run.s].NeedsError),
                            ![run.s].IsDispatched = @ \ info[run.s].NeedsError]
    /\ run' = [run EXCEPT !.pc = "ports", !.p = 1]
    /\ UNCHANGED <<engine, main, sweep, pmnode, numOutstandingPackets, pkt, wire,
                   gotClassPortInfo, image, exhausted>>

\* PmTabulatePort looks at the stored counters of every active port.
ToClear(s) == {q \in portsOf[pmnode[s]] \cap active : q \in over}

Tabulated(s) ==
    \/ state[s] = "GET_DATACOUNTERS" /\ info[s].NeedsError = {}
    \/ state[s] = "GET_ERRORCOUNTERS"

ClearPortStatus ==
    /\ run.pc = "next"
    /\ Tabulated(run.s)
    /\ ToClear(run.s) # {}
    /\ state' = [state EXCEPT ![run.s] = "CLR_PORT_STATUS"]
    /\ info' = [info EXCEPT ![run.s].ports = First(@, ToClear(run.s)),
                            ![run.s].IsDispatched = @ \ ToClear(run.s)]
    /\ run' = [run EXCEPT !.pc = "ports", !.p = 1]
    /\ UNCHANGED <<engine, main, sweep, pmnode, numOutstandingPackets, pkt, wire,
                   gotClassPortInfo, image, exhausted>>

NodeIsDone ==
    /\ run.pc = "next"
    /\ \/ Tabulated(run.s) /\ ToClear(run.s) = {}
       \/ state[run.s] = "CLR_PORT_STATUS"
    /\ NodeDone(run.s)
    /\ UNCHANGED <<engine, main, nextLid, postedEvent, sweepDone, pmnode,
                   numOutstandingPackets, pkt, wire, gotClassPortInfo, image, exhausted>>

-----------------------------------------------------------------------------
(* DispatchPacketCallback, up to nextpacket: and after it.                 *)

\* Stored counters of these ports are replaced.
CountersRead(ports, kinds) ==
    /\ got' = [q \in Port |-> IF q \in ports THEN got[q] \cup kinds ELSE got[q]]
    /\ \E high \in SUBSET (ports \cap Busy) : over' = (over \ ports) \cup high

PacketCallback(s, p) ==
    LET ports == pkt[s][p].ports IN
    /\ run.pc = "free" /\ <<s, p>> \in wire
    /\ wire' = wire \ {<<s, p>>}
    /\ numOutstandingPackets' = [numOutstandingPackets EXCEPT ![s] = @ - 1]
    /\ pkt' = [pkt EXCEPT ![s][p] = [ports |-> {}, VLSelectMask |-> pkt[s][p].VLSelectMask,
                                    numVLs |-> pkt[s][p].numVLs]]
    /\ run' = [run EXCEPT !.pc = "packet", !.s = s, !.p = p, !.ret = "nextnode"]
    /\ \/ /\ state[s] = "GET_DATACOUNTERS"
          /\ IF pmnode[s] \in Switch
               THEN /\ CountersRead(ports, {"data"})
                    /\ \E errors \in SUBSET ports :
                         info' = [info EXCEPT ![s].NeedsError = @ \cup errors]
               ELSE CountersRead(ports, {"data", "error"}) /\ UNCHANGED info
          /\ UNCHANGED status
       \/ /\ state[s] = "GET_ERRORCOUNTERS"
          /\ CountersRead(ports, {"error"})
          /\ UNCHANGED <<info, status>>
       \/ /\ state[s] = "CLR_PORT_STATUS"
          /\ UNCHANGED <<info, image>>
       \/ /\ info' = [info EXCEPT ![s].failed = TRUE]
          /\ status' = Fail(ports, Why(s))
          /\ UNCHANGED <<got, over>>
    /\ UNCHANGED <<engine, main, sweep, pmnode, state, gotClassPortInfo, exhausted>>

PacketNext ==
    /\ run.pc = "packet"
    /\ \/ NextPacket(run.s, run.p, "ok") /\ run' = [run EXCEPT !.pc = "free"]
       \/ /\ \E result \in {"noport", "notfound"} : NextPacket(run.s, run.p, result)
          /\ run' = [run EXCEPT !.pc = IF numOutstandingPackets[run.s] > 0 THEN "free"
                                                                           ELSE "next"]
    /\ UNCHANGED <<engine, main, sweep, pmnode, state, gotClassPortInfo, got, over>>

-----------------------------------------------------------------------------
\* A thread that holds the lock goes on.
Run == \/ StartNodes \/ NextNode \/ ScanEnd \/ ScanSkip
       \/ DispatchNode \/ QueryNode \/ QueryNodeFails
       \/ StartData \/ StartPorts \/ GetErrorCounters \/ ClearPortStatus \/ NodeIsDone
       \/ PacketNext

Callback == \E s \in Slot : NodeCallback(s) \/ \E p \in Packet : PacketCallback(s, p)

Next == SweepBegin \/ SweepEnd \/ EngineStop \/ Run \/ Callback

Spec == Init /\ [][Next]_vars

\* The threads go on, and every request is called back in the end: this is
\* CalledBack of CsContext.
FairSpec ==
    /\ Spec
    /\ WF_vars(Run)
    /\ WF_vars(SweepEnd)
    /\ \A s \in Slot : WF_vars(NodeCallback(s))
    /\ \A s \in Slot : \A p \in Packet : WF_vars(PacketCallback(s, p))

-----------------------------------------------------------------------------
PCs == {"free", "nodes", "nextnode", "scan", "data", "ports", "next", "packet"}

TypeOK ==
    /\ engine \in {"started", "stopping"}
    /\ main \in {"idle", "starting", "waiting", "stopped"}
    /\ run \in [pc : PCs, s : 1 .. MaxParallelNodes + 1, p : 1 .. PmaBatchSize + 1,
                ret : {"scan", "nextnode"}]
    /\ nextLid \in 1 .. maxLid + 1
    /\ numOutstandingNodes \in Nat /\ FailedNodes \in Nat
    /\ postedEvent \in BOOLEAN /\ sweepDone \in BOOLEAN
    /\ pmnode \in [Slot -> Node \cup {None}]
    /\ state \in [Slot -> Working \cup {"NONE", "DONE"}]
    /\ numOutstandingPackets \in [Slot -> 0 .. PmaBatchSize]
    /\ DOMAIN info = Slot /\ DOMAIN pkt = Slot
    /\ wire \subseteq Slot \X (0 .. PmaBatchSize)
    /\ gotClassPortInfo \subseteq Node
    /\ status \in [Port -> {"ok", "skip", "query", "clear"}]
    /\ got \in [Port -> SUBSET {"data", "error"}]
    /\ over \subseteq Port
    /\ exhausted \in BOOLEAN

InWork == {s \in Slot : state[s] \in Working}

(* The counts that decide when a node and when the sweep is over agree     *)
(* with what is in flight (numOutstandingNodes, numOutstandingPackets):    *)
(* a callback never finds its node in another state than it was sent in.   *)
Accounting ==
    /\ numOutstandingNodes >= Cardinality(InWork)
    /\ ~exhausted => numOutstandingNodes = Cardinality(InWork)
    /\ \A s \in Slot :
         /\ numOutstandingPackets[s] = Cardinality({p \in Packet : <<s, p>> \in wire})
         /\ <<s, 0>> \in wire => state[s] = "CLASS_INFO"
         /\ \A p \in Packet : <<s, p>> \in wire =>
              /\ state[s] \in Working \ {"CLASS_INFO"}
              /\ pkt[s][p].ports # {}

(* "Since entry pool is pre-sized errors allocating the entry are          *)
(* unexpected" (pm_dispatch.c:365): whenever a request is about to be sent *)
(* the context has an entry for it.                                        *)
ContextsSuffice ==
    run.pc \in {"scan", "ports", "packet"} /\ run.p <= PmaBatchSize => CanSend

(* No port is in two packets at once, no node in two slots.                *)
NoDoubleQuery ==
    /\ \A s \in Slot : \A p1, p2 \in Packet :
         pkt[s][p1].ports \cap pkt[s][p2].ports # {} => p1 = p2
    /\ \A s1, s2 \in Slot :
         state[s1] \in Working /\ state[s2] \in Working /\ pmnode[s1] = pmnode[s2] => s1 = s2

(* sweepDone wakes the engine thread when the sweep is over and not        *)
(* before: no packet in flight, no node in work, no lid left; an event of  *)
(* one sweep is not taken for the end of the next one                      *)
(* (DispatchNextNode, "be sure we only post event once per sweep").        *)
EventAtEnd ==
    sweepDone => /\ main \in {"starting", "waiting"}
                 /\ wire = {}
                 /\ \A s \in Slot : state[s] \notin Working
                 /\ nextLid > maxLid \/ engine = "stopping"

Nodes == {LidMap[l] : l \in 1 .. maxLid} \ ({None} \cup PmaAvoid)

(* When a sweep is over, a node with a port whose counters are missing has *)
(* a failed port, and FailedNodes counts every such node once              *)
(* (DispatchNodeDone: "we will only increment once even if multiple ports  *)
(* fail in the same node").                                                *)
FailuresReported ==
    sweepDone /\ engine = "started" /\ ~exhausted =>
      LET failed == {n \in Nodes : \E q \in portsOf[n] : status[q] # "ok"} IN
      /\ FailedNodes = Cardinality(failed)
      /\ \A n \in Nodes \ failed : \A q \in portsOf[n] \cap active : "data" \in got[q]

(* PmSweepAllPortCounters returns, unless the engine is told to stop or    *)
(* there was no memory for activePorts.                                    *)
SweepEnds == main = "waiting" ~> main # "waiting" \/ engine = "stopping" \/ exhausted
=============================================================================
