--------------------------- MODULE PmDispatchProofs ---------------------------
(***************************************************************************)
(* Proofs, for any fabric, any number of nodes and packets in parallel and *)
(* any failures, that the counts of the dispatcher agree with what is in   *)
(* flight, that the pool of the context suffices, and that sweepDone is    *)
(* posted at the end of a sweep and not before.                            *)
(***************************************************************************)
EXTENDS PmDispatch, FiniteSetTheorems, TLAPS

\* Nothing of the slot is in flight.
Quiet(s) == \A p \in 0 .. PmaBatchSize : <<s, p>> \notin wire

\* What the thread that holds the lock knows about the slot it works on.
AtWork ==
    /\ run.pc \notin {"free", "nodes"} => run.s \in Slot
    /\ run.pc \in {"data", "ports", "next", "packet"} =>
         state[run.s] \in Working \ {"CLASS_INFO"}
    /\ run.pc \in {"nextnode", "scan", "data", "next"} => Quiet(run.s)
    /\ run.pc \in {"nextnode", "scan"} /\ ~exhausted => state[run.s] \notin Working
    /\ run.pc = "ports" => \A p \in Packet : p >= run.p => <<run.s, p>> \notin wire
    /\ run.pc = "packet" => run.p \in Packet /\ <<run.s, run.p>> \notin wire

\* Where the engine thread is: the slots it has still to start are unused.
Engine ==
    /\ main = "starting" =>
         /\ run.pc \notin {"free", "packet"}
         /\ \A s \in Slot : s > run.s \/ (run.pc = "nodes" /\ s = run.s) =>
              Quiet(s) /\ (~exhausted => state[s] \notin Working)
    /\ main \in {"idle", "stopped"} =>
         run.pc = "free" /\ wire = {} /\ ~sweepDone /\ InWork = {}
    /\ main = "waiting" => run.pc # "nodes"
    /\ sweepDone => \/ run.pc = "free"
                    \/ main = "starting" /\ run.pc = "nodes"
                    \/ main = "starting" /\ run.pc = "nextnode" /\ engine = "stopping"

\* The tables have their domains, and a slot in work holds a node.
Tables ==
    /\ \A s \in Slot : DOMAIN pkt[s] = Packet
    /\ \A s \in Slot : state[s] \in Working => pmnode[s] \in Node

IInv == TypeOK /\ Accounting /\ EventAtEnd /\ AtWork /\ Engine /\ Tables

PacketsOf(W, s) == {p \in Packet : <<s, p>> \in W}

\* The part of Accounting that is about packets.
InFlight ==
    \A s \in Slot :
      /\ numOutstandingPackets[s] = Cardinality({p \in Packet : <<s, p>> \in wire})
      /\ <<s, 0>> \in wire => state[s] = "CLASS_INFO"
      /\ \A p \in Packet : <<s, p>> \in wire =>
           /\ state[s] \in Working \ {"CLASS_INFO"}
           /\ pkt[s][p].ports # {}

-----------------------------------------------------------------------------
\* Counting slots and packets.
LEMMA Finite ==
    /\ IsFiniteSet(Slot) /\ Cardinality(Slot) = MaxParallelNodes
    /\ IsFiniteSet(Packet) /\ Cardinality(Packet) = PmaBatchSize
<1>1. MaxParallelNodes \in Int /\ PmaBatchSize \in Int /\ 1 \in Int
      /\ MaxParallelNodes >= 1 /\ PmaBatchSize >= 1
  BY PmAssumption
<1>2. IsFiniteSet(Slot) /\ Cardinality(Slot) = MaxParallelNodes
  BY <1>1, FS_Interval DEF Slot
<1>3. IsFiniteSet(Packet) /\ Cardinality(Packet) = PmaBatchSize
  BY <1>1, FS_Interval DEF Packet
<1> QED BY <1>2, <1>3

\* A slot more or less in a set of slots is one more or less in its count.
LEMMA CountSlots ==
    ASSUME NEW S \in SUBSET Slot, NEW s \in Slot
    PROVE  /\ Cardinality(S) \in Nat
           /\ s \notin S => Cardinality(S \cup {s}) = Cardinality(S) + 1
           /\ s \in S => Cardinality(S \ {s}) = Cardinality(S) - 1 /\ Cardinality(S) >= 1
<1>1. IsFiniteSet(S)
  BY Finite, FS_Subset
<1>2. Cardinality(S) \in Nat
  BY <1>1, FS_CardinalityType
<1>3. s \notin S => Cardinality(S \cup {s}) = Cardinality(S) + 1
  BY <1>1, FS_AddElement
<1>4. s \in S => Cardinality(S \ {s}) = Cardinality(S) - 1 /\ Cardinality(S) >= 1
  <2>1. IsFiniteSet(S \ {s}) /\ (s \in S => Cardinality(S \ {s}) = Cardinality(S) - 1)
    BY <1>1, FS_RemoveElement, FS_Subset
  <2>2. Cardinality(S \ {s}) \in Nat
    BY <2>1, FS_CardinalityType
  <2> QED BY <1>2, <2>1, <2>2
<1> QED BY <1>2, <1>3, <1>4

\* The packets of a slot are at most PmaBatchSize, and none when the count is 0.
LEMMA CountPackets ==
    ASSUME NEW W, NEW s \in Slot
    PROVE  /\ Cardinality(PacketsOf(W, s)) \in 0 .. PmaBatchSize
           /\ Cardinality(PacketsOf(W, s)) = 0 => PacketsOf(W, s) = {}
<1>1. PacketsOf(W, s) \subseteq Packet
  BY DEF PacketsOf
<1>2. /\ IsFiniteSet(PacketsOf(W, s))
      /\ Cardinality(PacketsOf(W, s)) <= PmaBatchSize
  BY <1>1, Finite, FS_Subset
<1>3. Cardinality(PacketsOf(W, s)) \in Nat
  BY <1>2, FS_CardinalityType
<1>4. Cardinality(PacketsOf(W, s)) = 0 => PacketsOf(W, s) = {}
  BY <1>2, FS_EmptySet
<1> QED BY <1>2, <1>3, <1>4, PmAssumption

\* Sending a packet adds one to the count of its slot and to no other.
LEMMA SendPacket ==
    ASSUME NEW W, NEW s \in Slot, NEW p \in Packet, <<s, p>> \notin W
    PROVE  /\ Cardinality(PacketsOf(W \cup {<<s, p>>}, s)) = Cardinality(PacketsOf(W, s)) + 1
           /\ \A t \in Slot \ {s} : PacketsOf(W \cup {<<s, p>>}, t) = PacketsOf(W, t)
<1>1. PacketsOf(W \cup {<<s, p>>}, s) = PacketsOf(W, s) \cup {p} /\ p \notin PacketsOf(W, s)
  BY DEF PacketsOf
<1>2. IsFiniteSet(PacketsOf(W, s))
  BY Finite, FS_Subset, Zenon DEF PacketsOf
<1>3. Cardinality(PacketsOf(W, s) \cup {p}) = Cardinality(PacketsOf(W, s)) + 1
  BY <1>1, <1>2, FS_AddElement, Zenon
<1>4. \A t \in Slot \ {s} : PacketsOf(W \cup {<<s, p>>}, t) = PacketsOf(W, t)
  BY DEF PacketsOf
<1> QED BY <1>1, <1>3, <1>4, Zenon

\* The callback of a packet takes one from the count of its slot and from no other.
LEMMA EndPacket ==
    ASSUME NEW W, NEW s \in Slot, NEW p \in Packet, <<s, p>> \in W
    PROVE  /\ Cardinality(PacketsOf(W \ {<<s, p>>}, s)) = Cardinality(PacketsOf(W, s)) - 1
           /\ \A t \in Slot \ {s} : PacketsOf(W \ {<<s, p>>}, t) = PacketsOf(W, t)
<1>1. PacketsOf(W \ {<<s, p>>}, s) = PacketsOf(W, s) \ {p} /\ p \in PacketsOf(W, s)
  BY DEF PacketsOf
<1>2. IsFiniteSet(PacketsOf(W, s))
  BY Finite, FS_Subset, Zenon DEF PacketsOf
<1>3. Cardinality(PacketsOf(W, s) \ {p}) = Cardinality(PacketsOf(W, s)) - 1
  BY <1>1, <1>2, FS_RemoveElement, Zenon
<1>4. \A t \in Slot \ {s} : PacketsOf(W \ {<<s, p>>}, t) = PacketsOf(W, t)
  BY DEF PacketsOf
<1> QED BY <1>1, <1>3, <1>4

\* The query of a node is no packet.
LEMMA NodeQuery ==
    ASSUME NEW W, NEW s \in Slot
    PROVE  \A t \in Slot : /\ PacketsOf(W \cup {<<s, 0>>}, t) = PacketsOf(W, t)
                           /\ PacketsOf(W \ {<<s, 0>>}, t) = PacketsOf(W, t)
BY PmAssumption DEF PacketsOf, Packet

\* The sizes of the dispatcher's tables are positive.
LEMMA ConstantFacts ==
    /\ MaxParallelNodes \in Nat /\ MaxParallelNodes >= 1
    /\ PmaBatchSize \in Nat /\ PmaBatchSize >= 1
    /\ maxLid \in Nat
    /\ \A l \in 1 .. maxLid : LidMap[l] \in Node \cup {None}
BY PmAssumption DEF maxLid

-----------------------------------------------------------------------------
\* The invariant holds before the first sweep.
LEMMA InitInv == Init => IInv
<1> SUFFICES ASSUME Init PROVE IInv
  OBVIOUS
<1> USE ConstantFacts DEF Init
<1>1. InWork = {} /\ Cardinality(InWork) = 0
  <2>1. InWork = {}
    BY DEF InWork, Working
  <2> QED BY <2>1, FS_EmptySet
<1>2. \A s \in Slot : Cardinality({p \in Packet : <<s, p>> \in wire}) = 0
  <2>1. \A s \in Slot : {p \in Packet : <<s, p>> \in wire} = {}
    OBVIOUS
  <2> QED BY <2>1, FS_EmptySet, Zenon
<1>3. TypeOK
  <2>1. run \in [pc : PCs, s : 1 .. MaxParallelNodes + 1, p : 1 .. PmaBatchSize + 1,
                 ret : {"scan", "nextnode"}]
    BY DEF PCs
  <2>2. state \in [Slot -> Working \cup {"NONE", "DONE"}] /\ pmnode \in [Slot -> Node \cup {None}]
    OBVIOUS
  <2>3. numOutstandingPackets \in [Slot -> 0 .. PmaBatchSize]
    OBVIOUS
  <2>4. got \in [Port -> SUBSET {"data", "error"}]
    OBVIOUS
  <2>5. nextLid \in 1 .. maxLid + 1
    OBVIOUS
  <2> QED BY <2>1, <2>2, <2>3, <2>4, <2>5, Zenon DEF TypeOK
<1>4. Accounting
  <2>1. numOutstandingNodes = 0 /\ wire = {} /\ \A s \in Slot : numOutstandingPackets[s] = 0
    OBVIOUS
  <2> HIDE DEF Init
  <2> QED BY <1>1, <1>2, <2>1 DEF Accounting
<1>5. EventAtEnd /\ AtWork /\ Tables
  <2>1. EventAtEnd
    BY DEF EventAtEnd
  <2>2. AtWork
    BY DEF AtWork
  <2>3. \A s \in Slot : DOMAIN pkt[s] = Packet
    OBVIOUS
  <2> QED BY <2>1, <2>2, <2>3 DEF Tables, Working
<1>6. Engine
  BY <1>1 DEF Engine
<1> QED BY <1>3, <1>4, <1>5, <1>6 DEF IInv

\* A sweep begins with nothing in flight.
LEMMA SweepBeginInv == ASSUME IInv, SweepBegin PROVE IInv'
<1> USE ConstantFacts DEF IInv, SweepBegin
<1>1. wire = {} /\ ~sweepDone
  BY DEF Engine
<1>2. InWork' = {} /\ Cardinality(InWork') = 0
  <2>1. InWork' = {}
    BY DEF InWork, Working
  <2> QED BY <2>1, FS_EmptySet
<1>3. TypeOK'
  <2>1. run' \in [pc : PCs, s : 1 .. MaxParallelNodes + 1, p : 1 .. PmaBatchSize + 1,
                  ret : {"scan", "nextnode"}]
    <3>1. run' = [run EXCEPT !.pc = "nodes", !.s = 1] /\ 1 \in 1 .. MaxParallelNodes + 1
      OBVIOUS
    <3>2. run \in [pc : PCs, s : 1 .. MaxParallelNodes + 1, p : 1 .. PmaBatchSize + 1,
                   ret : {"scan", "nextnode"}]
      BY DEF TypeOK
    <3> HIDE DEF SweepBegin, IInv
    <3> QED BY <3>1, <3>2, Zenon DEF PCs
  <2>2. state' \in [Slot -> Working \cup {"NONE", "DONE"}] /\ pmnode' \in [Slot -> Node \cup {None}]
    OBVIOUS
  <2>3. status' \in [Port -> {"ok", "skip", "query", "clear"}] /\ got' \in [Port -> SUBSET {"data", "error"}]
    OBVIOUS
  <2>4. nextLid' \in 1 .. maxLid + 1
    OBVIOUS
  <2> QED BY <2>1, <2>2, <2>3, <2>4, Zenon DEF TypeOK
<1>4. Accounting'
  BY <1>1, <1>2 DEF Accounting
<1>5. EventAtEnd' /\ Tables' /\ AtWork'
  BY <1>1 DEF EventAtEnd, Tables, Working, AtWork, TypeOK
<1>6. Engine'
  BY <1>1 DEF Engine, Quiet, Working, TypeOK
<1> QED BY <1>3, <1>4, <1>5, <1>6

\* The steps of the engine thread between two slots.
LEMMA EngineInv == ASSUME IInv, StartNodes \/ SweepEnd \/ EngineStop PROVE IInv'
<1> USE ConstantFacts DEF IInv
<1>1. UNCHANGED <<numOutstandingNodes, pmnode, state, numOutstandingPackets, pkt, wire, exhausted>>
  BY DEF StartNodes, SweepEnd, EngineStop, sweep
<1>2. TypeOK'
  <2>1. CASE StartNodes
    BY <2>1 DEF StartNodes, TypeOK, sweep, image, PCs
  <2>2. CASE SweepEnd
    BY <2>2, Zenon DEF SweepEnd, TypeOK, sweep, image
  <2>3. CASE EngineStop
    BY <2>3 DEF EngineStop, TypeOK, sweep, image
  <2> QED BY <2>1, <2>2, <2>3
<1>3. Accounting' /\ Tables' /\ InWork' = InWork
  BY <1>1 DEF Accounting, Tables, InWork
<1>4. EventAtEnd'
  <2>1. CASE StartNodes
    BY <2>1, <1>1 DEF StartNodes, EventAtEnd, sweep, Engine, TypeOK
  <2>2. CASE SweepEnd
    BY <2>2 DEF SweepEnd, EventAtEnd
  <2>3. CASE EngineStop
    BY <2>3, <1>1 DEF EngineStop, EventAtEnd, sweep
  <2> QED BY <2>1, <2>2, <2>3
<1>5. \A s \in Slot : Quiet(s)' <=> Quiet(s)
  BY <1>1 DEF Quiet
<1>6. AtWork'
  <2>1. CASE StartNodes
    <3>1. CASE run.s <= MaxParallelNodes /\ nextLid <= maxLid
      <4>1. main = "starting" /\ run.s \in Slot
        BY <2>1, <3>1 DEF StartNodes, Engine, TypeOK, Slot
      <4>2. Quiet(run.s) /\ (~exhausted => state[run.s] \notin Working)
        BY <2>1, <4>1 DEF StartNodes, Engine
      <4>3. run'.pc = "nextnode" /\ run'.s = run.s
        BY <2>1, <3>1 DEF StartNodes, TypeOK
      <4> QED BY <4>1, <4>2, <4>3, <1>1, Zenon DEF AtWork, Quiet
    <3>2. CASE ~(run.s <= MaxParallelNodes /\ nextLid <= maxLid)
      <4>1. run'.pc = "free"
        BY <2>1, <3>2, Zenon DEF StartNodes, TypeOK
      <4> QED BY <4>1 DEF AtWork
    <3> QED BY <3>1, <3>2, Zenon
  <2>2. CASE SweepEnd \/ EngineStop
    BY <2>2, <1>1 DEF SweepEnd, EngineStop, AtWork, Quiet
  <2> QED BY <2>1, <2>2
<1>7. Engine'
  <2>1. CASE StartNodes
    <3>1. main = "starting" /\ run.pc = "nodes"
      BY <2>1 DEF StartNodes, Engine, TypeOK
    <3>2. CASE run.s <= MaxParallelNodes /\ nextLid <= maxLid
      <4>1. run'.pc = "nextnode" /\ run'.s = run.s /\ main' = main
        BY <2>1, <3>2 DEF StartNodes, TypeOK
      <4>2. sweepDone => engine = "stopping"
        BY <3>2 DEF EventAtEnd, TypeOK
      <4> QED BY <2>1, <3>1, <4>1, <4>2, <1>1, <1>5 DEF Engine, StartNodes, sweep
    <3>3. CASE ~(run.s <= MaxParallelNodes /\ nextLid <= maxLid)
      <4>1. run'.pc = "free" /\ main' = "waiting"
        BY <2>1, <3>3 DEF StartNodes, TypeOK
      <4> QED BY <4>1 DEF Engine
    <3> QED BY <3>2, <3>3
  <2>2. CASE SweepEnd
    <3>1. run.pc = "free" /\ wire = {} /\ InWork = {}
      BY <2>2 DEF SweepEnd, Engine, EventAtEnd, InWork
    <3>2. main' \in {"idle", "stopped"} /\ run' = run /\ ~sweepDone' /\ wire' = wire
      BY <2>2 DEF SweepEnd
    <3> QED BY <3>1, <3>2, <1>3, Zenon DEF Engine
  <2>3. CASE EngineStop
    <3>1. run' = run /\ sweepDone' = sweepDone /\ engine' = "stopping"
      BY <2>3 DEF EngineStop, sweep
    <3>2. main' = main \/ (main = "idle" /\ main' = "stopped")
      BY <2>3 DEF EngineStop
    <3> QED BY <3>1, <3>2, <1>1, <1>3, <1>5, Zenon DEF Engine
  <2> QED BY <2>1, <2>2, <2>3
<1> QED BY <1>2, <1>3, <1>4, <1>6, <1>7

-----------------------------------------------------------------------------
\* No node is left to start.  If no node is in work either, nothing is in
\* flight, so the event is posted at the end.
LEMMA NoNextNodeInv ==
    ASSUME IInv, run.pc \in {"nextnode", "scan"}, nextLid > maxLid \/ engine = "stopping",
           run.pc = "scan" => nextLid > maxLid, NoNextNode,
           UNCHANGED <<engine, main, nextLid, numOutstandingNodes, FailedNodes, pmnode, state,
                       numOutstandingPackets, info, pkt, wire, gotClassPortInfo, image, exhausted>>
    PROVE  IInv'
<1> USE ConstantFacts DEF IInv
<1>1. run' = [run EXCEPT !.pc = IF main = "starting" THEN "nodes" ELSE "free"]
  BY DEF NoNextNode
<1>2. run'.pc = (IF main = "starting" THEN "nodes" ELSE "free") /\ run'.s = run.s
  BY <1>1, Zenon DEF TypeOK
<1>3. main \in {"starting", "waiting"} /\ run.s \in Slot
  BY DEF TypeOK, Engine, AtWork
<1>4. TypeOK'
  BY <1>1, Zenon DEF TypeOK, NoNextNode, image, PCs
<1>5. Accounting' /\ Tables' /\ InWork' = InWork
  <2>1. InWork' = InWork
    BY Zenon DEF InWork
  <2>2. Tables'
    BY DEF Tables
  <2>3. InFlight'
    BY Zenon DEF Accounting, InFlight
  <2>4. /\ numOutstandingNodes' >= Cardinality(InWork')
        /\ ~exhausted' => numOutstandingNodes' = Cardinality(InWork')
    BY <2>1 DEF Accounting
  <2> QED BY <2>1, <2>2, <2>3, <2>4 DEF Accounting, InFlight
<1>6. sweepDone' => sweepDone \/ (wire = {} /\ InWork = {})
  <2> SUFFICES ASSUME numOutstandingNodes = 0 PROVE wire = {} /\ InWork = {}
    BY Zenon DEF NoNextNode
  <2>1. InWork \in SUBSET Slot
    BY DEF InWork
  <2>2. IsFiniteSet(InWork)
    BY <2>1, Finite, FS_Subset
  <2>3. Cardinality(InWork) = 0
    <3>1. Cardinality(InWork) \in Nat
      BY <2>2, FS_CardinalityType
    <3>2. 0 >= Cardinality(InWork)
      BY DEF Accounting
    <3> QED BY <3>1, <3>2
  <2>4. InWork = {}
    BY <2>2, <2>3, FS_EmptySet
  <2>5. \A s \in Slot : \A p \in 0 .. PmaBatchSize : <<s, p>> \notin wire
    <3> SUFFICES ASSUME NEW s \in Slot, NEW p \in 0 .. PmaBatchSize, <<s, p>> \in wire PROVE FALSE
      BY Zenon
    <3>1. p = 0 \/ p \in Packet
      BY DEF Packet
    <3>2. state[s] \in Working
      BY <3>1, Zenon DEF Accounting, Working
    <3> QED BY <2>4, <3>2 DEF InWork
  <2> QED BY <2>4, <2>5 DEF TypeOK
<1>7. EventAtEnd'
  BY <1>3, <1>6 DEF EventAtEnd, InWork
<1>8. AtWork'
  BY <1>2 DEF AtWork
<1>9. Engine'
  <2>1. CASE main = "starting"
    <3>1. Quiet(run.s) /\ (~exhausted => state[run.s] \notin Working)
      BY DEF AtWork
    <3> QED BY <1>2, <2>1, <3>1 DEF Engine, Quiet
  <2>2. CASE main = "waiting"
    BY <1>2, <2>2 DEF Engine
  <2> QED BY <1>3, <2>1, <2>2
<1> QED BY <1>4, <1>5, <1>7, <1>8, <1>9, Zenon

\* Looking for the next node keeps the invariant.
LEMMA ScanInv == ASSUME IInv, NextNode \/ ScanEnd \/ ScanSkip PROVE IInv'
<1> USE ConstantFacts DEF IInv
<1>1. CASE NextNode /\ engine = "stopping"
  BY <1>1, NoNextNodeInv, Zenon DEF NextNode
<1>2. CASE ScanEnd
  BY <1>2, NoNextNodeInv DEF ScanEnd
<1>3. CASE NextNode /\ engine = "started"
  <2>1. run' = [run EXCEPT !.pc = "scan"] /\ run.pc = "nextnode"
        /\ UNCHANGED <<engine, main, sweep, pmnode, state, numOutstandingPackets, info, pkt, wire,
                       gotClassPortInfo, image, exhausted>>
    BY <1>3 DEF NextNode
  <2>2. run'.pc = "scan" /\ run'.s = run.s
    BY <2>1 DEF TypeOK
  <2>3. TypeOK'
    BY <2>1 DEF TypeOK, PCs, sweep, image
  <2>4. Accounting' /\ Tables' /\ EventAtEnd' /\ InWork' = InWork
    BY <2>1, Zenon DEF Accounting, Tables, InWork, EventAtEnd, sweep
  <2>5. AtWork'
    BY <2>1, <2>2 DEF AtWork, Quiet
  <2>6. Engine'
    BY <2>1, <2>2, <2>4, <1>3, Zenon DEF Engine, Quiet, sweep
  <2> QED BY <2>3, <2>4, <2>5, <2>6, Zenon
<1>4. CASE ScanSkip
  <2>1. UNCHANGED <<engine, main, run, numOutstandingNodes, postedEvent, sweepDone, FailedNodes,
                    pmnode, state, numOutstandingPackets, info, pkt, wire, gotClassPortInfo,
                    got, over, exhausted>>
    BY <1>4, Zenon DEF ScanSkip
  <2>2. nextLid' \in 1 .. maxLid + 1
    BY <1>4 DEF ScanSkip, TypeOK
  <2>3. status' \in [Port -> {"ok", "skip", "query", "clear"}]
    BY <1>4, Zenon DEF ScanSkip, TypeOK
  <2>4. TypeOK'
    BY <2>1, <2>2, <2>3, Zenon DEF TypeOK
  <2>5. Accounting' /\ Tables' /\ InWork' = InWork
    BY <2>1, Zenon DEF Accounting, Tables, InWork
  <2>6. ~sweepDone'
    BY <1>4, <2>1 DEF Engine, ScanSkip
  <2>7. AtWork' /\ Engine' /\ EventAtEnd'
    BY <2>1, <2>5, <2>6, Zenon DEF AtWork, Engine, EventAtEnd, Quiet
  <2> QED BY <2>4, <2>5, <2>7, Zenon
<1> QED BY <1>1, <1>2, <1>3, <1>4, Zenon DEF NextNode

-----------------------------------------------------------------------------
\* The slot and its node.

\* What the state of one slot does to the number of slots in work.
LEMMA NodeCount ==
    ASSUME IInv, NEW s \in Slot, NEW st \in Working \cup {"DONE"},
           state' = [state EXCEPT ![s] = st]
    PROVE  /\ st \in Working => InWork' = InWork \cup {s}
           /\ st = "DONE" => InWork' = InWork \ {s}
           /\ Cardinality(InWork) \in Nat /\ Cardinality(InWork') \in Nat
           /\ st \in Working /\ s \notin InWork => Cardinality(InWork') = Cardinality(InWork) + 1
           /\ st \in Working /\ s \in InWork => Cardinality(InWork') = Cardinality(InWork)
           /\ st = "DONE" /\ s \notin InWork => Cardinality(InWork') = Cardinality(InWork)
           /\ st = "DONE" /\ s \in InWork =>
                Cardinality(InWork') = Cardinality(InWork) - 1 /\ Cardinality(InWork) >= 1
<1>1. InWork \in SUBSET Slot /\ InWork' \in SUBSET Slot
  BY DEF InWork
<1>2. st \in Working => InWork' = InWork \cup {s}
  BY DEF IInv, TypeOK, InWork
<1>3. st = "DONE" => InWork' = InWork \ {s}
  BY DEF IInv, TypeOK, InWork, Working
<1>4. s \in InWork => InWork \cup {s} = InWork
  OBVIOUS
<1>5. s \notin InWork => InWork \ {s} = InWork
  OBVIOUS
<1>6. Cardinality(InWork) \in Nat /\ Cardinality(InWork') \in Nat
  BY <1>1, CountSlots, Zenon
<1>7. s \notin InWork => Cardinality(InWork \cup {s}) = Cardinality(InWork) + 1
  BY <1>1, CountSlots
<1>8. s \in InWork => Cardinality(InWork \ {s}) = Cardinality(InWork) - 1 /\ Cardinality(InWork) >= 1
  BY <1>1, CountSlots
<1> QED BY <1>2, <1>3, <1>4, <1>5, <1>6, <1>7, <1>8, Zenon

\* A node is put into a slot of which nothing is in flight.
LEMMA Taken ==
    ASSUME IInv, NEW st \in Working \cup {"DONE"}, TakeNode(st)
    PROVE  /\ run.s \in Slot /\ Quiet(run.s) /\ (~exhausted => run.s \notin InWork)
           /\ ~sweepDone
           /\ nextLid' \in 1 .. maxLid + 1
           /\ state' = [state EXCEPT ![run.s] = st]
           /\ state' \in [Slot -> Working \cup {"NONE", "DONE"}]
           /\ state'[run.s] = st /\ \A t \in Slot \ {run.s} : state'[t] = state[t]
           /\ pmnode' \in [Slot -> Node \cup {None}]
           /\ pmnode'[run.s] \in Node /\ \A t \in Slot \ {run.s} : pmnode'[t] = pmnode[t]
           /\ numOutstandingPackets' = numOutstandingPackets
<1> USE ConstantFacts DEF IInv
<1>1. run.s \in Slot /\ Quiet(run.s) /\ (~exhausted => run.s \notin InWork) /\ ~sweepDone
  BY DEF TakeNode, AtWork, Engine, InWork
<1>2. nextLid \in 1 .. maxLid /\ LidMap[nextLid] \in Node /\ nextLid' \in 1 .. maxLid + 1
  BY DEF TakeNode, TypeOK
<1>3. /\ state' = [state EXCEPT ![run.s] = st]
      /\ state' \in [Slot -> Working \cup {"NONE", "DONE"}]
      /\ state'[run.s] = st /\ \A t \in Slot \ {run.s} : state'[t] = state[t]
  BY <1>1 DEF TakeNode, TypeOK
<1>4. /\ pmnode' \in [Slot -> Node \cup {None}]
      /\ pmnode'[run.s] \in Node /\ \A t \in Slot \ {run.s} : pmnode'[t] = pmnode[t]
  BY <1>1, <1>2, Zenon DEF TakeNode, TypeOK
<1>5. numOutstandingPackets' = numOutstandingPackets
  <2>1. PacketsOf(wire, run.s) = {}
    BY <1>1 DEF Quiet, PacketsOf, Packet
  <2>2. numOutstandingPackets[run.s] = 0
    BY <1>1, <2>1, FS_EmptySet, Zenon DEF Accounting, PacketsOf
  <2> QED BY <2>2 DEF TakeNode, TypeOK
<1> QED BY <1>1, <1>2, <1>3, <1>4, <1>5, Zenon

\* A slot of which nothing is in flight may change its state.
LEMMA QuietSlot ==
    ASSUME IInv, NEW s \in Slot, Quiet(s), UNCHANGED <<numOutstandingPackets, pkt, wire>>,
           \A t \in Slot \ {s} : state'[t] = state[t]
    PROVE  InFlight'
<1> SUFFICES ASSUME NEW t \in Slot
             PROVE  /\ numOutstandingPackets'[t] = Cardinality({p \in Packet : <<t, p>> \in wire'})
                    /\ <<t, 0>> \in wire' => state'[t] = "CLASS_INFO"
                    /\ \A p \in Packet : <<t, p>> \in wire' =>
                         state'[t] \in Working \ {"CLASS_INFO"} /\ pkt'[t][p].ports # {}
  BY Zenon DEF InFlight
<1>1. numOutstandingPackets'[t] = Cardinality({p \in Packet : <<t, p>> \in wire'})
  BY Zenon DEF IInv, Accounting
<1>2. CASE t = s
  <2>1. <<t, 0>> \notin wire' /\ \A p \in Packet : <<t, p>> \notin wire'
    BY <1>2, ConstantFacts DEF Quiet, Packet
  <2> QED BY <1>1, <2>1
<1>3. CASE t # s
  BY <1>1, <1>3 DEF IInv, Accounting
<1> QED BY <1>2, <1>3

\* Putting a node into a slot keeps the invariant.
LEMMA DispatchNodeInv == ASSUME IInv, DispatchNode PROVE IInv'
<1> USE ConstantFacts DEF IInv
<1>1. TakeNode("GET_DATACOUNTERS") /\ "GET_DATACOUNTERS" \in Working \cup {"DONE"}
  BY DEF DispatchNode, Working
<1> DEFINE s == run.s
<1>2. /\ s \in Slot /\ Quiet(s) /\ (~exhausted => s \notin InWork) /\ ~sweepDone
      /\ state' = [state EXCEPT ![s] = "GET_DATACOUNTERS"]
  BY <1>1, Taken, Zenon
<1>3. /\ state'[s] = "GET_DATACOUNTERS" /\ \A t \in Slot \ {s} : state'[t] = state[t]
      /\ pmnode'[s] \in Node /\ \A t \in Slot \ {s} : pmnode'[t] = pmnode[t]
      /\ numOutstandingPackets' = numOutstandingPackets
  BY <1>1, Taken
<1>4. UNCHANGED <<engine, main, postedEvent, sweepDone, FailedNodes, pkt, wire,
                  gotClassPortInfo, image, exhausted>>
  BY DEF DispatchNode
<1>5. run' = [run EXCEPT !.pc = "data", !.ret = "scan"] /\ run.pc = "scan"
  BY DEF DispatchNode, TakeNode
<1>6. run'.pc = "data" /\ run'.s = s
  BY <1>5, Zenon DEF TypeOK
<1>7. TypeOK'
  <2>1. run' \in [pc : PCs, s : 1 .. MaxParallelNodes + 1, p : 1 .. PmaBatchSize + 1,
                  ret : {"scan", "nextnode"}]
    BY <1>5, Zenon DEF TypeOK, PCs
  <2>2. numOutstandingNodes' \in Nat /\ DOMAIN info' = Slot
    BY DEF DispatchNode, TypeOK
  <2>3. /\ nextLid' \in 1 .. maxLid + 1 /\ state' \in [Slot -> Working \cup {"NONE", "DONE"}]
        /\ pmnode' \in [Slot -> Node \cup {None}]
    BY <1>1, Taken
  <2> QED BY <1>3, <1>4, <2>1, <2>2, <2>3 DEF TypeOK, image
<1>8. Accounting'
  <2>1. numOutstandingNodes' >= Cardinality(InWork')
        /\ (~exhausted => numOutstandingNodes' = Cardinality(InWork'))
    <3>1. numOutstandingNodes' = numOutstandingNodes + 1 /\ numOutstandingNodes \in Nat
          /\ numOutstandingNodes >= Cardinality(InWork)
          /\ (~exhausted => numOutstandingNodes = Cardinality(InWork))
      BY DEF DispatchNode, TypeOK, Accounting
    <3>2. /\ Cardinality(InWork) \in Nat
          /\ s \notin InWork => Cardinality(InWork') = Cardinality(InWork) + 1
          /\ s \in InWork => Cardinality(InWork') = Cardinality(InWork)
      BY <1>2, NodeCount, Zenon DEF Working
    <3> QED BY <1>2, <3>1, <3>2
  <2>2. InFlight'
    BY <1>2, <1>3, <1>4, QuietSlot
  <2> QED BY <1>4, <2>1, <2>2, Zenon DEF Accounting, InFlight
<1>9. EventAtEnd' /\ Tables'
  BY <1>2, <1>3, <1>4 DEF EventAtEnd, Tables
<1>10. AtWork'
  BY <1>2, <1>3, <1>4, <1>6 DEF AtWork, Quiet, Working
<1>11. Engine'
  <2>1. main \notin {"idle", "stopped"}
    BY <1>5 DEF Engine
  <2>2. \A t \in Slot : t > s => t # s
    BY <1>2 DEF Slot
  <2> QED BY <1>2, <1>3, <1>4, <1>5, <1>6, <2>1, <2>2 DEF Engine, Quiet
<1> QED BY <1>7, <1>8, <1>9, <1>10, <1>11

\* Sending the ClassPortInfo query keeps the invariant.
LEMMA QueryNodeInv == ASSUME IInv, QueryNode PROVE IInv'
<1> USE ConstantFacts DEF IInv
<1>1. TakeNode("CLASS_INFO") /\ "CLASS_INFO" \in Working \cup {"DONE"}
  BY Zenon DEF QueryNode, Working
<1> DEFINE s == run.s
<1>2. /\ s \in Slot /\ Quiet(s) /\ (~exhausted => s \notin InWork) /\ ~sweepDone
      /\ state' = [state EXCEPT ![s] = "CLASS_INFO"]
  BY <1>1, Taken, Zenon
<1>3. /\ state'[s] = "CLASS_INFO" /\ \A t \in Slot \ {s} : state'[t] = state[t]
      /\ pmnode'[s] \in Node /\ \A t \in Slot \ {s} : pmnode'[t] = pmnode[t]
      /\ numOutstandingPackets' = numOutstandingPackets
  BY <1>1, Taken
<1>4. UNCHANGED <<engine, main, postedEvent, sweepDone, FailedNodes, pkt,
                  gotClassPortInfo, image, exhausted>>
      /\ wire' = wire \cup {<<s, 0>>}
  BY DEF QueryNode
<1>5. run' = Started /\ run.pc = "scan"
  BY DEF QueryNode, TakeNode
<1>6. \/ main = "starting" /\ run'.pc = "nodes" /\ run'.s = s + 1
      \/ main # "starting" /\ run'.pc = "free" /\ run'.s = s
  BY <1>5, Zenon DEF TypeOK, Started
<1>7. TypeOK'
  <2>1. run' \in [pc : PCs, s : 1 .. MaxParallelNodes + 1, p : 1 .. PmaBatchSize + 1,
                  ret : {"scan", "nextnode"}]
    <3>1. run \in [pc : PCs, s : 1 .. MaxParallelNodes + 1, p : 1 .. PmaBatchSize + 1,
                   ret : {"scan", "nextnode"}]
      BY DEF TypeOK
    <3>2. run.s + 1 \in 1 .. MaxParallelNodes + 1
      BY <1>2 DEF Slot
    <3> QED BY <1>5, <3>1, <3>2, Zenon DEF Started, PCs
  <2>2. numOutstandingNodes' \in Nat /\ DOMAIN info' = Slot
    BY DEF QueryNode, TypeOK
  <2>3. /\ nextLid' \in 1 .. maxLid + 1 /\ state' \in [Slot -> Working \cup {"NONE", "DONE"}]
        /\ pmnode' \in [Slot -> Node \cup {None}]
    BY <1>1, Taken
  <2>4. wire' \subseteq Slot \X (0 .. PmaBatchSize)
    BY <1>2, <1>4 DEF TypeOK
  <2> QED BY <1>3, <1>4, <2>1, <2>2, <2>3, <2>4 DEF TypeOK, image
<1>8. Accounting'
  <2>1. numOutstandingNodes' >= Cardinality(InWork')
        /\ (~exhausted => numOutstandingNodes' = Cardinality(InWork'))
    <3>1. numOutstandingNodes' = numOutstandingNodes + 1 /\ numOutstandingNodes \in Nat
          /\ numOutstandingNodes >= Cardinality(InWork)
          /\ (~exhausted => numOutstandingNodes = Cardinality(InWork))
      BY Zenon DEF QueryNode, TypeOK, Accounting
    <3>2. /\ Cardinality(InWork) \in Nat
          /\ s \notin InWork => Cardinality(InWork') = Cardinality(InWork) + 1
          /\ s \in InWork => Cardinality(InWork') = Cardinality(InWork)
      BY <1>2, NodeCount, Zenon DEF Working
    <3> QED BY <1>2, <3>1, <3>2
  <2>2. InFlight'
    <3> SUFFICES ASSUME NEW t \in Slot
                 PROVE  /\ numOutstandingPackets'[t] = Cardinality({p \in Packet : <<t, p>> \in wire'})
                        /\ <<t, 0>> \in wire' => state'[t] = "CLASS_INFO"
                        /\ \A p \in Packet : <<t, p>> \in wire' =>
                             state'[t] \in Working \ {"CLASS_INFO"} /\ pkt'[t][p].ports # {}
      BY Zenon DEF InFlight
    <3>1. PacketsOf(wire', t) = PacketsOf(wire, t)
      BY <1>2, <1>4, NodeQuery
    <3>2. numOutstandingPackets'[t] = Cardinality({p \in Packet : <<t, p>> \in wire'})
      BY <1>3, <3>1, Zenon DEF Accounting, PacketsOf
    <3>3. CASE t = s
      <4>1. \A p \in Packet : <<t, p>> \notin wire'
        BY <1>2, <3>1, <3>3 DEF Quiet, Packet, PacketsOf
      <4> QED BY <1>3, <3>2, <3>3, <4>1
    <3>4. CASE t # s
      <4>1. \A p \in 0 .. PmaBatchSize : <<t, p>> \in wire' <=> <<t, p>> \in wire
        BY <1>4, <3>4
      <4>2. 0 \in 0 .. PmaBatchSize /\ Packet \subseteq 0 .. PmaBatchSize
        BY DEF Packet
      <4> QED BY <1>3, <1>4, <3>2, <3>4, <4>1, <4>2 DEF Accounting
    <3> QED BY <3>3, <3>4
  <2> QED BY <1>4, <2>1, <2>2, Zenon DEF Accounting, InFlight
<1>9. EventAtEnd' /\ Tables'
  BY <1>2, <1>3, <1>4, Zenon DEF EventAtEnd, Tables
<1>10. AtWork'
  BY <1>6 DEF AtWork
<1>11. Engine'
  <2>1. main \notin {"idle", "stopped"}
    BY <1>5, Zenon DEF Engine
  <2>2. CASE main # "starting"
    BY <1>4, <1>6, <2>1, <2>2, Zenon DEF Engine
  <2>3. CASE main = "starting"
    <3>1. \A t \in Slot : t > s + 1 \/ t = s + 1 => t > s /\ t # s
      BY <1>2 DEF Slot
    <3>2. \A t \in Slot : t > s => Quiet(t)' /\ (~exhausted => state'[t] \notin Working)
      <4> SUFFICES ASSUME NEW t \in Slot, t > s
                   PROVE Quiet(t)' /\ (~exhausted => state'[t] \notin Working)
        BY Zenon
      <4>1. Quiet(t) /\ (~exhausted => state[t] \notin Working) /\ t # s
        BY <1>2, <2>3 DEF Engine, Slot
      <4> QED BY <1>3, <1>4, <4>1, Zenon DEF Quiet
    <3> QED BY <1>2, <1>4, <1>6, <2>3, <3>1, <3>2, Zenon DEF Engine
  <2> QED BY <2>2, <2>3
<1> QED BY <1>7, <1>8, <1>9, <1>10, <1>11

\* The failed node leaves the slot, and the scan goes on.
LEMMA QueryNodeFailsInv == ASSUME IInv, QueryNodeFails PROVE IInv'
<1> USE ConstantFacts DEF IInv
<1>1. TakeNode("DONE")
  BY Zenon DEF QueryNodeFails
<1> DEFINE s == run.s
<1>2. /\ s \in Slot /\ Quiet(s) /\ (~exhausted => s \notin InWork) /\ ~sweepDone
      /\ state' = [state EXCEPT ![s] = "DONE"]
  BY <1>1, Taken, Zenon
<1>3. /\ state'[s] = "DONE" /\ \A t \in Slot \ {s} : state'[t] = state[t]
      /\ pmnode'[s] \in Node /\ \A t \in Slot \ {s} : pmnode'[t] = pmnode[t]
      /\ numOutstandingPackets' = numOutstandingPackets
  BY <1>1, Taken
<1>4. UNCHANGED <<engine, main, run, numOutstandingNodes, postedEvent, sweepDone, pkt,
                  wire, gotClassPortInfo, got, over, exhausted>> /\ run.pc = "scan"
  BY Zenon DEF QueryNodeFails, TakeNode
<1>5. TypeOK'
  <2>1. FailedNodes' \in Nat /\ DOMAIN info' = Slot
    BY DEF QueryNodeFails, TypeOK
  <2>2. status' \in [Port -> {"ok", "skip", "query", "clear"}]
    BY Zenon DEF QueryNodeFails, TypeOK, Fail
  <2>3. /\ nextLid' \in 1 .. maxLid + 1 /\ state' \in [Slot -> Working \cup {"NONE", "DONE"}]
        /\ pmnode' \in [Slot -> Node \cup {None}]
    BY <1>1, Taken, Zenon
  <2> QED BY <1>3, <1>4, <2>1, <2>2, <2>3, Zenon DEF TypeOK
<1>6. Accounting'
  <2>1. numOutstandingNodes' >= Cardinality(InWork')
        /\ (~exhausted => numOutstandingNodes' = Cardinality(InWork'))
    <3>1. numOutstandingNodes' = numOutstandingNodes /\ numOutstandingNodes \in Nat
          /\ numOutstandingNodes >= Cardinality(InWork)
          /\ (~exhausted => numOutstandingNodes = Cardinality(InWork))
      BY <1>4, Zenon DEF TypeOK, Accounting
    <3>2. /\ Cardinality(InWork) \in Nat
          /\ s \notin InWork => Cardinality(InWork') = Cardinality(InWork)
          /\ s \in InWork => Cardinality(InWork') = Cardinality(InWork) - 1
      BY <1>2, NodeCount, Zenon
    <3> QED BY <1>2, <3>1, <3>2
  <2>2. InFlight'
    BY <1>2, <1>3, <1>4, QuietSlot, Zenon
  <2> QED BY <1>4, <2>1, <2>2, Zenon DEF Accounting, InFlight
<1>7. EventAtEnd' /\ Tables'
  BY <1>2, <1>3, <1>4, Zenon DEF EventAtEnd, Tables
<1>8. AtWork'
  BY <1>2, <1>3, <1>4 DEF AtWork, Quiet, Working
<1>9. Engine'
  <2>1. main \notin {"idle", "stopped"}
    BY <1>4 DEF Engine
  <2>2. \A t \in Slot : t > s => t # s
    BY <1>2 DEF Slot
  <2> QED BY <1>2, <1>3, <1>4, <2>1, <2>2, Zenon DEF Engine, Quiet
<1> QED BY <1>5, <1>6, <1>7, <1>8, <1>9

-----------------------------------------------------------------------------
\* A callback finds the engine thread waiting.
LEMMA CallbackTime ==
    ASSUME IInv, run.pc = "free", wire # {}
    PROVE  main = "waiting" /\ ~sweepDone
BY DEF IInv, TypeOK, Engine, EventAtEnd

\* The answer to the ClassPortInfo query keeps the invariant.
LEMMA NodeCallbackInv == ASSUME IInv, NEW s \in Slot, NodeCallback(s) PROVE IInv'
<1> USE ConstantFacts DEF IInv
<1>1. /\ run.pc = "free" /\ <<s, 0>> \in wire /\ wire' = wire \ {<<s, 0>>}
      /\ UNCHANGED <<engine, main, nextLid, postedEvent, sweepDone, pmnode,
                     numOutstandingPackets, pkt, got, over, exhausted>>
  BY DEF NodeCallback
<1>2. main = "waiting" /\ ~sweepDone
  BY <1>1, CallbackTime, Zenon
<1>3. state[s] = "CLASS_INFO" /\ s \in InWork /\ pmnode[s] \in Node
  BY <1>1, Zenon DEF Accounting, InWork, Working, Tables
<1>4. Quiet(s)'
  <2>1. \A p \in Packet : <<s, p>> \notin wire
    BY <1>3, Zenon DEF Accounting
  <2>2. \A p \in 0 .. PmaBatchSize : p = 0 \/ p \in Packet
    BY DEF Packet
  <2> QED BY <1>1, <2>1, <2>2 DEF Quiet
<1>5. \E st \in {"GET_DATACOUNTERS", "DONE"} :
        /\ state' = [state EXCEPT ![s] = st]
        /\ st = "GET_DATACOUNTERS" =>
             /\ gotClassPortInfo' = gotClassPortInfo \cup {pmnode[s]}
             /\ run' = [run EXCEPT !.pc = "data", !.s = s, !.ret = "nextnode"]
             /\ UNCHANGED <<info, status, numOutstandingNodes, FailedNodes>>
        /\ st = "DONE" =>
             /\ info' = [info EXCEPT ![s].failed = TRUE]
             /\ status' = Fail(portsOf[pmnode[s]], "query")
             /\ numOutstandingNodes' = numOutstandingNodes - 1
             /\ FailedNodes' = FailedNodes + 1
             /\ run' = [run EXCEPT !.pc = "nextnode", !.s = s]
             /\ UNCHANGED gotClassPortInfo
  BY DEF NodeCallback
<1>6. PICK st \in {"GET_DATACOUNTERS", "DONE"} :
        /\ state' = [state EXCEPT ![s] = st]
        /\ st = "GET_DATACOUNTERS" =>
             /\ gotClassPortInfo' = gotClassPortInfo \cup {pmnode[s]}
             /\ run' = [run EXCEPT !.pc = "data", !.s = s, !.ret = "nextnode"]
             /\ UNCHANGED <<info, status, numOutstandingNodes, FailedNodes>>
        /\ st = "DONE" =>
             /\ info' = [info EXCEPT ![s].failed = TRUE]
             /\ status' = Fail(portsOf[pmnode[s]], "query")
             /\ numOutstandingNodes' = numOutstandingNodes - 1
             /\ FailedNodes' = FailedNodes + 1
             /\ run' = [run EXCEPT !.pc = "nextnode", !.s = s]
             /\ UNCHANGED gotClassPortInfo
  BY <1>5, Zenon
<1>7. state'[s] = st /\ \A t \in Slot \ {s} : state'[t] = state[t]
  BY <1>6 DEF TypeOK
<1>8. /\ run'.s = s
      /\ run'.pc = (IF st = "DONE" THEN "nextnode" ELSE "data")
      /\ run' \in [pc : PCs, s : 1 .. MaxParallelNodes + 1, p : 1 .. PmaBatchSize + 1,
                   ret : {"scan", "nextnode"}]
  <2>1. run \in [pc : PCs, s : 1 .. MaxParallelNodes + 1, p : 1 .. PmaBatchSize + 1,
                 ret : {"scan", "nextnode"}]
    BY DEF TypeOK
  <2>2. s \in 1 .. MaxParallelNodes + 1
    BY DEF Slot
  <2> QED BY <1>6, <2>1, <2>2, Zenon DEF PCs
<1>9. /\ numOutstandingNodes' \in Nat
      /\ numOutstandingNodes' >= Cardinality(InWork')
      /\ ~exhausted => numOutstandingNodes' = Cardinality(InWork')
  <2>1. /\ numOutstandingNodes \in Nat /\ numOutstandingNodes >= Cardinality(InWork)
        /\ ~exhausted => numOutstandingNodes = Cardinality(InWork)
    BY DEF TypeOK, Accounting
  <2>2. st = "DONE" =>
          /\ Cardinality(InWork') = Cardinality(InWork) - 1 /\ Cardinality(InWork) >= 1
          /\ Cardinality(InWork) \in Nat
    BY <1>3, <1>6, NodeCount, Zenon
  <2>3. st = "GET_DATACOUNTERS" => InWork' = InWork
    <3>1. st = "GET_DATACOUNTERS" => st \in Working
      BY DEF Working
    <3>2. st = "GET_DATACOUNTERS" => InWork' = InWork \cup {s}
      BY <1>6, <3>1, NodeCount, Zenon
    <3> QED BY <1>3, <3>2
  <2> QED BY <1>6, <2>1, <2>2, <2>3
<1>10. TypeOK'
  <2>1. state' \in [Slot -> Working \cup {"NONE", "DONE"}]
    BY <1>6 DEF TypeOK, Working
  <2>2. status' \in [Port -> {"ok", "skip", "query", "clear"}] /\ FailedNodes' \in Nat
    BY <1>6 DEF TypeOK, Fail
  <2>3. DOMAIN info' = Slot /\ gotClassPortInfo' \subseteq Node
    BY <1>3, <1>6, Zenon DEF TypeOK
  <2> QED BY <1>1, <1>8, <1>9, <2>1, <2>2, <2>3 DEF TypeOK
<1>11. InFlight'
  <2> SUFFICES ASSUME NEW t \in Slot
               PROVE  /\ numOutstandingPackets'[t] = Cardinality({p \in Packet : <<t, p>> \in wire'})
                      /\ <<t, 0>> \in wire' => state'[t] = "CLASS_INFO"
                      /\ \A p \in Packet : <<t, p>> \in wire' =>
                           state'[t] \in Working \ {"CLASS_INFO"} /\ pkt'[t][p].ports # {}
    BY Zenon DEF InFlight
  <2>1. PacketsOf(wire', t) = PacketsOf(wire, t)
    BY <1>1, NodeQuery, Zenon
  <2>2. numOutstandingPackets'[t] = Cardinality({p \in Packet : <<t, p>> \in wire'})
    BY <1>1, <2>1, Zenon DEF Accounting, PacketsOf
  <2>3. CASE t = s
    <3>1. <<t, 0>> \notin wire' /\ \A p \in Packet : <<t, p>> \notin wire'
      BY <1>4, <2>3 DEF Quiet, Packet
    <3> QED BY <2>2, <3>1
  <2>4. CASE t # s
    BY <1>1, <1>7, <2>2, <2>4 DEF Accounting
  <2> QED BY <2>3, <2>4, Zenon
<1>12. Accounting'
  BY <1>1, <1>9, <1>11, Zenon DEF Accounting, InFlight
<1>13. EventAtEnd' /\ Tables'
  BY <1>1, <1>2, <1>3, <1>7, Zenon DEF EventAtEnd, Tables
<1>14. AtWork'
  BY <1>4, <1>7, <1>8, Zenon DEF AtWork, Working
<1>15. Engine'
  BY <1>1, <1>2, <1>8, Zenon DEF Engine
<1> QED BY <1>10, <1>12, <1>13, <1>14, <1>15, Zenon

-----------------------------------------------------------------------------
\* The steps of a node none of whose packets is in flight.
LEMMA StartDataInv == ASSUME IInv, StartData PROVE IInv'
<1> USE ConstantFacts DEF IInv
<1>1. /\ run.pc = "data"
      /\ UNCHANGED <<engine, main, sweep, pmnode, state, numOutstandingPackets, pkt, wire,
                     gotClassPortInfo, image>>
  BY Zenon DEF StartData
<1> DEFINE s == run.s
<1>2. s \in Slot /\ Quiet(s) /\ state[s] \in Working \ {"CLASS_INFO"} /\ ~sweepDone
  BY <1>1 DEF AtWork, Engine
<1>3. \/ run' = [run EXCEPT !.pc = "ports", !.p = 1] /\ exhausted' = exhausted
      \/ run' = [run EXCEPT !.pc = run.ret] /\ exhausted' = TRUE
  BY DEF StartData
<1>4. /\ run'.s = s
      /\ \/ run'.pc = "ports" /\ exhausted' = exhausted
         \/ run'.pc \in {"nextnode", "scan"} /\ exhausted' = TRUE
      /\ run' \in [pc : PCs, s : 1 .. MaxParallelNodes + 1, p : 1 .. PmaBatchSize + 1,
                   ret : {"scan", "nextnode"}]
  <2>1. run \in [pc : PCs, s : 1 .. MaxParallelNodes + 1, p : 1 .. PmaBatchSize + 1,
                 ret : {"scan", "nextnode"}]
    BY DEF TypeOK
  <2>2. 1 \in 1 .. PmaBatchSize + 1
    OBVIOUS
  <2> HIDE DEF IInv
  <2> QED BY <1>3, <2>1, <2>2, Zenon DEF PCs
<1>5. TypeOK'
  <2>1. DOMAIN info' = Slot /\ exhausted' \in BOOLEAN
    BY Zenon DEF StartData, TypeOK
  <2> QED BY <1>1, <1>4, <2>1 DEF TypeOK, sweep, image
<1>6. Accounting' /\ InWork' = InWork
  <2>1. InWork' = InWork
    BY <1>1, Zenon DEF InWork
  <2>2. numOutstandingNodes' = numOutstandingNodes /\ (exhausted => exhausted')
    BY <1>1, <1>4 DEF sweep
  <2>3. UNCHANGED <<state, wire, pkt, numOutstandingPackets>>
    BY <1>1, Zenon
  <2> HIDE DEF IInv
  <2> QED BY <2>1, <2>2, <2>3 DEF IInv, Accounting
<1>7. EventAtEnd' /\ Tables'
  BY <1>1, <1>2, Zenon DEF EventAtEnd, Tables, sweep
<1>8. AtWork'
  BY <1>1, <1>2, <1>4 DEF AtWork, Quiet, Packet
<1>9. Engine'
  BY <1>1, <1>2, <1>4 DEF Engine, Quiet, sweep
<1> QED BY <1>5, <1>6, <1>7, <1>8, <1>9, Zenon

\* Going on to the error counters or to the clears keeps the invariant.
LEMMA NextStateInv == ASSUME IInv, GetErrorCounters \/ ClearPortStatus PROVE IInv'
<1> USE ConstantFacts DEF IInv
<1>1. /\ run.pc = "next"
      /\ UNCHANGED <<engine, main, sweep, pmnode, numOutstandingPackets, pkt, wire,
                     gotClassPortInfo, image, exhausted>>
      /\ run' = [run EXCEPT !.pc = "ports", !.p = 1]
      /\ DOMAIN info' = DOMAIN info
  BY Zenon DEF GetErrorCounters, ClearPortStatus
<1>2. PICK st \in Working \ {"CLASS_INFO"} : state' = [state EXCEPT ![run.s] = st]
  BY DEF GetErrorCounters, ClearPortStatus, Working
<1> DEFINE s == run.s
<1>3. s \in Slot /\ Quiet(s) /\ s \in InWork /\ ~sweepDone
  BY <1>1, Zenon DEF AtWork, Engine, InWork
<1>4. state'[s] = st /\ \A t \in Slot \ {s} : state'[t] = state[t]
  BY <1>2, <1>3 DEF TypeOK
<1>5. run'.s = s /\ run'.pc = "ports"
      /\ run' \in [pc : PCs, s : 1 .. MaxParallelNodes + 1, p : 1 .. PmaBatchSize + 1,
                   ret : {"scan", "nextnode"}]
  <2>1. run \in [pc : PCs, s : 1 .. MaxParallelNodes + 1, p : 1 .. PmaBatchSize + 1,
                 ret : {"scan", "nextnode"}]
    BY DEF TypeOK
  <2>2. 1 \in 1 .. PmaBatchSize + 1
    OBVIOUS
  <2> HIDE DEF IInv
  <2> QED BY <1>1, <2>1, <2>2, Zenon DEF PCs
<1>6. TypeOK'
  <2>1. state' \in [Slot -> Working \cup {"NONE", "DONE"}]
    BY <1>2, Zenon DEF TypeOK
  <2> QED BY <1>1, <1>5, <2>1 DEF TypeOK, sweep, image
<1>7. InWork' = InWork
  <2>1. InWork' = InWork \cup {s}
    BY <1>2, <1>3, NodeCount, Zenon
  <2> QED BY <1>3, <2>1
<1>8. Accounting'
  <2>1. InFlight'
    BY <1>1, <1>3, <1>4, QuietSlot
  <2> QED BY <1>1, <1>7, <2>1 DEF Accounting, InFlight, sweep
<1>9. EventAtEnd' /\ Tables'
  BY <1>1, <1>3, <1>4 DEF EventAtEnd, Tables, sweep, InWork
<1>10. AtWork'
  BY <1>1, <1>3, <1>4, <1>5 DEF AtWork, Quiet, Packet
<1>11. Engine'
  <2>1. \A t \in Slot : t > s => t # s
    BY <1>3 DEF Slot
  <2> QED BY <1>1, <1>3, <1>4, <1>5, <2>1, Zenon DEF Engine, Quiet, sweep
<1> QED BY <1>6, <1>8, <1>9, <1>10, <1>11, Zenon

\* The end of a node keeps the invariant.
LEMMA NodeIsDoneInv == ASSUME IInv, NodeIsDone PROVE IInv'
<1> USE ConstantFacts DEF IInv
<1> DEFINE s == run.s
<1>1. /\ run.pc = "next"
      /\ UNCHANGED <<engine, main, nextLid, postedEvent, sweepDone, pmnode,
                     numOutstandingPackets, pkt, wire, gotClassPortInfo, image, exhausted>>
      /\ run' = [run EXCEPT !.pc = run.ret]
      /\ state' = [state EXCEPT ![s] = "DONE"]
      /\ numOutstandingNodes' = numOutstandingNodes - 1
  BY DEF NodeIsDone, NodeDone
<1>2. FailedNodes' = FailedNodes + (IF info[s].failed THEN 1 ELSE 0) /\ DOMAIN info' = DOMAIN info
  BY DEF NodeIsDone, NodeDone
<1>3. s \in Slot /\ Quiet(s) /\ s \in InWork /\ ~sweepDone
  BY <1>1 DEF AtWork, Engine, InWork
<1>4. state'[s] = "DONE" /\ \A t \in Slot \ {s} : state'[t] = state[t]
  BY <1>1, <1>3 DEF TypeOK
<1>5. run'.s = s /\ run'.pc \in {"nextnode", "scan"}
      /\ run' \in [pc : PCs, s : 1 .. MaxParallelNodes + 1, p : 1 .. PmaBatchSize + 1,
                   ret : {"scan", "nextnode"}]
  BY <1>1 DEF TypeOK, PCs
<1>6. /\ numOutstandingNodes' \in Nat
      /\ numOutstandingNodes' >= Cardinality(InWork')
      /\ ~exhausted => numOutstandingNodes' = Cardinality(InWork')
  <2>1. /\ numOutstandingNodes \in Nat /\ numOutstandingNodes >= Cardinality(InWork)
        /\ ~exhausted => numOutstandingNodes = Cardinality(InWork)
    BY DEF TypeOK, Accounting
  <2>2. /\ Cardinality(InWork') = Cardinality(InWork) - 1 /\ Cardinality(InWork) >= 1
        /\ Cardinality(InWork) \in Nat
    BY <1>1, <1>3, NodeCount, Zenon
  <2> QED BY <1>1, <2>1, <2>2
<1>7. TypeOK'
  <2>1. state' \in [Slot -> Working \cup {"NONE", "DONE"}]
    BY <1>1, Zenon DEF TypeOK
  <2>2. FailedNodes' \in Nat /\ DOMAIN info' = Slot
    BY <1>2 DEF TypeOK
  <2> QED BY <1>1, <1>5, <1>6, <2>1, <2>2 DEF TypeOK, image
<1>8. Accounting'
  <2>1. InFlight'
    BY <1>1, <1>3, <1>4, QuietSlot, Zenon
  <2> QED BY <1>1, <1>6, <2>1, Zenon DEF Accounting, InFlight
<1>9. EventAtEnd' /\ Tables'
  BY <1>1, <1>3, <1>4, Zenon DEF EventAtEnd, Tables, Working
<1>10. AtWork'
  BY <1>1, <1>3, <1>4, <1>5, Zenon DEF AtWork, Quiet, Working
<1>11. Engine'
  <2>1. \A t \in Slot : t > s => t # s
    BY <1>3 DEF Slot
  <2> QED BY <1>1, <1>3, <1>4, <1>5, <2>1, Zenon DEF Engine, Quiet
<1> QED BY <1>7, <1>8, <1>9, <1>10, <1>11

-----------------------------------------------------------------------------

\* What DispatchNextPacket does to the table of packets: it stores a packet
\* with ports, or leaves the ports of the packet alone.
LEMMA PacketStep ==
    ASSUME IInv, NEW s \in Slot, NEW p \in Packet, NEW result, NextPacket(s, p, result),
           <<s, p>> \notin wire, state[s] \in Working \ {"CLASS_INFO"}, state' = state
    PROVE  /\ InFlight'
           /\ DOMAIN info' = Slot
           /\ DOMAIN pkt' = Slot /\ \A t \in Slot : DOMAIN pkt'[t] = Packet
           /\ numOutstandingPackets' \in [Slot -> 0 .. PmaBatchSize]
           /\ wire' \subseteq Slot \X (0 .. PmaBatchSize)
           /\ status' \in [Port -> {"ok", "skip", "query", "clear"}]
           /\ exhausted' \in BOOLEAN /\ (exhausted => exhausted')
           /\ \/ result = "ok" /\ wire' = wire \cup {<<s, p>>}
              \/ /\ result # "ok" /\ wire' = wire
                 /\ numOutstandingPackets' = numOutstandingPackets
<1> USE ConstantFacts
<1> DEFINE m == Merged(s, p)
<1>1. DOMAIN info' = Slot
  BY Zenon DEF NextPacket, IInv, TypeOK
<1>2. status' \in [Port -> {"ok", "skip", "query", "clear"}]
  <2>1. status' = status \/ status' = Fail(m.ports, Why(s))
    BY DEF NextPacket
  <2>2. Why(s) \in {"clear", "query"}
    BY Zenon DEF Why
  <2>3. status \in [Port -> {"ok", "skip", "query", "clear"}]
    BY Zenon DEF IInv, TypeOK
  <2> QED BY <2>1, <2>2, <2>3, Zenon DEF Fail
<1>3. exhausted' \in BOOLEAN /\ (exhausted => exhausted')
  BY Zenon DEF NextPacket, IInv, TypeOK
<1>4. CASE result = "ok"
  <2>1. /\ m.ports # {}
        /\ pkt' = [pkt EXCEPT ![s][p] = [ports |-> m.ports, VLSelectMask |-> m.VLSelectMask,
                                         numVLs |-> PacketVLs(s, p)]]
        /\ numOutstandingPackets' = [numOutstandingPackets EXCEPT ![s] = @ + 1]
        /\ wire' = wire \cup {<<s, p>>}
    BY <1>4 DEF NextPacket
  <2>2. /\ DOMAIN pkt' = Slot /\ \A t \in Slot : DOMAIN pkt'[t] = Packet
        /\ pkt'[s][p].ports # {}
        /\ \A t \in Slot, q \in Packet : t # s \/ q # p => pkt'[t][q] = pkt[t][q]
    <3> DEFINE x == [ports |-> m.ports, VLSelectMask |-> m.VLSelectMask, numVLs |-> PacketVLs(s, p)]
    <3>1. pkt' = [pkt EXCEPT ![s][p] = x] /\ x.ports = m.ports
      BY <2>1, Zenon
    <3> HIDE DEF x, m
    <3> QED BY <2>1, <3>1 DEF IInv, TypeOK, Tables
  <2>3. wire' \subseteq Slot \X (0 .. PmaBatchSize)
    BY <2>1 DEF IInv, TypeOK, Packet
  <2>4. /\ numOutstandingPackets'[s] = numOutstandingPackets[s] + 1
        /\ \A t \in Slot \ {s} : numOutstandingPackets'[t] = numOutstandingPackets[t]
        /\ DOMAIN numOutstandingPackets' = Slot
    BY <2>1, Zenon DEF IInv, TypeOK
  <2>5. \A t \in Slot : numOutstandingPackets[t] = Cardinality(PacketsOf(wire, t))
    BY Zenon DEF IInv, Accounting, PacketsOf
  <2>6. \A t \in Slot : numOutstandingPackets'[t] = Cardinality(PacketsOf(wire', t))
    <3>1. /\ Cardinality(PacketsOf(wire', s)) = Cardinality(PacketsOf(wire, s)) + 1
          /\ \A t \in Slot \ {s} : PacketsOf(wire', t) = PacketsOf(wire, t)
      <4>1. wire' = wire \cup {<<s, p>>} /\ <<s, p>> \notin wire
        BY <2>1, Zenon
      <4>2. /\ Cardinality(PacketsOf(wire \cup {<<s, p>>}, s)) = Cardinality(PacketsOf(wire, s)) + 1
            /\ \A t \in Slot \ {s} : PacketsOf(wire \cup {<<s, p>>}, t) = PacketsOf(wire, t)
        BY <4>1, SendPacket, Zenon
      <4> QED BY <4>1, <4>2, Zenon
    <3> QED BY <2>4, <2>5, <3>1
  <2>7. numOutstandingPackets' \in [Slot -> 0 .. PmaBatchSize]
    <3>1. \A t \in Slot : numOutstandingPackets'[t] \in 0 .. PmaBatchSize
      BY <2>6, CountPackets, Zenon
    <3>2. numOutstandingPackets' = [t \in Slot |-> numOutstandingPackets'[t]]
      BY <2>1, <2>4, Zenon
    <3> QED BY <3>1, <3>2, Zenon
  <2>8. InFlight'
    <3> SUFFICES ASSUME NEW t \in Slot
                 PROVE  /\ <<t, 0>> \in wire' => state'[t] = "CLASS_INFO"
                        /\ \A q \in Packet : <<t, q>> \in wire' =>
                             state'[t] \in Working \ {"CLASS_INFO"} /\ pkt'[t][q].ports # {}
      BY <2>6, Zenon DEF InFlight, PacketsOf
    <3>1. <<t, 0>> \in wire' => <<t, 0>> \in wire
      BY <2>1 DEF Packet
    <3>2. ASSUME NEW q \in Packet, <<t, q>> \in wire'
          PROVE  state'[t] \in Working \ {"CLASS_INFO"} /\ pkt'[t][q].ports # {}
      <4>1. CASE t = s /\ q = p
        BY <2>2, <4>1, Zenon
      <4>2. CASE t # s \/ q # p
        <5>1. <<t, q>> \in wire /\ pkt'[t][q] = pkt[t][q]
          BY <2>1, <2>2, <3>2, <4>2
        <5> QED BY <5>1, Zenon DEF IInv, Accounting
      <4> QED BY <4>1, <4>2, Zenon
    <3> QED BY <3>1, <3>2, Zenon DEF IInv, Accounting
  <2> QED BY <1>1, <1>2, <1>3, <1>4, <2>1, <2>2, <2>3, <2>7, <2>8
<1>5. CASE result # "ok"
  <2>1. wire' = wire /\ numOutstandingPackets' = numOutstandingPackets
    BY <1>5 DEF NextPacket
  <2>2. pkt' = pkt \/ pkt' = [pkt EXCEPT ![s][p] = Numbered(s, p)]
    BY <1>5, Zenon DEF NextPacket
  <2>3. /\ DOMAIN pkt' = Slot /\ \A t \in Slot : DOMAIN pkt'[t] = Packet
        /\ \A t \in Slot, q \in Packet : pkt'[t][q].ports = pkt[t][q].ports
    <3>1. CASE pkt' = pkt
      BY <3>1, Zenon DEF IInv, TypeOK, Tables
    <3>2. CASE pkt' = [pkt EXCEPT ![s][p] = Numbered(s, p)]
      <4> DEFINE x == Numbered(s, p)
      <4>1. /\ DOMAIN pkt' = Slot /\ \A t \in Slot : DOMAIN pkt'[t] = Packet
            /\ pkt'[s][p] = x
            /\ \A t \in Slot, q \in Packet : t # s \/ q # p => pkt'[t][q] = pkt[t][q]
        <5>1. pkt' = [pkt EXCEPT ![s][p] = x]
          BY <3>2, Zenon
        <5> HIDE DEF x
        <5> QED BY <5>1, Zenon DEF IInv, TypeOK, Tables
      <4>2. Numbered(s, p).ports = pkt[s][p].ports
        BY Zenon DEF Numbered
      <4> QED BY <4>1, <4>2, Zenon
    <3> QED BY <2>2, <3>1, <3>2, Zenon
  <2>4. InFlight'
    <3>1. InFlight
      BY Zenon DEF InFlight, IInv, Accounting
    <3>2. numOutstandingPackets' = numOutstandingPackets /\ wire' = wire /\ state' = state
      BY <2>1
    <3> SUFFICES ASSUME NEW t \in Slot
                 PROVE  /\ numOutstandingPackets[t] = Cardinality({q \in Packet : <<t, q>> \in wire})
                        /\ <<t, 0>> \in wire => state[t] = "CLASS_INFO"
                        /\ \A q \in Packet : <<t, q>> \in wire =>
                             state[t] \in Working \ {"CLASS_INFO"} /\ pkt'[t][q].ports # {}
      BY <3>2, Zenon DEF InFlight
    <3>3. \A q \in Packet : pkt'[t][q].ports = pkt[t][q].ports
      BY <2>3, Zenon
    <3> QED BY <3>1, <3>3, Zenon DEF InFlight
  <2>5. numOutstandingPackets' \in [Slot -> 0 .. PmaBatchSize] /\ wire' \subseteq Slot \X (0 .. PmaBatchSize)
    BY <2>1, Zenon DEF IInv, TypeOK
  <2> QED BY <1>1, <1>2, <1>3, <1>5, <2>1, <2>3, <2>4, <2>5
<1> QED BY <1>4, <1>5, Zenon

\* What holds after a packet step whatever the thread does next.
LEMMA PacketStepInv ==
    ASSUME IInv, NEW p \in Packet, NEW result, NextPacket(run.s, p, result),
           run.pc \in {"ports", "packet"}, <<run.s, p>> \notin wire,
           UNCHANGED <<engine, main, sweep, pmnode, state, gotClassPortInfo, got, over>>,
           run' \in [pc : PCs, s : 1 .. MaxParallelNodes + 1, p : 1 .. PmaBatchSize + 1,
                     ret : {"scan", "nextnode"}]
    PROVE  TypeOK' /\ Accounting' /\ EventAtEnd' /\ Tables' /\ ~sweepDone'
<1>1. /\ run.s \in Slot /\ state[run.s] \in Working \ {"CLASS_INFO"} /\ state' = state /\ ~sweepDone
  BY Zenon DEF IInv, AtWork, Engine
<1>2. /\ InFlight'
      /\ DOMAIN info' = Slot
      /\ DOMAIN pkt' = Slot /\ \A t \in Slot : DOMAIN pkt'[t] = Packet
      /\ numOutstandingPackets' \in [Slot -> 0 .. PmaBatchSize]
      /\ wire' \subseteq Slot \X (0 .. PmaBatchSize)
      /\ status' \in [Port -> {"ok", "skip", "query", "clear"}]
      /\ exhausted' \in BOOLEAN /\ (exhausted => exhausted')
  BY <1>1, PacketStep, Zenon
<1>3. TypeOK'
  BY <1>2, Zenon DEF IInv, TypeOK, sweep
<1>4. Accounting'
  <2>1. InWork' = InWork
    BY <1>1, Zenon DEF InWork
  <2> QED BY <1>2, <2>1, Zenon DEF IInv, Accounting, InFlight, sweep
<1>5. EventAtEnd' /\ Tables' /\ ~sweepDone'
  BY <1>1, <1>2, Zenon DEF IInv, EventAtEnd, Tables, sweep
<1> QED BY <1>3, <1>4, <1>5, Zenon

\* Filling and sending the packets of a node keeps the invariant.
LEMMA StartPortsInv == ASSUME IInv, StartPorts PROVE IInv'
<1> USE ConstantFacts
<1> DEFINE s == run.s
<1>1. /\ run.pc = "ports" /\ s \in Slot /\ state[s] \in Working \ {"CLASS_INFO"} /\ ~sweepDone
      /\ main \notin {"idle", "stopped"} /\ run.p \in 1 .. PmaBatchSize + 1
      /\ UNCHANGED <<engine, main, sweep, pmnode, state, gotClassPortInfo, got, over>>
  BY Zenon DEF StartPorts, IInv, AtWork, Engine, TypeOK
<1>2. run \in [pc : PCs, s : 1 .. MaxParallelNodes + 1, p : 1 .. PmaBatchSize + 1,
               ret : {"scan", "nextnode"}] /\ s + 1 \in 1 .. MaxParallelNodes + 1
  BY <1>1 DEF IInv, TypeOK, Slot
<1>3. /\ Started \in [pc : PCs, s : 1 .. MaxParallelNodes + 1, p : 1 .. PmaBatchSize + 1,
                      ret : {"scan", "nextnode"}]
      /\ main = "starting" => Started.pc = "nodes" /\ Started.s = s + 1
      /\ main # "starting" => Started.pc = "free" /\ Started.s = s
  BY <1>2, Zenon DEF Started, PCs
<1>4. <<s, 0>> \notin wire
  BY <1>1, Zenon DEF IInv, Accounting
\* the slots after this one stay as they are
<1>5. ASSUME main = "starting", \A t \in Slot, q \in 0 .. PmaBatchSize : <<t, q>> \in wire' => <<t, q>> \in wire \/ t = s,
             exhausted => exhausted'
      PROVE  \A t \in Slot : t > s => Quiet(t)' /\ (~exhausted' => state'[t] \notin Working)
  <2> SUFFICES ASSUME NEW t \in Slot, t > s
               PROVE  Quiet(t)' /\ (~exhausted' => state'[t] \notin Working)
    OBVIOUS
  <2>1. Quiet(t) /\ (~exhausted => state[t] \notin Working) /\ t # s
    BY <1>1, <1>5 DEF IInv, Engine, Slot
  <2> QED BY <1>1, <1>5, <2>1 DEF Quiet
<1>6. CASE run.p > PmaBatchSize
  <2>1. run' = Started /\ UNCHANGED <<numOutstandingPackets, info, pkt, wire, status, exhausted>>
    BY <1>1, <1>6 DEF StartPorts
  <2>2. TypeOK'
    BY <1>1, <1>3, <2>1, Zenon DEF IInv, TypeOK, sweep
  <2>3. Accounting' /\ EventAtEnd' /\ Tables'
    <3>1. InWork' = InWork
      BY <1>1, Zenon DEF InWork
    <3>2. Accounting'
      BY <1>1, <2>1, <3>1, Zenon DEF IInv, Accounting, sweep
    <3> QED BY <1>1, <2>1, <3>2, Zenon DEF IInv, EventAtEnd, Tables, sweep
  <2>4. AtWork'
    BY <1>3, <2>1 DEF AtWork
  <2>5. Engine'
    <3>1. CASE main = "starting"
      <4>1. \A t \in Slot : t > s => Quiet(t)' /\ (~exhausted' => state'[t] \notin Working)
        BY <1>5, <2>1, <3>1, Zenon
      <4>2. \A t \in Slot : t > s + 1 \/ t = s + 1 => t > s
        BY <1>1 DEF Slot
      <4>3. run'.pc = "nodes" /\ run'.s = s + 1 /\ main' = main /\ ~sweepDone'
        BY <1>1, <1>3, <2>1, <3>1, Zenon DEF sweep
      <4> QED BY <3>1, <4>1, <4>2, <4>3, Zenon DEF Engine
    <3>2. CASE main # "starting"
      <4>1. run'.pc = "free" /\ main' = main /\ ~sweepDone'
        BY <1>1, <1>3, <2>1, <3>2, Zenon DEF sweep
      <4> QED BY <1>1, <3>2, <4>1, Zenon DEF Engine
    <3> QED BY <3>1, <3>2, Zenon
  <2> QED BY <2>2, <2>3, <2>4, <2>5 DEF IInv
<1>7. CASE run.p <= PmaBatchSize
  <2>1. run.p \in Packet /\ <<s, run.p>> \notin wire
    BY <1>1, <1>7 DEF IInv, AtWork, Packet
  <2>2. PICK result \in {"ok", "notfound", "noport"} :
          /\ NextPacket(s, run.p, result)
          /\ result = "ok" => run' = [run EXCEPT !.p = @ + 1]
          /\ result = "notfound" => run' = run
          /\ result = "noport" => run' = IF run.p > 1 THEN Started ELSE [run EXCEPT !.pc = "next"]
    BY <1>1, <1>7 DEF StartPorts
  <2>3. run' \in [pc : PCs, s : 1 .. MaxParallelNodes + 1, p : 1 .. PmaBatchSize + 1,
                  ret : {"scan", "nextnode"}]
    <3>1. run.p + 1 \in 1 .. PmaBatchSize + 1
      BY <2>1 DEF Packet
    <3> QED BY <1>2, <1>3, <2>2, <3>1, Zenon DEF PCs
  <2>4. TypeOK' /\ Accounting' /\ EventAtEnd' /\ Tables' /\ ~sweepDone'
    BY <1>1, <2>1, <2>2, <2>3, PacketStepInv, Zenon
  <2>5. /\ exhausted => exhausted'
        /\ \/ result = "ok" /\ wire' = wire \cup {<<s, run.p>>}
           \/ result # "ok" /\ wire' = wire
    BY <1>1, <2>1, <2>2, PacketStep, Zenon
  <2>6. \A t \in Slot, q \in 0 .. PmaBatchSize : <<t, q>> \in wire' => <<t, q>> \in wire \/ t = s
    BY <2>5
  <2>7. \/ run'.pc = "ports" /\ run'.s = s /\ run'.p = run.p /\ wire' = wire
        \/ run'.pc = "ports" /\ run'.s = s /\ run'.p = run.p + 1
        \/ run' = Started
        \/ run'.pc = "next" /\ run'.s = s /\ run.p = 1 /\ wire' = wire
    BY <1>1, <1>2, <2>1, <2>2, <2>5 DEF Packet
  <2>8. \A q \in Packet : q >= run.p => <<s, q>> \notin wire
    BY <1>1, Zenon DEF IInv, AtWork
  <2>9. AtWork'
    <3>1. CASE run'.pc = "ports" /\ run'.s = s /\ run'.p = run.p /\ wire' = wire
      BY <1>1, <2>8, <3>1, Zenon DEF AtWork
    <3>2. CASE run'.pc = "ports" /\ run'.s = s /\ run'.p = run.p + 1
      <4>1. \A q \in Packet : q >= run.p + 1 => <<s, q>> \notin wire'
        BY <2>1, <2>5, <2>8 DEF Packet
      <4> QED BY <1>1, <3>2, <4>1, Zenon DEF AtWork
    <3>3. CASE run' = Started
      BY <1>3, <3>3, Zenon DEF AtWork
    <3>4. CASE run'.pc = "next" /\ run'.s = s /\ run.p = 1 /\ wire' = wire
      <4>1. Quiet(s)'
        BY <1>4, <2>8, <3>4 DEF Quiet, Packet
      <4> QED BY <1>1, <3>4, <4>1, Zenon DEF AtWork
    <3> QED BY <2>7, <3>1, <3>2, <3>3, <3>4, Zenon
  <2>10. Engine'
    <3>1. CASE main = "starting"
      <4>1. \A t \in Slot : t > s => Quiet(t)' /\ (~exhausted' => state'[t] \notin Working)
        BY <1>5, <2>5, <2>6, <3>1, Zenon
      <4>2. \A t \in Slot : t > s + 1 \/ t = s + 1 => t > s
        BY <1>1 DEF Slot
      <4>3. \/ run'.pc \in {"ports", "next"} /\ run'.s = s
            \/ run'.pc = "nodes" /\ run'.s = s + 1
        BY <1>3, <2>7, <3>1, Zenon
      <4> QED BY <1>1, <2>4, <3>1, <4>1, <4>2, <4>3, Zenon DEF Engine
    <3>2. CASE main # "starting"
      <4>1. run'.pc \in {"ports", "next", "free"}
        BY <1>3, <2>7, <3>2, Zenon
      <4> QED BY <1>1, <2>4, <3>2, <4>1, Zenon DEF Engine
    <3> QED BY <3>1, <3>2, Zenon
  <2> QED BY <2>4, <2>9, <2>10, Zenon DEF IInv
<1> QED BY <1>1, <1>6, <1>7

\* Refilling a packet after its callback keeps the invariant.
LEMMA PacketNextInv == ASSUME IInv, PacketNext PROVE IInv'
<1> USE ConstantFacts
<1> DEFINE s == run.s
<1>1. /\ run.pc = "packet" /\ s \in Slot /\ state[s] \in Working \ {"CLASS_INFO"} /\ ~sweepDone
      /\ main = "waiting" /\ run.p \in Packet /\ <<s, run.p>> \notin wire
      /\ UNCHANGED <<engine, main, sweep, pmnode, state, gotClassPortInfo, got, over>>
  BY DEF PacketNext, IInv, AtWork, Engine, TypeOK
<1>2. PICK result \in {"ok", "notfound", "noport"} :
        /\ NextPacket(s, run.p, result)
        /\ result = "ok" => run' = [run EXCEPT !.pc = "free"]
        /\ result # "ok" => run' = [run EXCEPT !.pc = IF numOutstandingPackets[s] > 0 THEN "free"
                                                                                     ELSE "next"]
  BY DEF PacketNext
<1>3. /\ run' \in [pc : PCs, s : 1 .. MaxParallelNodes + 1, p : 1 .. PmaBatchSize + 1,
                   ret : {"scan", "nextnode"}]
      /\ \/ run'.pc = "free"
         \/ run'.pc = "next" /\ run'.s = s /\ result # "ok" /\ ~(numOutstandingPackets[s] > 0)
  <2>1. run \in [pc : PCs, s : 1 .. MaxParallelNodes + 1, p : 1 .. PmaBatchSize + 1,
                 ret : {"scan", "nextnode"}]
    BY DEF IInv, TypeOK
  <2> QED BY <1>2, <2>1, Zenon DEF PCs
<1>4. TypeOK' /\ Accounting' /\ EventAtEnd' /\ Tables' /\ ~sweepDone'
  BY <1>1, <1>2, <1>3, PacketStepInv, Zenon
<1>5. result # "ok" => wire' = wire
  BY <1>1, <1>2, PacketStep, Zenon
<1>6. AtWork'
  <2>1. CASE run'.pc = "free"
    BY <2>1, Zenon DEF AtWork
  <2>2. CASE run'.pc = "next" /\ run'.s = s /\ result # "ok" /\ ~(numOutstandingPackets[s] > 0)
    <3>1. numOutstandingPackets[s] \in 0 .. PmaBatchSize
          /\ numOutstandingPackets[s] = Cardinality(PacketsOf(wire, s))
      <4>1. numOutstandingPackets[s] \in 0 .. PmaBatchSize
        BY <1>1, Zenon DEF IInv, TypeOK
      <4>2. numOutstandingPackets[s] = Cardinality(PacketsOf(wire, s))
        BY <1>1, Zenon DEF IInv, Accounting, PacketsOf
      <4> QED BY <4>1, <4>2, Zenon
    <3>2. PacketsOf(wire, s) = {}
      BY <1>1, <2>2, <3>1, CountPackets
    <3>3. <<s, 0>> \notin wire
      BY <1>1, Zenon DEF IInv, Accounting
    <3>4. \A p \in 0 .. PmaBatchSize : p = 0 \/ p \in Packet
      BY DEF Packet
    <3>5. Quiet(s)'
      BY <1>5, <2>2, <3>2, <3>3, <3>4 DEF Quiet, PacketsOf
    <3> QED BY <1>1, <2>2, <3>5, Zenon DEF AtWork
  <2> QED BY <1>3, <2>1, <2>2, Zenon
<1>7. Engine'
  BY <1>1, <1>3, <1>4 DEF Engine
<1> QED BY <1>4, <1>6, <1>7 DEF IInv

\* The answer to a packet keeps the invariant.
LEMMA PacketCallbackInv ==
    ASSUME IInv, NEW s \in Slot, NEW p \in Packet, PacketCallback(s, p) PROVE IInv'
<1> USE ConstantFacts
<1>1. /\ run.pc = "free" /\ <<s, p>> \in wire /\ wire' = wire \ {<<s, p>>}
      /\ numOutstandingPackets' = [numOutstandingPackets EXCEPT ![s] = @ - 1]
      /\ run' = [run EXCEPT !.pc = "packet", !.s = s, !.p = p, !.ret = "nextnode"]
      /\ UNCHANGED <<engine, main, sweep, pmnode, state, gotClassPortInfo, exhausted>>
  BY DEF PacketCallback
<1>2. main = "waiting" /\ ~sweepDone
  BY <1>1, CallbackTime
<1>3. state[s] \in Working \ {"CLASS_INFO"}
  BY <1>1, Zenon DEF IInv, Accounting
<1>4. /\ run'.pc = "packet" /\ run'.s = s /\ run'.p = p
      /\ run' \in [pc : PCs, s : 1 .. MaxParallelNodes + 1, p : 1 .. PmaBatchSize + 1,
                   ret : {"scan", "nextnode"}]
  <2>1. run \in [pc : PCs, s : 1 .. MaxParallelNodes + 1, p : 1 .. PmaBatchSize + 1,
                 ret : {"scan", "nextnode"}]
    BY DEF IInv, TypeOK
  <2>2. s \in 1 .. MaxParallelNodes + 1 /\ p \in 1 .. PmaBatchSize + 1
    BY DEF Slot, Packet
  <2> QED BY <1>1, <2>1, <2>2, Zenon DEF PCs
<1>5. /\ DOMAIN pkt' = Slot /\ \A t \in Slot : DOMAIN pkt'[t] = Packet
      /\ \A t \in Slot, q \in Packet : t # s \/ q # p => pkt'[t][q] = pkt[t][q]
  <2> DEFINE x == [ports |-> {}, VLSelectMask |-> pkt[s][p].VLSelectMask,
                   numVLs |-> pkt[s][p].numVLs]
  <2>1. pkt' = [pkt EXCEPT ![s][p] = x]
    BY Zenon DEF PacketCallback
  <2> HIDE DEF x
  <2> QED BY <2>1, Zenon DEF IInv, TypeOK, Tables
<1>6. \A t \in Slot : numOutstandingPackets'[t] = Cardinality(PacketsOf(wire', t))
  <2>1. \A t \in Slot : numOutstandingPackets[t] = Cardinality(PacketsOf(wire, t))
    BY Zenon DEF IInv, Accounting, PacketsOf
  <2>2. /\ Cardinality(PacketsOf(wire', s)) = Cardinality(PacketsOf(wire, s)) - 1
        /\ \A t \in Slot \ {s} : PacketsOf(wire', t) = PacketsOf(wire, t)
    BY <1>1, EndPacket
  <2>3. /\ numOutstandingPackets'[s] = numOutstandingPackets[s] - 1
        /\ \A t \in Slot \ {s} : numOutstandingPackets'[t] = numOutstandingPackets[t]
    BY <1>1 DEF IInv, TypeOK
  <2> QED BY <2>1, <2>2, <2>3, Zenon
<1>7. TypeOK'
  <2>1. numOutstandingPackets' \in [Slot -> 0 .. PmaBatchSize]
    <3>1. \A t \in Slot : numOutstandingPackets'[t] \in 0 .. PmaBatchSize
      BY <1>6, CountPackets
    <3>2. numOutstandingPackets' = [t \in Slot |-> numOutstandingPackets'[t]]
      BY <1>1, Zenon DEF IInv, TypeOK
    <3> QED BY <3>1, <3>2, Zenon
  <2>2. DOMAIN info' = Slot
    BY DEF PacketCallback, IInv, TypeOK
  <2>3. status' \in [Port -> {"ok", "skip", "query", "clear"}]
    <3>1. status' = status \/ status' = Fail(pkt[s][p].ports, Why(s))
      BY DEF PacketCallback, image
    <3>2. Why(s) \in {"clear", "query"}
      BY DEF Why
    <3>3. status \in [Port -> {"ok", "skip", "query", "clear"}]
      BY DEF IInv, TypeOK
    <3> QED BY <3>1, <3>2, <3>3 DEF Fail
  <2>4. got' \in [Port -> SUBSET {"data", "error"}] /\ over' \subseteq Port
    <3>1. \/ UNCHANGED <<got, over>>
          \/ \E kinds \in SUBSET {"data", "error"} : CountersRead(pkt[s][p].ports, kinds)
      <4>1. \A k \in {"data", "error"} : {k} \in SUBSET {"data", "error"}
        OBVIOUS
      <4>2. {"data", "error"} \in SUBSET {"data", "error"}
        OBVIOUS
      <4>3. \/ UNCHANGED <<got, over>>
            \/ CountersRead(pkt[s][p].ports, {"data"})
            \/ CountersRead(pkt[s][p].ports, {"error"})
            \/ CountersRead(pkt[s][p].ports, {"data", "error"})
        BY Zenon DEF PacketCallback, image
      <4> QED BY <4>1, <4>2, <4>3, Zenon
    <3>2. CASE UNCHANGED <<got, over>>
      BY <3>2, Zenon DEF IInv, TypeOK
    <3>3. ASSUME NEW kinds \in SUBSET {"data", "error"}, CountersRead(pkt[s][p].ports, kinds)
          PROVE  got' \in [Port -> SUBSET {"data", "error"}] /\ over' \subseteq Port
      <4>1. got' = [q \in Port |-> IF q \in pkt[s][p].ports THEN got[q] \cup kinds ELSE got[q]]
        BY <3>3, Zenon DEF CountersRead
      <4>2. \A q \in Port : got[q] \in SUBSET {"data", "error"}
        BY Zenon DEF IInv, TypeOK
      <4>3. PICK high \in SUBSET (pkt[s][p].ports \cap Busy) : over' = (over \ pkt[s][p].ports) \cup high
        BY <3>3, Zenon DEF CountersRead
      <4>4. over' \subseteq Port
        BY <4>3, PmAssumption, Zenon DEF IInv, TypeOK
      <4>5. \A q \in Port : (IF q \in pkt[s][p].ports THEN got[q] \cup kinds ELSE got[q])
                              \in SUBSET {"data", "error"}
        BY <4>2, Zenon
      <4> QED BY <4>1, <4>4, <4>5, Zenon
    <3> QED BY <3>1, <3>2, <3>3, Zenon
  <2>5. wire' \subseteq Slot \X (0 .. PmaBatchSize)
    BY <1>1 DEF IInv, TypeOK
  <2> QED BY <1>1, <1>4, <1>5, <2>1, <2>2, <2>3, <2>4, <2>5, Zenon DEF IInv, TypeOK, sweep
<1>8. Accounting'
  <2>1. InFlight'
    <3> SUFFICES ASSUME NEW t \in Slot
                 PROVE  /\ <<t, 0>> \in wire' => state'[t] = "CLASS_INFO"
                        /\ \A q \in Packet : <<t, q>> \in wire' =>
                             state'[t] \in Working \ {"CLASS_INFO"} /\ pkt'[t][q].ports # {}
      BY <1>6, Zenon DEF InFlight, PacketsOf
    <3>1. <<t, 0>> \in wire' => state'[t] = "CLASS_INFO"
      BY <1>1, Zenon DEF IInv, Accounting
    <3>2. ASSUME NEW q \in Packet, <<t, q>> \in wire'
          PROVE  state'[t] \in Working \ {"CLASS_INFO"} /\ pkt'[t][q].ports # {}
      <4>1. <<t, q>> \in wire /\ (t # s \/ q # p)
        BY <1>1, <3>2
      <4>2. pkt'[t][q] = pkt[t][q] /\ state'[t] = state[t]
        BY <1>1, <1>5, <4>1
      <4> QED BY <4>1, <4>2, Zenon DEF IInv, Accounting
    <3> QED BY <3>1, <3>2, Zenon
  <2>2. InWork' = InWork
    BY <1>1 DEF InWork
  <2> QED BY <1>1, <2>1, <2>2, Zenon DEF IInv, Accounting, InFlight, sweep
<1>9. EventAtEnd' /\ Tables'
  BY <1>1, <1>2, <1>5 DEF IInv, EventAtEnd, Tables, sweep
<1>10. AtWork'
  BY <1>1, <1>3, <1>4 DEF AtWork
<1>11. Engine'
  BY <1>1, <1>2, <1>4 DEF Engine, sweep
<1> QED BY <1>7, <1>8, <1>9, <1>10, <1>11 DEF IInv

-----------------------------------------------------------------------------
\* A stuttering step keeps the invariant.
LEMMA StutterInv == ASSUME IInv, UNCHANGED vars PROVE IInv'
<1>1. UNCHANGED <<engine, main, run, nextLid, numOutstandingNodes, postedEvent, sweepDone,
                  FailedNodes, pmnode, state, numOutstandingPackets, info, pkt, wire,
                  gotClassPortInfo, status, got, over, exhausted>>
  BY Zenon DEF vars
<1>2. TypeOK' /\ EventAtEnd' /\ Tables' /\ InWork' = InWork
  BY <1>1, Zenon DEF IInv, TypeOK, EventAtEnd, Tables, InWork
<1>3. Accounting'
  BY <1>1, <1>2, Zenon DEF IInv, Accounting
<1>4. AtWork' /\ Engine'
  BY <1>1, <1>2, Zenon DEF IInv, AtWork, Engine, Quiet
<1> QED BY <1>2, <1>3, <1>4 DEF IInv

\* Every step keeps the invariant.
LEMMA StepInv == IInv /\ [Next]_vars => IInv'
<1> SUFFICES ASSUME IInv, [Next]_vars PROVE IInv'
  OBVIOUS
<1>1. CASE SweepBegin
  BY <1>1, SweepBeginInv
<1>2. CASE SweepEnd \/ EngineStop \/ StartNodes
  BY <1>2, EngineInv
<1>3. CASE NextNode \/ ScanEnd \/ ScanSkip
  BY <1>3, ScanInv, Zenon
<1>4. CASE DispatchNode
  BY <1>4, DispatchNodeInv
<1>5. CASE QueryNode
  BY <1>5, QueryNodeInv
<1>6. CASE QueryNodeFails
  BY <1>6, QueryNodeFailsInv
<1>7. CASE StartData
  BY <1>7, StartDataInv
<1>8. CASE StartPorts
  BY <1>8, StartPortsInv
<1>9. CASE GetErrorCounters \/ ClearPortStatus
  BY <1>9, NextStateInv, Zenon
<1>10. CASE NodeIsDone
  BY <1>10, NodeIsDoneInv
<1>11. CASE PacketNext
  BY <1>11, PacketNextInv
<1>12. CASE Callback
  <2>1. PICK s \in Slot : NodeCallback(s) \/ \E p \in Packet : PacketCallback(s, p)
    BY <1>12 DEF Callback
  <2> QED BY <2>1, NodeCallbackInv, PacketCallbackInv, Zenon
<1>13. CASE UNCHANGED vars
  BY <1>13, StutterInv
<1> QED BY <1>1, <1>2, <1>3, <1>4, <1>5, <1>6, <1>7, <1>8, <1>9, <1>10, <1>11, <1>12, <1>13, Zenon
        DEF Next, Run

\* The invariant holds in every behaviour.
LEMMA Invariance == Spec => []IInv
<1>1. Init => IInv
  BY InitInv
<1>2. IInv /\ [Next]_vars => IInv'
  BY StepInv
<1> QED BY <1>1, <1>2, PTL DEF Spec

(* Type correctness, for every number of slots, packets and nodes.         *)
THEOREM TypeCorrect == Spec => []TypeOK
<1>1. IInv => TypeOK
  BY DEF IInv
<1> QED BY <1>1, Invariance, PTL

(* The counts by which the dispatcher decides that a node and that the     *)
(* sweep is over agree with what is in flight, whatever fails and in       *)
(* whatever order the callbacks come.                                      *)
THEOREM CountsAgree == Spec => []Accounting
<1>1. IInv => Accounting
  BY DEF IInv
<1> QED BY <1>1, Invariance, PTL

(* The engine thread is woken at the end of the sweep and not before.      *)
THEOREM WokenAtEnd == Spec => []EventAtEnd
<1>1. IInv => EventAtEnd
  BY DEF IInv
<1> QED BY <1>1, Invariance, PTL

\* An entry of the context per packet of a slot: the query of a node takes the
\* place of its first packet, and the place x is free.
LEMMA EntryFor ==
    ASSUME IInv, NEW s \in Slot, NEW p \in Packet, <<s, p>> \notin wire,
           <<s, 0>> \in wire => p # 1
    PROVE  CanSend
<1> DEFINE T == (Slot \X Packet) \ {<<s, p>>}
           place == [e \in wire |-> IF e[2] = 0 THEN <<e[1], 1>> ELSE e]
<1>1. wire \subseteq Slot \X (0 .. PmaBatchSize)
  BY Zenon DEF IInv, TypeOK
<1>2. IsFiniteSet(wire) /\ Cardinality(wire) \in Nat
  <2>1. IsFiniteSet(0 .. PmaBatchSize)
    BY FS_Interval, ConstantFacts
  <2>2. IsFiniteSet(Slot \X (0 .. PmaBatchSize))
    BY <2>1, Finite, FS_Product, Zenon
  <2> QED BY <1>1, <2>2, FS_Subset, FS_CardinalityType, Zenon
<1>3. IsFiniteSet(T) /\ Cardinality(T) = PoolSize - 1 /\ PoolSize \in Int
  <2>1. IsFiniteSet(Slot \X Packet) /\ Cardinality(Slot \X Packet) = PoolSize
    BY Finite, FS_Product DEF PoolSize
  <2>2. <<s, p>> \in Slot \X Packet
    OBVIOUS
  <2>3. IsFiniteSet(T) /\ Cardinality(T) = Cardinality(Slot \X Packet) - 1
    BY <2>1, <2>2, FS_RemoveElement, Zenon
  <2>4. PoolSize \in Nat
    BY <2>1, FS_CardinalityType
  <2> QED BY <2>1, <2>3, <2>4
<1>4. \A e \in wire : /\ e = <<e[1], e[2]>> /\ e[1] \in Slot
                      /\ e[2] = 0 \/ e[2] \in Packet
  BY <1>1, ConstantFacts DEF Packet
<1>5. place \in [wire -> T]
  <2> SUFFICES ASSUME NEW e \in wire PROVE (IF e[2] = 0 THEN <<e[1], 1>> ELSE e) \in T
    OBVIOUS
  <2>1. 1 \in Packet
    BY ConstantFacts DEF Packet
  <2>2. CASE e[2] = 0
    BY <1>4, <2>1, <2>2, Zenon
  <2>3. CASE e[2] # 0
    BY <1>4, <2>3
  <2> QED BY <2>2, <2>3
<1>6. \A e, f \in wire : place[e] = place[f] => e = f
  <2> SUFFICES ASSUME NEW e \in wire, NEW f \in wire, place[e] = place[f], e # f PROVE FALSE
    BY Zenon
  <2>1. ASSUME NEW g \in wire, NEW h \in wire, g[2] = 0, h[2] # 0, h = <<g[1], 1>> PROVE FALSE
    <3>1. state[g[1]] = "CLASS_INFO"
      <4>1. g[1] \in Slot /\ <<g[1], 0>> \in wire
        BY <1>4, <2>1, Zenon
      <4>2. \A t \in Slot : <<t, 0>> \in wire => state[t] = "CLASS_INFO"
        BY Zenon DEF IInv, Accounting
      <4> QED BY <4>1, <4>2, Zenon
    <3>2. h[1] = g[1] /\ h[2] \in Packet /\ <<h[1], h[2]>> \in wire
      BY <1>4, <2>1
    <3>3. state[g[1]] # "CLASS_INFO"
      BY <1>4, <2>1, <3>2, Zenon DEF IInv, Accounting
    <3> QED BY <3>1, <3>3, Zenon
  <2>2. CASE e[2] = 0 /\ f[2] = 0
    BY <1>4, <2>2
  <2>3. CASE e[2] = 0 /\ f[2] # 0
    BY <2>1, <2>3
  <2>4. CASE e[2] # 0 /\ f[2] = 0
    BY <2>1, <2>4, Zenon
  <2>5. CASE e[2] # 0 /\ f[2] # 0
    BY <2>5, Zenon
  <2> QED BY <2>2, <2>3, <2>4, <2>5, Zenon
<1>7. ~(Cardinality(T) < Cardinality(wire))
  <2> HIDE DEF T, place
  <2> QED BY <1>2, <1>3, <1>5, <1>6, FS_PigeonHole
<1> HIDE DEF T
<1> QED BY <1>2, <1>3, <1>7 DEF CanSend

(* The pool of the context, sized once by PmDispatcherInit, has an entry   *)
(* for every request the dispatcher comes to send.                         *)
THEOREM PoolSuffices == Spec => []ContextsSuffice
<1>1. IInv => ContextsSuffice
  <2> SUFFICES ASSUME IInv, run.pc \in {"scan", "ports", "packet"}, run.p <= PmaBatchSize
               PROVE  CanSend
    BY Zenon DEF ContextsSuffice
  <2>1. run.s \in Slot /\ 1 \in Packet /\ run.p \in Packet
    BY ConstantFacts DEF IInv, AtWork, TypeOK, Packet
  <2>2. CASE run.pc = "scan"
    <3>1. Quiet(run.s) /\ 0 \in 0 .. PmaBatchSize /\ 1 \in 0 .. PmaBatchSize
      BY <2>2, ConstantFacts DEF IInv, AtWork
    <3> QED BY <2>1, <3>1, EntryFor, Zenon DEF Quiet
  <2>3. CASE run.pc \in {"ports", "packet"}
    <3>1. <<run.s, run.p>> \notin wire
      BY <2>1, <2>3 DEF IInv, AtWork, TypeOK, Packet
    <3>2. <<run.s, 0>> \notin wire
      BY <2>1, <2>3, Zenon DEF IInv, AtWork, Accounting
    <3> QED BY <2>1, <3>1, <3>2, EntryFor
  <2> QED BY <2>2, <2>3
<1> QED BY <1>1, Invariance, PTL
=============================================================================
