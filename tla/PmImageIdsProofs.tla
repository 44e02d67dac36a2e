--------------------------- MODULE PmImageIdsProofs ---------------------------
(***************************************************************************)
(* Proofs about image ids, for every ring of images that pm.c admits and   *)
(* every number of clients: sweep numbers are given once, a query sees one *)
(* sweep, and a freeze gives out a reference that nobody had.              *)
(***************************************************************************)
EXTENDS PmImagesProofs

-----------------------------------------------------------------------------
(* Sweep numbers.  The SM's role changes once at most: when it turns       *)
(* standby again before PmDbsync has reset isFirstImg, sweep numbers are   *)
(* given a second time.                                                    *)

\* What one change of role admits: a receiver that outlives its standby finds the
\* engine idle, and a sweep that outlives its master finds no image received yet.
TurnInv ==
    /\ count.turns <= 1
    /\ master /\ count.turns = 0 => rx = -1 /\ lock # "receive"
    /\ master /\ lock = "receive" => engine.pc = "idle"
    /\ ~master /\ count.turns = 0 => engine.pc \in {"idle", "locking"}
    /\ engine.pc = "sweeping" /\ ~master => rx = -1

\* An image that has the number of a sweep: a valid one, or one that waits to be
\* published.
Numbered(i) == state[i] = "valid" \/ (engine.pc = "publish" /\ engine.img = i)

IdsHeld(c) == {client[c].at, client[c].ff} \ {NoId}

\* A received image may come.
MayReceive == ~master \/ lock = "receive"

\* Every number given so far is smaller.
Below(m) ==
    /\ \A i \in Image : state[i] = "valid" => sweepNum[i] < m
    /\ \A c \in Client : \A id \in IdsHeld(c) : id.sweepNum < m

\* The engine's next number, and the receiver's where an image may come, is new.
NumInv ==
    /\ Below(NumSweeps)
    /\ MayReceive => Below(Received) /\ Received <= NumSweeps
    /\ engine.pc \in {"locking", "sweeping"} => sweepNum[engine.img] = NumSweeps
    /\ engine.pc = "publish" =>
         \/ engine.img = SweepIndex /\ sweepNum[engine.img] = NumSweeps /\ (master \/ rx = -1)
         \/ ~master /\ rx # -1 /\ sweepNum[engine.img] < Received

\* No two images have the number of the same sweep, and an id that a client holds
\* stands for the fill of the image with its number.
PairInv ==
    /\ \A i, j \in Image : Numbered(i) /\ Numbered(j) /\ sweepNum[i] = sweepNum[j] => i = j
    /\ \A c \in Client : \A id \in IdsHeld(c) : \A i \in Image :
          Numbered(i) /\ sweepNum[i] = id.sweepNum => data[i] = id.of

IdInv == IInv /\ Types /\ TurnInv /\ NumInv /\ PairInv

\* Every step keeps what one change of role admits.
LEMMA TurnStep ==
    ASSUME MaxTurns <= 1
    PROVE  IInv /\ Types /\ TurnInv /\ [Next]_vars => TurnInv'
<1> SUFFICES ASSUME IInv, Types, TurnInv, [Next]_vars PROVE TurnInv'
  OBVIOUS
<1>0. /\ count \in [fills : Nat, freezes : Nat, turns : Nat] /\ MaxTurns \in Nat
      /\ engine \in [pc : {"idle", "locking", "sweeping", "publish"}, img : Image, gone : SUBSET Image]
  BY ImagesAssumption DEF Types, NumberTypes, IInv
<1>1. CASE ClientMoves
  <2>1. Untouched
    BY <1>1, ClientMovesLeave
  <2> QED BY <2>1 DEF Untouched, TurnInv
<1>2. CASE SweepBegins
  <2>1. /\ lock = "none" /\ lock' = "engine" /\ UNCHANGED <<count, master, rx>>
        /\ engine'.pc = "locking"
    BY <1>2 DEF SweepBegins, StateFree
  <2> QED BY <2>1 DEF TurnInv
<1>3. CASE SweepFills
  <2>1. /\ lock' = "none" /\ UNCHANGED <<master, rx>> /\ engine'.pc = "sweeping" /\ master
        /\ count'.turns = count.turns
    BY <1>0, <1>3 DEF SweepFills
  <2> QED BY <2>1 DEF TurnInv
<1>4. CASE SweepIsStandby \/ Publish
  <2>1. UNCHANGED <<count, master, rx>> /\ engine'.pc = "idle" /\ lock' \in {lock, "none"}
    BY <1>4 DEF SweepIsStandby, Publish
  <2> QED BY <2>1 DEF TurnInv
<1>5. CASE SweepEnds
  <2>1. UNCHANGED <<count, master, rx, lock>> /\ engine.pc = "sweeping" /\ engine'.pc = "publish"
    BY <1>0, <1>5 DEF SweepEnds
  <2> QED BY <2>1 DEF TurnInv
<1>6. CASE ReceiveBegins
  <2>1. UNCHANGED <<count, master, rx, engine>> /\ ~master
    BY <1>6 DEF ReceiveBegins
  <2> QED BY <2>1 DEF TurnInv
<1>7. CASE ReceiveEnds
  <2>1. /\ lock = "receive" /\ lock' = "none" /\ UNCHANGED <<master, engine>> /\ engine.pc # "sweeping"
        /\ count'.turns = count.turns
    BY <1>0, <1>7, Zenon DEF ReceiveEnds, Unwritten, IInv
  <2> QED BY <2>1 DEF TurnInv
<1>8. CASE RoleChanges
  <2>1. /\ UNCHANGED <<rx, lock, engine>> /\ count.turns < 1 /\ count'.turns = count.turns + 1
    BY <1>0, <1>8 DEF RoleChanges
  <2>2. master' = ~master
    BY <1>8 DEF RoleChanges
  <2>3. count.turns = 0 /\ count'.turns = 1
    BY <1>0, <2>1
  <2>4. engine.pc = "locking" => lock = "engine"
    BY DEF IInv
  <2> QED BY <2>1, <2>2, <2>3, <2>4 DEF TurnInv
<1>9. CASE DbsyncMaster
  BY <1>9, Zenon DEF DbsyncMaster, TurnInv
<1>10. CASE UNCHANGED vars
  BY <1>10, Zenon DEF vars, TurnInv
<1> QED
  BY <1>1, <1>2, <1>3, <1>4, <1>5, <1>6, <1>7, <1>8, <1>9, <1>10, TwoSides, Zenon DEF EngineMoves, Sweeps

\* What a client does keeps the numbers and what they stand for: its new ids are
\* copied from valid images.
LEMMA ClientMovesKeepIds ==
    ASSUME IdInv, ClientMoves
    PROVE  NumInv' /\ PairInv'
<1>1. Untouched /\ \A c \in Client : IdsFrom(c)
  BY ClientMovesLeave, ClientMovesDo DEF IdInv
<1>2. /\ UNCHANGED <<state, sweepNum, SweepIndex, NumSweeps, lock, rx, master, data>>
      /\ engine'.pc = engine.pc /\ engine'.img = engine.img
  BY <1>1 DEF Untouched, ring
<1>3. ASSUME NEW c \in Client, NEW id \in IdsHeld(c)'
      PROVE  id \in IdsHeld(c) \/ Copied(id)
  BY <1>1, Zenon DEF IdsHeld, IdsFrom
<1>4. ASSUME NEW m, Below(m) PROVE Below(m)'
  BY <1>2, <1>3, <1>4, Zenon DEF Below, Copied
<1>5. Received' = Received /\ (MayReceive' <=> MayReceive) /\ \A i : Numbered(i)' <=> Numbered(i)
  BY <1>2 DEF Received, MayReceive, Numbered
<1>6. NumInv'
  <2>1. Below(NumSweeps)' /\ (MayReceive => Below(Received)' /\ Received <= NumSweeps)
    BY <1>2, <1>4, <1>5, Zenon DEF IdInv, NumInv
  <2> QED BY <1>2, <1>5, <2>1, Zenon DEF IdInv, NumInv
<1>7. PairInv'
  <2>1. \A i, j \in Image : Numbered(i)' /\ Numbered(j)' /\ sweepNum'[i] = sweepNum'[j] => i = j
    BY <1>2, <1>5 DEF IdInv, PairInv
  <2>2. ASSUME NEW c \in Client, NEW id \in IdsHeld(c)', NEW i \in Image, Numbered(i)',
               sweepNum'[i] = id.sweepNum
        PROVE  data'[i] = id.of
    <3>1. Numbered(i) /\ sweepNum[i] = id.sweepNum
      BY <1>2, <1>5, <2>2, Zenon
    <3>2. CASE id \in IdsHeld(c)
      BY <1>2, <3>1, <3>2, Zenon DEF IdInv, PairInv
    <3>3. CASE Copied(id)
      BY <1>2, <3>1, <3>3, Zenon DEF IdInv, PairInv, Copied, Numbered
    <3> QED BY <1>3, <3>2, <3>3, Zenon
  <2> QED BY <2>1, <2>2 DEF PairInv
<1> QED BY <1>6, <1>7

\* Numbers are naturals.
LEMMA NumbersAre ==
    ASSUME Types
    PROVE  /\ NumSweeps \in Nat /\ Received \in Nat
           /\ \A i \in Image : sweepNum[i] \in Nat
           /\ \A c \in Client : \A id \in IdsHeld(c) : id.sweepNum \in Nat
<1>1. \A c \in Client : client[c].at \in HistoryIds \cup {NoId} /\ client[c].ff \in FreezeIds \cup {NoId}
  BY DEF Types, ClientTypes, ClientRecord
<1>2. \A c \in Client : \A id \in IdsHeld(c) : id \in HistoryIds \cup FreezeIds
  BY <1>1 DEF IdsHeld
<1>3. \A id \in HistoryIds \cup FreezeIds : id.sweepNum \in Nat
  BY DEF HistoryIds, FreezeIds
<1> QED BY <1>2, <1>3 DEF Types, NumberTypes, Received

\* The numbers stay below a bound when no image becomes valid.
LEMMA BelowKeeps ==
    ASSUME NEW m, Below(m), UNCHANGED client,
           \A i \in Image : state'[i] = "valid" => state[i] = "valid" /\ sweepNum'[i] = sweepNum[i]
    PROVE  Below(m)'
BY Zenon DEF Below, IdsHeld

\* A sweep begins: the number it gives to the image in SweepIndex is one that no valid
\* image and no id has.
LEMMA BeginsKeepsIds ==
    ASSUME IdInv, SweepBegins
    PROVE  NumInv' /\ PairInv'
<1>1. /\ lock' = "engine" /\ UNCHANGED <<client, SweepIndex, NumSweeps, rx, master, data>>
      /\ engine.pc = "idle" /\ engine'.pc = "locking" /\ engine'.img = SweepIndex
  BY DEF SweepBegins
<1>2. /\ sweepNum' = [sweepNum EXCEPT ![SweepIndex] = NumSweeps]
      /\ state' = [state EXCEPT ![SweepIndex] = "inprogress"]
      /\ SweepIndex \in Image /\ sweepNum \in [Image -> Nat]
      /\ state \in [Image -> {"invalid", "valid", "inprogress"}]
  BY DEF SweepBegins, IdInv, IInv, Types, NumberTypes
<1>3. \A i \in Image : state'[i] = "valid" => state[i] = "valid" /\ sweepNum'[i] = sweepNum[i]
  BY <1>2
<1>4. Received' = Received /\ (MayReceive' => MayReceive)
  BY <1>1 DEF Received, MayReceive
<1>5. NumInv'
  <2>1. Below(NumSweeps)' /\ (MayReceive' => Below(Received)' /\ Received' <= NumSweeps')
    BY <1>1, <1>3, <1>4, BelowKeeps, Zenon DEF IdInv, NumInv
  <2>2. sweepNum'[engine'.img] = NumSweeps'
    BY <1>1, <1>2
  <2> QED BY <1>1, <2>1, <2>2, Zenon DEF NumInv
<1>6. \A i \in Image : Numbered(i)' => Numbered(i) /\ sweepNum'[i] = sweepNum[i]
  BY <1>1, <1>3, Zenon DEF Numbered
<1>7. PairInv'
  BY <1>1, <1>6 DEF IdInv, PairInv, IdsHeld
<1> QED BY <1>5, <1>7

\* The counters overwrite an image that is not valid.
LEMMA FillsKeepsIds ==
    ASSUME IdInv, SweepFills
    PROVE  NumInv' /\ PairInv'
<1>1. /\ lock' = "none" /\ UNCHANGED <<client, state, sweepNum, SweepIndex, NumSweeps, rx, master>>
      /\ master /\ engine.pc = "locking" /\ engine'.pc = "sweeping" /\ engine'.img = engine.img
      /\ engine.img = SweepIndex /\ state[SweepIndex] # "valid"
  BY DEF SweepFills, ring, IdInv, IInv
<1>2. \A i \in Image : state[i] = "valid" => data'[i] = data[i]
  BY <1>1 DEF SweepFills, IdInv, Types, NumberTypes
<1>3. NumInv'
  <2>1. Below(NumSweeps)'
    BY <1>1, BelowKeeps, Zenon DEF IdInv, NumInv
  <2> QED BY <1>1, <2>1, Zenon DEF IdInv, NumInv, MayReceive
<1>4. \A i \in Image : Numbered(i)' => Numbered(i) /\ data'[i] = data[i]
  BY <1>1, <1>2, Zenon DEF Numbered
<1>5. PairInv'
  BY <1>1, <1>4, Zenon DEF IdInv, PairInv, IdsHeld
<1> QED BY <1>3, <1>5

\* A sweep on a standby gives up the image it has.
LEMMA StandbyKeepsIds ==
    ASSUME IdInv, SweepIsStandby
    PROVE  NumInv' /\ PairInv'
<1>1. /\ UNCHANGED <<client, state, sweepNum, SweepIndex, NumSweeps, rx, master, data>>
      /\ ~master /\ engine.pc = "locking" /\ engine'.pc = "idle"
  BY DEF SweepIsStandby, ring
<1>2. Received' = Received /\ MayReceive
  BY <1>1 DEF Received, MayReceive
<1>3. NumInv'
  <2>1. Below(NumSweeps)' /\ Below(Received)' /\ Received' <= NumSweeps'
    BY <1>1, <1>2, BelowKeeps, Zenon DEF IdInv, NumInv
  <2> QED BY <1>1, <2>1, Zenon DEF NumInv
<1>4. \A i \in Image : Numbered(i)' => Numbered(i)
  BY <1>1, Zenon DEF Numbered
<1>5. PairInv'
  BY <1>1, <1>4, Zenon DEF IdInv, PairInv, IdsHeld
<1> QED BY <1>3, <1>5

\* A sweep ends: its image has a number that no other image and no id has.
LEMMA EndsKeepsIds ==
    ASSUME IdInv, SweepEnds
    PROVE  NumInv' /\ PairInv'
<1>1. /\ UNCHANGED <<client, state, sweepNum, SweepIndex, NumSweeps, rx, master, data, lock>>
      /\ engine.pc = "sweeping" /\ engine'.pc = "publish" /\ engine'.img = engine.img
      /\ engine.img = SweepIndex /\ sweepNum[SweepIndex] = NumSweeps /\ (master \/ rx = -1)
      /\ SweepIndex \in Image
  BY DEF SweepEnds, ring, IdInv, IInv, TurnInv, NumInv
<1>2. Received' = Received /\ (MayReceive' <=> MayReceive)
  BY <1>1 DEF Received, MayReceive
<1>3. NumInv'
  <2>1. Below(NumSweeps)' /\ (MayReceive' => Below(Received)' /\ Received' <= NumSweeps')
    BY <1>1, <1>2, BelowKeeps, Zenon DEF IdInv, NumInv
  <2> QED BY <1>1, <2>1, Zenon DEF NumInv
<1>4. \A i \in Image : Numbered(i)' <=> (i = SweepIndex \/ state[i] = "valid")
  BY <1>1 DEF Numbered
<1>5. /\ \A i \in Image : state[i] = "valid" => sweepNum[i] < NumSweeps
      /\ \A c \in Client : \A id \in IdsHeld(c) : id.sweepNum < NumSweeps
  BY DEF IdInv, NumInv, Below
<1>6. /\ \A i \in Image : state[i] = "valid" => sweepNum[i] # NumSweeps
      /\ \A c \in Client : \A id \in IdsHeld(c) : id.sweepNum # NumSweeps
  BY <1>5, NumbersAre DEF IdInv
<1>7. PairInv'
  BY <1>1, <1>4, <1>6 DEF IdInv, PairInv, IdsHeld, Numbered
<1> QED BY <1>3, <1>7

\* The next image is taken; the one that is published becomes valid.
LEMMA TakeNextDoes ==
    ASSUME IInv, NEW next \in Image, NEW valid \in Image, TakeNext(next, valid)
    PROVE  /\ \A i \in Image : state'[i] = "valid" => i # next /\ (i = valid \/ state[i] = "valid")
           /\ \A i \in Image : ffRefCount'[i] = IF i = next THEN {} ELSE ffRefCount[i]
           /\ \A i \in Image : state[i] = "valid" /\ i # next => state'[i] = "valid"
<1>1. state \in [Image -> {"invalid", "valid", "inprogress"}] /\ ffRefCount = [i \in Image |-> ffRefCount[i]]
  BY DEF IInv
<1>2. /\ state' = [state EXCEPT ![valid] = "valid", ![next] = "inprogress"]
      /\ ffRefCount' = [ffRefCount EXCEPT ![next] = {}]
  BY DEF TakeNext
<1> QED BY <1>1, <1>2, Zenon

\* Publication: the image has its number already, and the next one is new again.
LEMMA PublishKeepsIds ==
    ASSUME IdInv, Publish
    PROVE  NumInv' /\ PairInv'
<1>1. /\ UNCHANGED <<client, sweepNum, rx, master, data, lock>> /\ lock = "none"
      /\ engine.pc = "publish" /\ engine'.pc = "idle" /\ NumSweeps' = NumSweeps + 1
      /\ engine.img \in Image
  BY DEF Publish, StateFree, IdInv, IInv
<1>2. \A i \in Image : state'[i] = "valid" => i = engine.img \/ state[i] = "valid"
  <2> DEFINE next == NextImage(engine.gone)
  <2>1. IInv /\ next \in Image /\ TakeNext(next, engine.img)
    BY NextIsAnother, ImagesAssumption, Zenon DEF Publish, IdInv
  <2> HIDE DEF next
  <2> QED BY <1>1, <2>1, TakeNextDoes
<1>3. \A i \in Image : Numbered(i)' => Numbered(i)
  BY <1>1, <1>2, Zenon DEF Numbered
<1>4. PairInv'
  BY <1>1, <1>3 DEF IdInv, PairInv, IdsHeld
<1>5. /\ NumSweeps \in Nat /\ Received \in Nat
      /\ \A i \in Image : sweepNum[i] \in Nat
      /\ \A c \in Client : \A id \in IdsHeld(c) : id.sweepNum \in Nat
  BY NumbersAre, Zenon DEF IdInv
<1>6. /\ \A i \in Image : state[i] = "valid" => sweepNum[i] < NumSweeps
      /\ \A c \in Client : \A id \in IdsHeld(c) : id.sweepNum < NumSweeps
  BY DEF IdInv, NumInv, Below
<1>7. \/ engine.img = SweepIndex /\ sweepNum[engine.img] = NumSweeps /\ (master \/ rx = -1)
      \/ ~master /\ rx # -1 /\ sweepNum[engine.img] < Received
  BY <1>1 DEF IdInv, NumInv
<1>8. ~master => Below(Received) /\ Received <= NumSweeps
  BY DEF IdInv, NumInv, MayReceive
<1>9. sweepNum[engine.img] < NumSweeps + 1
  BY <1>1, <1>5, <1>7, <1>8
<1>10. /\ \A i \in Image : state'[i] = "valid" => sweepNum[i] < NumSweeps + 1
       /\ \A c \in Client : \A id \in IdsHeld(c) : id.sweepNum < NumSweeps + 1
  BY <1>2, <1>5, <1>6, <1>9
<1>11. Below(NumSweeps)'
  BY <1>1, <1>10, Zenon DEF Below, IdsHeld
<1>12. CASE master
  BY <1>1, <1>4, <1>11, <1>12, Zenon DEF NumInv, MayReceive
<1>13. CASE ~master /\ rx = -1
  <2>1. Received' = NumSweeps' /\ NumSweeps' \in Nat
    BY <1>1, <1>5, <1>13 DEF Received
  <2>2. Below(Received)'
    BY <1>11, <2>1, Zenon DEF Below
  <2> QED BY <1>1, <1>4, <1>11, <2>1, <2>2 DEF NumInv
<1>14. CASE ~master /\ rx # -1
  <2>1. Received' = Received /\ Received <= NumSweeps + 1 /\ sweepNum[engine.img] < Received
    BY <1>1, <1>5, <1>7, <1>8, <1>14 DEF Received
  <2>2. \A i \in Image : state'[i] = "valid" => sweepNum[i] < Received
    BY <1>2, <1>8, <1>14, <2>1, Zenon DEF Below
  <2>3. Below(Received)'
    BY <1>1, <1>8, <1>14, <2>1, <2>2, Zenon DEF Below, IdsHeld
  <2> QED BY <1>1, <1>4, <1>11, <2>1, <2>3, Zenon DEF NumInv
<1> QED BY <1>12, <1>13, <1>14, Zenon

\* The receiver takes its locks.
LEMMA ReceiveBeginsKeepsIds ==
    ASSUME IdInv, ReceiveBegins
    PROVE  NumInv' /\ PairInv'
<1>1. /\ UNCHANGED <<client, state, sweepNum, SweepIndex, NumSweeps, rx, master, data, engine>> /\ ~master
  BY DEF ReceiveBegins, ring
<1>2. Received' = Received /\ MayReceive
  BY <1>1, Zenon DEF Received, MayReceive
<1>3. Below(NumSweeps)' /\ Below(Received)' /\ Received' <= NumSweeps'
  BY <1>1, <1>2, BelowKeeps, Zenon DEF IdInv, NumInv
<1>4. NumInv'
  BY <1>1, <1>2, <1>3, Zenon DEF IdInv, NumInv
<1>5. PairInv'
  BY <1>1, Zenon DEF IdInv, PairInv, IdsHeld, Numbered
<1> QED BY <1>4, <1>5

\* An image arrives with a number that no image and no id has, and overwrites one
\* that is not valid.
LEMMA ReceiveEndsKeepsIds ==
    ASSUME IdInv, ReceiveEnds
    PROVE  NumInv' /\ PairInv'
<1>1. /\ UNCHANGED <<client, master, engine>> /\ lock = "receive" /\ lock' = "none"
      /\ NumSweeps' = Received + 1 /\ rx' = Received
      /\ SweepIndex \in Image /\ state[SweepIndex] # "valid"
  BY DEF ReceiveEnds, IdInv, IInv
<1>2. /\ \A i \in Image : sweepNum'[i] = IF i = SweepIndex THEN Received ELSE sweepNum[i]
      /\ \A i \in Image : i # SweepIndex => data'[i] = data[i]
  <2>1. sweepNum \in [Image -> Nat] /\ data \in [Image -> Nat]
    BY DEF IdInv, Types, NumberTypes
  <2> QED BY <1>1, <2>1, Zenon DEF ReceiveEnds
<1>3. \A i \in Image : state'[i] = "valid" => i = SweepIndex \/ state[i] = "valid"
  BY <1>1, NextIsAnother, TakeNextDoes, ImagesAssumption, Zenon DEF ReceiveEnds, IdInv
<1>4. /\ NumSweeps \in Nat /\ Received \in Nat
      /\ \A i \in Image : sweepNum[i] \in Nat
      /\ \A c \in Client : \A id \in IdsHeld(c) : id.sweepNum \in Nat
  BY NumbersAre DEF IdInv
<1>5. /\ \A i \in Image : state[i] = "valid" => sweepNum[i] < Received
      /\ \A c \in Client : \A id \in IdsHeld(c) : id.sweepNum < Received
  BY <1>1, Zenon DEF IdInv, NumInv, Below, MayReceive
<1>6. engine.pc \in {"idle", "publish"}
  BY <1>1, Zenon DEF ReceiveEnds, Unwritten, IdInv, IInv
<1>7. engine.pc = "publish" =>
        /\ ~master /\ engine.img \in Image
        /\ engine.img = SweepIndex \/ sweepNum[engine.img] < Received
  BY <1>1, Zenon DEF IdInv, TurnInv, NumInv, IInv
<1>8. Received' = Received + 1
  BY <1>1, <1>4, Zenon DEF Received
<1>9. NumInv'
  <2>1. /\ \A i \in Image : state'[i] = "valid" => sweepNum'[i] < Received + 1
        /\ \A c \in Client : \A id \in IdsHeld(c) : id.sweepNum < Received + 1
    BY <1>2, <1>3, <1>4, <1>5
  <2>2. Below(NumSweeps)' /\ Below(Received)' /\ Received' <= NumSweeps'
    BY <1>1, <1>4, <1>8, <2>1 DEF Below, IdsHeld
  <2>3. ASSUME engine.pc = "publish" PROVE sweepNum'[engine.img] < Received'
    <3>1. engine.img \in Image /\ (engine.img = SweepIndex \/ sweepNum[engine.img] < Received)
      BY <1>7, <2>3, Zenon
    <3>2. sweepNum'[engine.img] = (IF engine.img = SweepIndex THEN Received ELSE sweepNum[engine.img])
          /\ sweepNum[engine.img] \in Nat
      BY <1>2, <1>4, <3>1, Zenon
    <3> QED BY <1>4, <1>8, <3>1, <3>2
  <2>4. rx' # -1
    BY <1>1, <1>4
  <2>5. engine'.pc = "publish" => ~master' /\ rx' # -1 /\ sweepNum'[engine'.img] < Received'
    BY <1>1, <1>7, <2>3, <2>4, Zenon
  <2>6. engine'.pc \notin {"locking", "sweeping"}
    BY <1>1, <1>6, Zenon
  <2> QED BY <2>2, <2>5, <2>6, Zenon DEF NumInv
<1>10. ASSUME NEW i \in Image, Numbered(i)'
       PROVE  i = SweepIndex \/ (Numbered(i) /\ sweepNum[i] < Received)
  BY <1>1, <1>3, <1>5, <1>7, <1>10, Zenon DEF Numbered
<1>11. ASSUME NEW i \in Image, NEW j \in Image, Numbered(i)', Numbered(j)', sweepNum'[i] = sweepNum'[j]
       PROVE  i = j
  BY <1>2, <1>4, <1>10, <1>11 DEF IdInv, PairInv
<1>12. ASSUME NEW c \in Client, NEW id \in IdsHeld(c), NEW i \in Image, Numbered(i)',
              sweepNum'[i] = id.sweepNum
       PROVE  data'[i] = id.of
  <2>1. i # SweepIndex
    BY <1>2, <1>4, <1>5, <1>12
  <2> QED BY <1>2, <1>10, <1>12, <2>1, Zenon DEF IdInv, PairInv
<1>13. PairInv'
  BY <1>1, <1>11, <1>12, Zenon DEF PairInv, IdsHeld
<1> QED BY <1>9, <1>13

\* The SM's role changes, for the first time.
LEMMA RoleKeepsIds ==
    ASSUME MaxTurns <= 1, IdInv, RoleChanges
    PROVE  NumInv' /\ PairInv'
<1>1. UNCHANGED <<client, state, sweepNum, SweepIndex, NumSweeps, rx, data, engine, lock>>
  BY DEF RoleChanges, ring
<1>2. master' = ~master
  BY DEF RoleChanges
<1>3. count.turns = 0
  BY ImagesAssumption DEF RoleChanges, IdInv, Types, NumberTypes
<1>4. PairInv'
  BY <1>1, Zenon DEF IdInv, PairInv, IdsHeld, Numbered
<1>5. Received' = Received /\ Below(NumSweeps)'
  BY <1>1, BelowKeeps, Zenon DEF Received, IdInv, NumInv
<1>6. CASE master
  <2>1. rx = -1 /\ Received = NumSweeps /\ NumSweeps \in Nat
    BY <1>3, <1>6, NumbersAre, Zenon DEF IdInv, TurnInv, Received
  <2>2. Below(Received)' /\ Received' <= NumSweeps'
    BY <1>1, <1>5, <2>1 DEF Below
  <2>3. NumInv'
    BY <1>1, <1>2, <1>5, <1>6, <2>1, <2>2, Zenon DEF IdInv, NumInv
  <2> QED BY <1>4, <2>3, Zenon
<1>7. CASE ~master
  <2>1. engine.pc \in {"idle", "locking"}
    BY <1>3, <1>7, Zenon DEF IdInv, TurnInv
  <2>2. MayReceive
    BY <1>7, Zenon DEF MayReceive
  <2>3. Below(Received)' /\ Received' <= NumSweeps'
    BY <1>1, <1>5, <2>2, BelowKeeps, Zenon DEF IdInv, NumInv
  <2>4. NumInv'
    BY <1>1, <1>5, <2>1, <2>3, Zenon DEF IdInv, NumInv
  <2> QED BY <1>4, <2>4
<1> QED BY <1>6, <1>7, Zenon

\* PmDbsync forgets the last number received.
LEMMA DbsyncKeepsIds ==
    ASSUME IdInv, DbsyncMaster
    PROVE  NumInv' /\ PairInv'
<1>1. /\ UNCHANGED <<client, state, sweepNum, SweepIndex, NumSweeps, data, engine, lock, master>>
      /\ master /\ rx' = -1
  BY Zenon DEF DbsyncMaster, ring
<1>2. PairInv'
  BY <1>1, Zenon DEF IdInv, PairInv, IdsHeld, Numbered
<1>3. Below(NumSweeps)' /\ Received' = NumSweeps' /\ NumSweeps' \in Nat
  BY <1>1, BelowKeeps, NumbersAre, Zenon DEF Received, IdInv, NumInv
<1>4. Below(Received)' /\ Received' <= NumSweeps'
  BY <1>3 DEF Below
<1>5. NumInv'
  BY <1>1, <1>3, <1>4, Zenon DEF IdInv, NumInv
<1> QED BY <1>2, <1>5, Zenon

\* Initially no image has a number and no client an id.
LEMMA InitIds == Init => TurnInv /\ NumInv /\ PairInv
<1> SUFFICES ASSUME Init PROVE TurnInv /\ NumInv /\ PairInv
  BY Zenon
<1>1. /\ \A i \in Image : state[i] = "invalid"
      /\ \A c \in Client : IdsHeld(c) = {}
      /\ engine.pc = "idle" /\ lock = "none" /\ rx = -1 /\ NumSweeps = 0 /\ count.turns = 0
  BY DEF Init, IdsHeld
<1>2. TurnInv
  BY <1>1 DEF TurnInv
<1>3. NumInv
  BY <1>1 DEF NumInv, Below, Received
<1>4. PairInv
  BY <1>1, Zenon DEF PairInv, Numbered
<1> QED BY <1>2, <1>3, <1>4, Zenon

\* Every step keeps the numbers and what they stand for.
LEMMA IdStep ==
    ASSUME MaxTurns <= 1, IdInv, [Next]_vars
    PROVE  NumInv' /\ PairInv'
<1>1. CASE UNCHANGED vars
  <2>1. UNCHANGED <<state, sweepNum, SweepIndex, NumSweeps, engine, lock, rx, master, client, data>>
    BY <1>1, Zenon DEF vars, ring
  <2>2. NumInv'
    BY <2>1, Zenon DEF IdInv, NumInv, Below, Received, MayReceive, IdsHeld
  <2>3. PairInv'
    BY <2>1 DEF IdInv, PairInv, Numbered, IdsHeld
  <2> QED BY <2>2, <2>3, Zenon
<1>2. CASE Sweeps
  BY <1>2, BeginsKeepsIds, FillsKeepsIds, StandbyKeepsIds, EndsKeepsIds, PublishKeepsIds, Zenon DEF Sweeps
<1> QED
  BY <1>1, <1>2, ClientMovesKeepIds, ReceiveBeginsKeepsIds, ReceiveEndsKeepsIds, RoleKeepsIds,
     DbsyncKeepsIds, TwoSides DEF EngineMoves

\* With one change of role at most, numbers are given once.
LEMMA IdsHold == ASSUME MaxTurns <= 1 PROVE Spec => []IdInv
<1>1. Init => TurnInv /\ NumInv /\ PairInv
  BY InitIds
<1>2. (IInv /\ Types) /\ (IInv /\ Types)' /\ (TurnInv /\ NumInv /\ PairInv) /\ [Next]_vars
        => (TurnInv /\ NumInv /\ PairInv)'
  BY TurnStep, IdStep, Zenon DEF IdInv
<1>3. (IInv /\ Types) /\ (TurnInv /\ NumInv /\ PairInv) <=> IdInv
  BY Zenon DEF IdInv
<1> QED BY <1>1, <1>2, <1>3, TypesHold, PTL DEF Spec

-----------------------------------------------------------------------------
(* What a query sees.                                                      *)

\* An id that a client holds leads to an image with the fill it stands for.
LEMMA LeadsTo ==
    ASSUME IdInv, NEW c \in Client, NEW id \in IdsHeld(c), NEW i \in GetIndexFromImageId(id, 0)
    PROVE  data[i] = id.of
<1>1. i \in Image /\ state[i] = "valid"
  BY Found, Zenon DEF IdInv
<1>2. id \in HistoryIds \/ id \in FreezeIds
  BY DEF IdInv, Types, ClientTypes, ClientRecord, IdsHeld
<1>3. id.sweepNum \in Nat
  BY NumbersAre, Zenon DEF IdInv
<1>4. sweepNum[i] = id.sweepNum
  <2>1. CASE id \in HistoryIds
    <3>1. i \in ComputeHistory(id.index, 0, id.sweepNum)
      BY <2>1, Zenon DEF GetIndexFromImageId, HistoryIds
    <3> QED BY <1>3, <3>1 DEF ComputeHistory
  <2>2. CASE id \in FreezeIds
    <3>1. i \in Frame(id)
      BY <2>2, Zenon DEF GetIndexFromImageId, FreezeIds
    <3> QED BY <3>1, Zenon DEF Frame, InSlot
  <2> QED BY <1>2, <2>1, <2>2, Zenon
<1> QED BY <1>1, <1>4, Zenon DEF IdInv, PairInv, Numbered

\* A query that locks an image sees the fill it asks for.
LEMMA ReadSees ==
    ASSUME IdInv, NEW c \in Client, NEW id \in IdsOf(c), NEW offset \in Offset(id),
           NEW i \in GetIndexFromImageId(id, offset)
    PROVE  data[i] = IF offset = 0 THEN Wanted(id, i) ELSE data[i]
<1>1. id.type = "live" \/ id \in IdsHeld(c)
  BY DEF IdsOf, IdsHeld, Live
<1> QED BY <1>1, LeadsTo, Zenon DEF Wanted

\* Every step keeps what readers see: images are overwritten when nobody reads them.
LEMMA ReadsStep ==
    ASSUME IdInv, ReadsOneSweep, [Next]_vars
    PROVE  ReadsOneSweep'
<1>0. /\ client \in [Client -> ClientRecord] /\ data \in [Image -> Nat] /\ Reader \subseteq Client
      /\ IInv /\ Types
  BY ImagesAssumption, Zenon DEF IdInv, Types, ClientTypes, NumberTypes
<1>1. ASSUME UNCHANGED data,
             \A d \in Client : client'[d].reads = client[d].reads /\ client'[d].sees = client[d].sees
      PROVE  ReadsOneSweep'
  BY <1>1, Zenon DEF ReadsOneSweep
<1>2. ASSUME UNCHANGED client, NEW j \in Image, Unread(j),
             \A i \in Image : i # j => data'[i] = data[i]
      PROVE  ReadsOneSweep'
  <2>1. \A d \in Client : client[d].reads \in Image \cup {NoImage}
    BY <1>0, Zenon DEF ClientRecord
  <2> QED BY <1>2, <2>1, Zenon DEF ReadsOneSweep, Unread
<1>3. ASSUME UNCHANGED data, NEW c \in Client, \A d \in Client : d # c => client'[d] = client[d],
             client'[c].reads # NoImage => data[client'[c].reads] = client'[c].sees
      PROVE  ReadsOneSweep'
  BY <1>3, Zenon DEF ReadsOneSweep
<1>4. CASE ClientMoves
  <2>1. UNCHANGED data
    BY <1>0, <1>4, ClientMovesLeave, Zenon DEF Untouched
  <2>2. ASSUME NEW c \in Client, NEW id \in IdsOf(c), NEW offset \in Offset(id), GetImageInfo(c, id, offset)
        PROVE  ReadsOneSweep'
    BY <1>0, <1>1, <2>1, <2>2, GetImageInfoDoes, Zenon
  <2>3. ASSUME NEW c \in Client, NEW id \in IdsOf(c), NEW offset \in Offset(id), Read(c, id, offset)
        PROVE  ReadsOneSweep'
    <3>1. PICK i \in GetIndexFromImageId(id, offset) :
            /\ client'[c].reads = i
            /\ client'[c].sees = IF offset = 0 THEN Wanted(id, i) ELSE data[i]
            /\ \A d \in Client : d # c => client'[d] = client[d]
      BY <1>0, <2>3, ReadDoes, Zenon
    <3>2. data[i] = client'[c].sees
      BY <3>1, ReadSees, Zenon
    <3> QED BY <1>3, <2>1, <3>1, <3>2, Zenon
  <2>4. ASSUME NEW c \in Client, ClearPortStats(c) \/ EndRead(c) PROVE ReadsOneSweep'
    BY <1>0, <1>3, <2>1, <2>4, LastDoes, Zenon
  <2>5. ASSUME NEW c \in Client, NEW id, NEW offset,
               FreezeFrameCreate(c, id, offset) \/ FreezeFrameMove(c, id, offset)
        PROVE  ReadsOneSweep'
    BY <1>0, <1>1, <2>1, <2>5, FreezesDo, Zenon
  <2>6. ASSUME NEW c \in Client, FreezeFrameRenew(c) \/ FreezeFrameRelease(c) \/ Forget(c)
        PROVE  ReadsOneSweep'
    <3>1. \A d \in Client : client'[d].reads = client[d].reads /\ client'[d].sees = client[d].sees
      BY <1>0, <2>6, RenewDoes, ReleaseDoes, ForgetDoes, Zenon
    <3> QED BY <1>1, <2>1, <3>1, Zenon
  <2>7. ASSUME NEW i \in Image, LeaseEnds(i) PROVE ReadsOneSweep'
    BY <1>0, <1>1, <2>1, <2>7, LeaseDoes, Zenon DEF ClientTypes
  <2> QED BY <1>0, <1>4, <2>2, <2>3, <2>4, <2>5, <2>6, <2>7, Zenon DEF ClientMoves, Queries, Freezes
<1>5. CASE SweepFills
  <2>1. engine.img \in Image
    BY <1>0, Zenon DEF IInv
  <2> QED BY <1>0, <1>2, <1>5, <2>1, Zenon DEF SweepFills
<1>6. CASE ReceiveEnds
  BY <1>0, <1>2, <1>6, Zenon DEF ReceiveEnds, IInv
<1>7. CASE UNCHANGED <<client, data>>
  BY <1>1, <1>7, Zenon
<1>8. CASE SweepBegins \/ SweepIsStandby \/ SweepEnds \/ Publish
  BY <1>7, <1>8, Zenon DEF SweepBegins, SweepIsStandby, SweepEnds, Publish
<1>9. CASE ReceiveBegins \/ RoleChanges \/ DbsyncMaster \/ UNCHANGED vars
  BY <1>7, <1>9, Zenon DEF ReceiveBegins, RoleChanges, DbsyncMaster, vars
<1> QED BY <1>4, <1>5, <1>6, <1>8, <1>9, TwoSides, Zenon DEF EngineMoves, Sweeps

(* A client that reads an image sees the sweep its image id was issued     *)
(* for, and no other, until it releases the imageLock: the locks of        *)
(* PmSweep and putPMSweepImageDataR keep the readers' images, and the      *)
(* sweep numbers that GetIndexFromImageId compares are given once.         *)
THEOREM ReadsOneSweepCorrect == ASSUME MaxTurns <= 1 PROVE Spec => []ReadsOneSweep
<1>1. Init => ReadsOneSweep
  BY DEF Init, ReadsOneSweep
<1>2. IdInv /\ ReadsOneSweep /\ [Next]_vars => ReadsOneSweep'
  BY ReadsStep
<1> QED BY <1>1, <1>2, IdsHold, PTL DEF Spec

-----------------------------------------------------------------------------
(* References.  No image is frozen so often that the int in the test of a  *)
(* reference overflows: the ids of an image come one after the other.      *)

FewFreezes == MaxTurns <= 1 /\ MaxFreezes < IntBits /\ IntBits <= ClientIds

\* The client id in an image id was given by the image with its number, to one client;
\* when that client has released it, nobody holds the image by it.
RefInv ==
    /\ count.freezes <= MaxFreezes
    /\ \A i \in Image : nextClientId[i] <= count.freezes /\ \A k \in ffRefCount[i] : k < nextClientId[i]
    /\ \A c \in Client : client[c].ff # NoId =>
          /\ client[c].ff.clientId < MaxFreezes
          /\ \A i \in Image : Numbered(i) /\ sweepNum[i] = client[c].ff.sweepNum
               => /\ client[c].ff.clientId < nextClientId[i]
                  /\ client[c].used = "released" => client[c].ff.clientId \notin ffRefCount[i]
    /\ \A c, d \in Client : c # d /\ client[c].ff # NoId /\ client[d].ff # NoId
          /\ client[c].ff.sweepNum = client[d].ff.sweepNum => client[c].ff.clientId # client[d].ff.clientId
    /\ \A c \in Client : client[c].ff = NoId => client[c].used = "no"

\* The test of a reference looks at that reference only.
LEMMA TestedIs ==
    ASSUME FewFreezes, NEW k \in Nat, k < MaxFreezes
    PROVE  Tested(k) = {k}
<1>1. IntBits \in Nat /\ IntBits > 0 /\ k < IntBits /\ k # IntBits - 1
  BY ImagesAssumption DEF FewFreezes
<1>2. k % IntBits = k
  BY <1>1, Around
<1> QED BY <1>1, <1>2, Zenon DEF Tested

\* The rolling count gives the next client id.
LEMMA NextIdIs ==
    ASSUME FewFreezes, Types, RefInv, NEW i \in Image, count.freezes < MaxFreezes
    PROVE  /\ getNextClientId(i) = nextClientId[i]
           /\ (nextClientId[i] + 1) % ClientIds = nextClientId[i] + 1
<1> DEFINE n == nextClientId[i]
           K == {k \in 0 .. ClientIds - 1 : (n + k) % ClientIds \notin ffRefCount[i]}
<1>1. /\ ClientIds \in Nat /\ n \in Nat /\ n + 1 < ClientIds
      /\ \A k \in ffRefCount[i] : k < n
  <2>1. /\ count.freezes \in Nat /\ n \in 0 .. ClientIds - 1 /\ MaxFreezes \in Nat /\ IntBits \in Nat
        /\ ClientIds \in Nat
    BY ImagesAssumption, Zenon DEF Types, NumberTypes, RefTypes
  <2>2. n <= count.freezes /\ \A k \in ffRefCount[i] : k < n
    BY DEF RefInv
  <2> QED BY <2>1, <2>2 DEF FewFreezes
<1> HIDE DEF n
<1>2. n % ClientIds = n /\ (n + 1) % ClientIds = n + 1
  BY <1>1, Around
<1>3. n \notin ffRefCount[i]
  BY <1>1
<1>4. 0 \in K /\ K \subseteq Nat
  BY <1>1, <1>2, <1>3
<1>5. getNextClientId(i) = (n + Min(K)) % ClientIds
  BY DEF getNextClientId, n
<1>6. Min(K) = 0
  <2>1. Min(K) \in K /\ \A y \in K : Min(K) <= y
    <3> HIDE DEF K
    <3> QED BY <1>4, MinOfNats, Zenon
  <2>2. Min(K) <= 0 /\ Min(K) \in Nat
    BY <1>4, <2>1, Zenon
  <2> HIDE DEF K
  <2> QED BY <2>2
<1>7. n + 0 = n
  BY <1>1
<1> QED BY <1>2, <1>5, <1>6, <1>7, Zenon DEF n

\* The types that client ids and the number of freezes have.
LEMMA RefTypesAre ==
    ASSUME IdInv
    PROVE  /\ count.freezes \in Nat /\ 0 <= count.freezes /\ MaxFreezes \in Nat
           /\ \A m \in Image : nextClientId[m] \in Nat /\ ffRefCount[m] \subseteq Int
<1>1. NumberTypes /\ RefTypes
  BY Zenon DEF IdInv, Types
<1>2. count.freezes \in Nat /\ 0 <= count.freezes /\ MaxFreezes \in Nat
  BY <1>1, ImagesAssumption DEF NumberTypes
<1>3. \A m \in Image : nextClientId[m] \in Nat /\ ffRefCount[m] \subseteq Int
  BY <1>1, ImagesAssumption DEF RefTypes
<1> QED BY <1>2, <1>3, Zenon

\* The bounds that RefInv gives.
LEMMA RefBounds ==
    ASSUME RefInv
    PROVE  \A m \in Image : nextClientId[m] <= count.freezes /\ \A r \in ffRefCount[m] : r < nextClientId[m]
BY Zenon DEF RefInv

\* What the id of a frozen image says.
LEMMA FreezeIdIs ==
    ASSUME NEW f, NEW k, NEW i
    PROVE  /\ FreezeId(f, k, i).sweepNum = sweepNum[i] /\ FreezeId(f, k, i).clientId = k
           /\ FreezeId(f, k, i) # NoId
BY DEF FreezeId, NoId

\* The references are kept by a step that gives none out and makes no old number
\* anew.
LEMMA RefsKept ==
    ASSUME IdInv, RefInv, count'.freezes = count.freezes,
           \A d \in Client :
             /\ \/ client'[d].ff = client[d].ff /\ (client'[d].used = "released" => client[d].used = "released")
                \/ client'[d].ff = NoId
             /\ client'[d].ff = NoId => client'[d].used = "no",
           \A i \in Image :
             \/ nextClientId'[i] = nextClientId[i] /\ ffRefCount'[i] \subseteq ffRefCount[i]
             \/ nextClientId'[i] = 0 /\ ffRefCount'[i] = {},
           \A i \in Image : Numbered(i)' =>
             \/ Numbered(i) /\ sweepNum'[i] = sweepNum[i] /\ nextClientId'[i] = nextClientId[i]
             \/ \A c \in Client : \A id \in IdsHeld(c) : id.sweepNum # sweepNum'[i]
    PROVE  RefInv'
<1>1. count'.freezes <= MaxFreezes
  BY Zenon DEF RefInv
<1>2. ASSUME NEW i \in Image
      PROVE  nextClientId'[i] <= count'.freezes /\ \A k \in ffRefCount'[i] : k < nextClientId'[i]
  <2>1. count.freezes \in Nat /\ 0 <= count.freezes
    BY RefTypesAre, Zenon
  <2> QED BY <1>2, <2>1, Zenon DEF RefInv
<1>3. ASSUME NEW c \in Client, client'[c].ff # NoId
      PROVE  /\ client'[c].ff = client[c].ff /\ client[c].ff # NoId /\ client[c].ff \in IdsHeld(c)
             /\ client'[c].used = "released" => client[c].used = "released"
  BY <1>3, Zenon DEF IdsHeld
<1>4. ASSUME NEW c \in Client, client'[c].ff # NoId
      PROVE  client'[c].ff.clientId < MaxFreezes
  BY <1>3, <1>4, Zenon DEF RefInv
<1>5. ASSUME NEW c \in Client, client'[c].ff # NoId, NEW i \in Image, Numbered(i)',
             sweepNum'[i] = client'[c].ff.sweepNum
      PROVE  /\ client'[c].ff.clientId < nextClientId'[i]
             /\ client'[c].used = "released" => client'[c].ff.clientId \notin ffRefCount'[i]
  <2>1. /\ client'[c].ff = client[c].ff /\ client[c].ff # NoId /\ client[c].ff \in IdsHeld(c)
        /\ client'[c].used = "released" => client[c].used = "released"
    BY <1>3, <1>5, Zenon
  <2>2. Numbered(i) /\ sweepNum'[i] = sweepNum[i] /\ nextClientId'[i] = nextClientId[i]
    BY <1>5, <2>1, Zenon
  <2>3. /\ client[c].ff.clientId < nextClientId[i]
        /\ client[c].used = "released" => client[c].ff.clientId \notin ffRefCount[i]
    BY <1>5, <2>1, <2>2, Zenon DEF RefInv
  <2>4. ffRefCount'[i] \subseteq ffRefCount[i]
    BY Zenon
  <2> QED BY <2>1, <2>2, <2>3, <2>4, Zenon
<1>6. ASSUME NEW c \in Client, NEW d \in Client, c # d, client'[c].ff # NoId, client'[d].ff # NoId,
             client'[c].ff.sweepNum = client'[d].ff.sweepNum
      PROVE  client'[c].ff.clientId # client'[d].ff.clientId
  BY <1>3, <1>6 DEF RefInv
<1> QED BY <1>1, <1>2, <1>4, <1>5, <1>6, Zenon DEF RefInv

\* A client's frozen image after a freeze or a move.
LEMMA PutFrame ==
    ASSUME ClientTypes, NEW c \in Client, NEW g \in FreezeIds, NEW u \in Uses,
           client' = [client EXCEPT ![c].ff = g, ![c].used = u]
    PROVE  /\ client'[c].ff = g /\ client'[c].used = u
           /\ \A d \in Client : d # c => client'[d] = client[d]
<1>1. /\ ClientTypes'
      /\ client'[c].ff = g /\ client'[c].used = u /\ client'[c].at = client[c].at
      /\ client'[c].reads = client[c].reads /\ client'[c].sees = client[c].sees
      /\ \A d \in Client : d # c => client'[d] = client[d]
  BY SetFrame, Zenon
<1> QED BY <1>1, Zenon

\* What paFreezeFrameCreate does, image by image and slot by slot.
CreateGives(c, i, f, k) ==
    /\ state[i] = "valid" /\ f = allocFreezeFrame(i)
    /\ k = nextClientId[i] /\ k \notin ffRefCount[i]
    /\ \A m \in Image : nextClientId'[m] = IF m = i THEN k + 1 ELSE nextClientId[m]
    /\ \A m \in Image : ffRefCount'[m] = IF m = i THEN ffRefCount[m] \cup {k} ELSE ffRefCount[m]
    /\ \A g \in Slot : freezeFrames'[g] = IF g = f THEN i ELSE freezeFrames[g]
    /\ client'[c].ff = FreezeId(f, k, i) /\ client'[c].used = "created"
    /\ \A d \in Client : d # c => client'[d] = client[d]

\* paFreezeFrameCreate gives the client one slot and one client id.
LEMMA CreateIs ==
    ASSUME FewFreezes, IdInv, RefInv, NEW c \in Client, NEW id, NEW offset, FreezeFrameCreate(c, id, offset)
    PROVE  \E i \in Image, f \in Slot, k \in 0 .. ClientIds - 1 : CreateGives(c, i, f, k)
<1>1. IInv /\ Types /\ ClientTypes /\ RefTypes
  BY DEF IdInv, Types
<1>2. count.freezes < MaxFreezes
  BY DEF FreezeFrameCreate
<1>3. PICK i \in Image, f \in Slot, k \in 0 .. ClientIds - 1 :
             /\ state[i] = "valid" /\ f = allocFreezeFrame(i)
             /\ k = getNextClientId(i) /\ k \notin ffRefCount[i]
             /\ ffRefCount' = [ffRefCount EXCEPT ![i] = @ \cup {k}]
             /\ nextClientId' = [nextClientId EXCEPT ![i] = (k + 1) % ClientIds]
             /\ freezeFrames' = [freezeFrames EXCEPT ![f] = i]
             /\ FreezeId(f, k, i) \in FreezeIds
             /\ client' = [client EXCEPT ![c].ff = FreezeId(f, k, i), ![c].used = "created"]
  BY <1>1, CreateDoes, Zenon
<1>4. k = nextClientId[i] /\ (k + 1) % ClientIds = k + 1
  BY <1>1, <1>2, <1>3, NextIdIs, Zenon
<1>5. \A m \in Image : nextClientId'[m] = IF m = i THEN k + 1 ELSE nextClientId[m]
  BY <1>1, <1>3, <1>4, Zenon DEF RefTypes
<1>6. \A m \in Image : ffRefCount'[m] = IF m = i THEN ffRefCount[m] \cup {k} ELSE ffRefCount[m]
  BY <1>1, <1>3, Zenon DEF RefTypes
<1>7. \A g \in Slot : freezeFrames'[g] = IF g = f THEN i ELSE freezeFrames[g]
  BY <1>1, <1>3, Zenon DEF IInv
<1>8. /\ client'[c].ff = FreezeId(f, k, i) /\ client'[c].used = "created"
      /\ \A d \in Client : d # c => client'[d] = client[d]
  <2>1. "created" \in Uses
    BY DEF Uses
  <2> QED BY <1>1, <1>3, <2>1, PutFrame, Zenon
<1>9. CreateGives(c, i, f, k)
  BY <1>3, <1>4, <1>5, <1>6, <1>7, <1>8, Zenon DEF CreateGives
<1> QED BY <1>9, Zenon

\* What paFreezeFrameMove does.
MoveGives(c, i, j, f, k) ==
    LET id == client[c].ff IN
    /\ state[i] = "valid" /\ j \in Frame(id) /\ EngineReady /\ f = MoveSlot(id, i)
    /\ k = nextClientId[i] /\ k \notin ffRefCount[i]
    /\ \A m \in Image : nextClientId'[m] = IF m = i THEN k + 1 ELSE nextClientId[m]
    /\ \A m \in Image : ffRefCount'[m] =
          (IF m = i THEN ffRefCount[m] \cup {k} ELSE ffRefCount[m]) \ (IF m = j THEN {id.clientId} ELSE {})
    /\ \A g \in Slot : freezeFrames'[g] = IF g = f THEN i ELSE freezeFrames[g]
    /\ client'[c].ff = FreezeId(f, k, i) /\ client'[c].used = IF i = j THEN "touched" ELSE "created"
    /\ \A d \in Client : d # c => client'[d] = client[d]
    /\ ~orphaned' => /\ ~orphaned /\ f \in Slot
                     /\ f = id.index /\ i # j => ffRefCount[j] = {id.clientId}

\* paFreezeFrameMove gives the client its new slot and takes its old reference.
LEMMA MoveIs ==
    ASSUME FewFreezes, IdInv, RefInv, NEW c \in Client, NEW to, NEW offset, FreezeFrameMove(c, to, offset)
    PROVE  /\ client[c].ff \in FreezeIds /\ Touch(client[c].ff)
           /\ \E i \in Image, j \in Image, f \in 0 .. FreezeFrames, k \in 0 .. ClientIds - 1 :
                MoveGives(c, i, j, f, k)
<1> DEFINE id == client[c].ff
<1>1. IInv /\ Types /\ ClientTypes /\ RefTypes
  BY DEF IdInv, Types
<1>2. count.freezes < MaxFreezes /\ Touch(id)
  BY Zenon DEF FreezeFrameMove
<1>0. id \in FreezeIds
  BY <1>1, MoveDoes, Zenon
<1>3. PICK i \in Image, j \in Image, f \in 0 .. FreezeFrames, k \in 0 .. ClientIds - 1 :
        LET held == [ffRefCount EXCEPT ![i] = @ \cup {k}]
        IN  /\ state[i] = "valid" /\ j \in Frame(id) /\ EngineReady
            /\ f = MoveSlot(id, i) /\ k = getNextClientId(i) /\ k \notin ffRefCount[i]
            /\ ffRefCount' = [held EXCEPT ![j] = @ \ {id.clientId}]
            /\ nextClientId' = [nextClientId EXCEPT ![i] = (k + 1) % ClientIds]
            /\ freezeFrames' = [s \in Slot |-> IF s = f THEN i ELSE freezeFrames[s]]
            /\ FreezeId(f, k, i) \in FreezeIds
            /\ client' = [client EXCEPT ![c].ff = FreezeId(f, k, i),
                                        ![c].used = IF i = j THEN "touched" ELSE "created"]
            /\ orphaned' = (orphaned \/ f \notin Slot
                              \/ (f = id.index /\ i # j /\ ffRefCount[j] # {id.clientId}))
  BY <1>1, MoveDoes, Zenon
<1>4. k = nextClientId[i] /\ (k + 1) % ClientIds = k + 1
  BY <1>1, <1>2, <1>3, NextIdIs, Zenon
<1>5. \A m \in Image : nextClientId'[m] = IF m = i THEN k + 1 ELSE nextClientId[m]
  BY <1>1, <1>3, <1>4, Zenon DEF RefTypes
<1>6. \A m \in Image : ffRefCount'[m] =
          (IF m = i THEN ffRefCount[m] \cup {k} ELSE ffRefCount[m]) \ (IF m = j THEN {id.clientId} ELSE {})
  <2> DEFINE held == [ffRefCount EXCEPT ![i] = @ \cup {k}]
  <2>1. ffRefCount = [m \in Image |-> ffRefCount[m]]
    BY <1>1 DEF IInv
  <2>2. \A m \in Image : held[m] = IF m = i THEN ffRefCount[m] \cup {k} ELSE ffRefCount[m]
    BY <2>1, Zenon
  <2>3. held = [m \in Image |-> held[m]]
    BY <2>1, Zenon
  <2>4. ffRefCount' = [held EXCEPT ![j] = @ \ {id.clientId}]
    BY <1>3, Zenon
  <2> HIDE DEF held
  <2>5. \A m \in Image : ffRefCount'[m] = IF m = j THEN held[m] \ {id.clientId} ELSE held[m]
    BY <2>3, <2>4, Zenon
  <2> QED BY <2>2, <2>5, Zenon
<1>7. \A g \in Slot : freezeFrames'[g] = IF g = f THEN i ELSE freezeFrames[g]
  BY <1>3, Zenon
<1>8. /\ client'[c].ff = FreezeId(f, k, i) /\ client'[c].used = IF i = j THEN "touched" ELSE "created"
      /\ \A d \in Client : d # c => client'[d] = client[d]
  <2> DEFINE u == IF i = j THEN "touched" ELSE "created"
  <2>1. u \in Uses
    BY DEF Uses
  <2>2. FreezeId(f, k, i) \in FreezeIds /\ client' = [client EXCEPT ![c].ff = FreezeId(f, k, i), ![c].used = u]
    BY <1>3
  <2> HIDE DEF u
  <2>3. /\ client'[c].ff = FreezeId(f, k, i) /\ client'[c].used = u
        /\ \A d \in Client : d # c => client'[d] = client[d]
    BY <1>1, <2>1, <2>2, PutFrame, Zenon
  <2> QED BY <2>3, Zenon DEF u
<1>9. ~orphaned' => /\ ~orphaned /\ f \in Slot
                    /\ f = id.index /\ i # j => ffRefCount[j] = {id.clientId}
  BY <1>3, Zenon
<1>10. MoveGives(c, i, j, f, k)
  BY <1>3, <1>4, <1>5, <1>6, <1>7, <1>8, <1>9, Zenon DEF MoveGives
<1> QED BY <1>0, <1>2, <1>10, Zenon

\* A freeze or a move gives out the next client id of a valid image.
LEMMA RefsGiven ==
    ASSUME FewFreezes, IdInv, RefInv, NEW c \in Client, NEW i \in Image, NEW f, NEW k, NEW u,
           state[i] = "valid", k = nextClientId[i], u # "released",
           count.freezes < MaxFreezes, count'.freezes = count.freezes + 1, Untouched,
           \A m \in Image : nextClientId'[m] = IF m = i THEN k + 1 ELSE nextClientId[m],
           \A m \in Image : ffRefCount'[m] \subseteq IF m = i THEN ffRefCount[m] \cup {k} ELSE ffRefCount[m],
           client'[c].ff = FreezeId(f, k, i), client'[c].used = u,
           \A d \in Client : d # c => client'[d] = client[d]
    PROVE  RefInv'
<1>1. /\ count.freezes \in Nat /\ MaxFreezes \in Nat /\ \A m \in Image : nextClientId[m] \in Nat
      /\ \A m \in Image : nextClientId[m] <= count.freezes /\ \A r \in ffRefCount[m] : r < nextClientId[m]
      /\ \A m \in Image : ffRefCount[m] \subseteq Int
  BY RefTypesAre, RefBounds, Zenon
<1>2. /\ \A m : Numbered(m)' <=> Numbered(m)
      /\ UNCHANGED sweepNum /\ Numbered(i)
  BY Zenon DEF Untouched, ring, Numbered
<1>3. client'[c].ff.sweepNum = sweepNum[i] /\ client'[c].ff.clientId = k /\ client'[c].ff # NoId
  BY FreezeIdIs
<1>4. k \in Nat /\ k < MaxFreezes /\ k + 1 <= count'.freezes /\ count'.freezes <= MaxFreezes
  BY <1>1
<1>5. ASSUME NEW m \in Image
      PROVE  nextClientId'[m] <= count'.freezes /\ \A r \in ffRefCount'[m] : r < nextClientId'[m]
  <2>1. CASE m = i
    <3>1. nextClientId'[m] = k + 1 /\ ffRefCount'[m] \subseteq ffRefCount[m] \cup {k}
      BY <2>1, Zenon
    <3>2. \A r \in ffRefCount[m] : r < k /\ r \in Int
      BY <1>1, <2>1, Zenon
    <3> QED BY <1>4, <3>1, <3>2
  <2>2. CASE m # i
    <3>1. nextClientId'[m] = nextClientId[m] /\ ffRefCount'[m] \subseteq ffRefCount[m]
      BY <2>2, Zenon
    <3> QED BY <1>1, <3>1
  <2> QED BY <2>1, <2>2, Zenon
<1>6. ASSUME NEW d \in Client, d # c, client'[d].ff # NoId
      PROVE  /\ client'[d] = client[d] /\ client[d].ff # NoId /\ client[d].ff.clientId < MaxFreezes
             /\ client[d].ff.clientId \in Nat
             /\ \A m \in Image : Numbered(m) /\ sweepNum[m] = client[d].ff.sweepNum
                   => /\ client[d].ff.clientId < nextClientId[m]
                      /\ client[d].used = "released" => client[d].ff.clientId \notin ffRefCount[m]
  <2>1. client'[d] = client[d] /\ client[d].ff # NoId
    BY <1>6, Zenon
  <2>2. client[d].ff \in FreezeIds
    BY <2>1, Zenon DEF IdInv, Types, ClientTypes, ClientRecord
  <2>3. client[d].ff.clientId \in Nat
    BY <2>2, ImagesAssumption DEF FreezeIds
  <2> QED BY <2>1, <2>3, Zenon DEF RefInv
<1>7. ASSUME NEW d \in Client, client'[d].ff # NoId, NEW m \in Image, Numbered(m)',
             sweepNum'[m] = client'[d].ff.sweepNum
      PROVE  /\ client'[d].ff.clientId < nextClientId'[m]
             /\ client'[d].used = "released" => client'[d].ff.clientId \notin ffRefCount'[m]
  <2>1. CASE d = c
    <3>1. m = i
      BY <1>2, <1>3, <1>7, <2>1, Zenon DEF IdInv, PairInv
    <3> QED BY <1>3, <1>4, <2>1, <3>1
  <2>2. CASE d # c
    <3>1. /\ client[d].ff.clientId < nextClientId[m] /\ client'[d] = client[d] /\ client[d].ff.clientId \in Nat
          /\ client[d].used = "released" => client[d].ff.clientId \notin ffRefCount[m]
      BY <1>2, <1>6, <1>7, <2>2, Zenon
    <3>2. nextClientId[m] <= nextClientId'[m] /\ nextClientId[m] \in Nat /\ nextClientId'[m] \in Nat
      BY <1>1, <1>4
    <3>3. client[d].ff.clientId < nextClientId'[m]
      BY <3>1, <3>2
    <3>4. ASSUME client[d].used = "released" PROVE client[d].ff.clientId \notin ffRefCount'[m]
      <4>1. CASE m = i
        <5>1. client[d].ff.clientId # k /\ ffRefCount'[m] \subseteq ffRefCount[m] \cup {k}
          BY <1>4, <3>1, <4>1
        <5> QED BY <3>1, <3>4, <5>1, Zenon
      <4>2. CASE m # i
        BY <3>1, <3>4, <4>2, Zenon
      <4> QED BY <4>1, <4>2, Zenon
    <3> QED BY <3>1, <3>3, <3>4, Zenon
  <2> QED BY <2>1, <2>2
<1>8. ASSUME NEW d \in Client, d # c, client'[d].ff # NoId, client'[d].ff.sweepNum = sweepNum[i]
      PROVE  client'[d].ff.clientId # k
  <2>1. client[d].ff.clientId < k /\ client'[d] = client[d] /\ client[d].ff.clientId \in Nat
    BY <1>2, <1>6, <1>8, Zenon
  <2> QED BY <1>4, <2>1
<1>9. ASSUME NEW a \in Client, NEW b \in Client, a # b, client'[a].ff # NoId, client'[b].ff # NoId,
             client'[a].ff.sweepNum = client'[b].ff.sweepNum
      PROVE  client'[a].ff.clientId # client'[b].ff.clientId
  <2>1. CASE a = c
    BY <1>3, <1>8, <1>9, <2>1, Zenon
  <2>2. CASE b = c
    BY <1>3, <1>8, <1>9, <2>2, Zenon
  <2>3. CASE a # c /\ b # c
    BY <1>9, <2>3 DEF RefInv
  <2> QED BY <2>1, <2>2, <2>3, Zenon
<1>10. \A d \in Client : client'[d].ff = NoId => client'[d].used = "no"
  BY <1>3, Zenon DEF RefInv
<1>11. \A d \in Client : client'[d].ff # NoId => client'[d].ff.clientId < MaxFreezes
  BY <1>3, <1>4, <1>6, Zenon
<1> QED BY <1>4, <1>5, <1>7, <1>9, <1>10, <1>11, Zenon DEF RefInv

=============================================================================
