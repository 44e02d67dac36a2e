---------------------------- MODULE PmFramesProofs ----------------------------
(***************************************************************************)
(* Proofs about frozen images, for every ring of images that pm.c admits   *)
(* and every number of clients: an image id leads to the sweep it was      *)
(* issued for or to no image, and a frozen image which is used within its  *)
(* lease is kept.                                                          *)
(***************************************************************************)
EXTENDS PmImageIdsProofs

(* References are kept.                                                    *)

\* Using an id marks the client's own frozen image only, and none as released.
LEMMA UseIs ==
    ASSUME ClientTypes, RefInv, NEW c \in Client, NEW id \in IdsOf(c)
    PROVE  /\ Use(c, id) = "released" => client[c].used = "released"
           /\ client[c].ff = NoId => Use(c, id) = "no"
           /\ Touched(id) # {} => id = client[c].ff /\ id \in FreezeIds /\ Use(c, id) = "touched"
           /\ Touched(id) = {} => Use(c, id) = client[c].used
<1>1. Touched(id) # {} => id = client[c].ff /\ id \in FreezeIds /\ client[c].ff # NoId
  BY IdsAre DEF Touched, Holds
<1> QED BY <1>1 DEF Use, RefInv

\* Two clients have not the same reference.
LEMMA RefsDiffer ==
    ASSUME RefInv, NEW c \in Client, NEW d \in Client, c # d, client[c].ff # NoId, client[d].ff # NoId,
           client[c].ff.sweepNum = client[d].ff.sweepNum
    PROVE  client[c].ff.clientId # client[d].ff.clientId
BY DEF RefInv

\* A client that uses a frozen image has its id.
LEMMA UsedHasId ==
    ASSUME RefInv, NEW c \in Client, client[c].used # "no"
    PROVE  client[c].ff # NoId
BY DEF RefInv

\* A client that holds a frozen image names it.
LEMMA HoldsIs ==
    ASSUME NEW c \in Client, Holds(c)
    PROVE  client[c].ff \in IdsOf(c)
BY DEF Holds, IdsOf

\* What paFreezeFrameRelease does.
ReleaseGives(c, i) ==
    LET id == client[c].ff IN
    /\ Holds(c) /\ id \in FreezeIds /\ Touch(id) /\ UNCHANGED <<nextClientId, freezeFrames, orphaned, count>>
    /\ i \in Frame(id)
    /\ \A m \in Image : ffRefCount'[m] = IF m = i THEN ffRefCount[m] \ {id.clientId} ELSE ffRefCount[m]
    /\ client'[c].ff = client[c].ff /\ client'[c].used = "released"
    /\ \A d \in Client : d # c => client'[d] = client[d]

\* paFreezeFrameRelease takes the client's reference to the image its id finds.
LEMMA ReleaseIs ==
    ASSUME IdInv, NEW c \in Client, FreezeFrameRelease(c)
    PROVE  \E i \in Image : ReleaseGives(c, i)
<1> DEFINE id == client[c].ff
<1>1. IInv /\ Types
  BY DEF IdInv
<1>2. Holds(c) /\ Touch(id) /\ UNCHANGED <<nextClientId, freezeFrames, orphaned, count>>
  BY Zenon DEF FreezeFrameRelease
<1>3. id \in FreezeIds /\ id.type = "freeze"
  BY <1>1, <1>2 DEF Holds, Types, ClientTypes, ClientRecord, FreezeIds
<1>4. PICK i \in FindFreezeFrame(id) : ffRefCount' = [ffRefCount EXCEPT ![i] = @ \ {id.clientId}]
  BY Zenon DEF FreezeFrameRelease
<1>5. i \in Frame(id) /\ i \in Image
  BY <1>3 DEF FindFreezeFrame, GetIndexFromImageId, Frame, InSlot
<1>6. \A m \in Image : ffRefCount'[m] = IF m = i THEN ffRefCount[m] \ {id.clientId} ELSE ffRefCount[m]
  <2>1. ffRefCount = [m \in Image |-> ffRefCount[m]]
    BY <1>1 DEF IInv
  <2> QED BY <1>4, <2>1
<1>7. /\ client'[c].ff = client[c].ff /\ client'[c].used = "released"
      /\ \A d \in Client : d # c => client'[d] = client[d]
  BY <1>1, ReleaseDoes, Zenon
<1>8. ReleaseGives(c, i)
  BY <1>2, <1>3, <1>5, <1>6, <1>7, Zenon DEF ReleaseGives
<1> QED BY <1>5, <1>8, Zenon

\* A release takes the client's reference away.
LEMMA ReleaseKeepsRefs ==
    ASSUME IdInv, RefInv, Untouched, NEW c \in Client, FreezeFrameRelease(c)
    PROVE  RefInv'
<1>1. PICK i \in Image : ReleaseGives(c, i)
  BY ReleaseIs
<1>2. /\ \A m \in Image : (Numbered(m)' <=> Numbered(m)) /\ sweepNum'[m] = sweepNum[m]
      /\ \A m \in Image : ffRefCount'[m] \subseteq ffRefCount[m] /\ nextClientId'[m] = nextClientId[m]
      /\ client[c].ff.clientId \notin ffRefCount'[i] /\ count'.freezes = count.freezes
      /\ Numbered(i) /\ sweepNum[i] = client[c].ff.sweepNum
  BY <1>1, Zenon DEF Untouched, ring, Numbered, ReleaseGives, Frame, InSlot
<1>3. /\ \A d \in Client : client'[d].ff = client[d].ff
      /\ \A d \in Client : client'[d].used = IF d = c THEN "released" ELSE client[d].used
      /\ client[c].ff # NoId
  BY <1>1 DEF ReleaseGives, Holds
<1>4. ASSUME NEW d \in Client, client'[d].ff # NoId, NEW m \in Image, Numbered(m)',
             sweepNum'[m] = client'[d].ff.sweepNum
      PROVE  /\ client'[d].ff.clientId < nextClientId'[m]
             /\ client'[d].used = "released" => client'[d].ff.clientId \notin ffRefCount'[m]
  <2>1. /\ client[d].ff.clientId < nextClientId[m]
        /\ client[d].used = "released" => client[d].ff.clientId \notin ffRefCount[m]
    BY <1>2, <1>3, <1>4, Zenon DEF RefInv
  <2>2. d = c => m = i
    BY <1>2, <1>3, <1>4 DEF IdInv, PairInv
  <2> QED BY <1>2, <1>3, <2>1, <2>2, Zenon
<1>5. \A m \in Image : nextClientId'[m] <= count'.freezes /\ \A k \in ffRefCount'[m] : k < nextClientId'[m]
  BY <1>2 DEF RefInv
<1>6. \A d \in Client : /\ client'[d].ff # NoId => client'[d].ff.clientId < MaxFreezes
                        /\ client'[d].ff = NoId => client'[d].used = "no"
  BY <1>3 DEF RefInv
<1>7. \A a, b \in Client : a # b /\ client'[a].ff # NoId /\ client'[b].ff # NoId
         /\ client'[a].ff.sweepNum = client'[b].ff.sweepNum => client'[a].ff.clientId # client'[b].ff.clientId
  BY <1>3 DEF RefInv
<1>8. count'.freezes <= MaxFreezes
  BY <1>2 DEF RefInv
<1> QED BY <1>4, <1>5, <1>6, <1>7, <1>8, Zenon DEF RefInv

\* What a client does keeps the references.
LEMMA ClientMovesKeepRefs ==
    ASSUME FewFreezes, IdInv, RefInv, ClientMoves
    PROVE  RefInv'
<1>0. IInv /\ Types /\ ClientTypes /\ Untouched /\ Reader \subseteq Client
  BY ClientMovesLeave, ImagesAssumption DEF IdInv, Types
<1>1. \A i \in Image : (Numbered(i)' <=> Numbered(i)) /\ sweepNum'[i] = sweepNum[i]
  BY <1>0 DEF Untouched, ring, Numbered
<1>2. ASSUME UNCHANGED <<ffRefCount, nextClientId, count>>,
             \A d \in Client :
               /\ \/ client'[d].ff = client[d].ff /\ (client'[d].used = "released" => client[d].used = "released")
                  \/ client'[d].ff = NoId
               /\ client'[d].ff = NoId => client'[d].used = "no"
      PROVE  RefInv'
  <2>1. \A i \in Image : nextClientId'[i] = nextClientId[i] /\ ffRefCount'[i] \subseteq ffRefCount[i]
    BY <1>2
  <2> QED BY <1>1, <1>2, <2>1, RefsKept, Zenon
<1>3. ASSUME UNCHANGED <<ffRefCount, nextClientId, count>>, NEW c \in Client, NEW id \in IdsOf(c),
             client'[c].used = Use(c, id), client'[c].ff = client[c].ff,
             \A d \in Client : d # c => client'[d] = client[d]
      PROVE  RefInv'
  <2>1. \A d \in Client : /\ client'[d].ff = client[d].ff
                          /\ client'[d].used = "released" => client[d].used = "released"
                          /\ client[d].ff = NoId => client'[d].used = "no"
    <3>1. /\ Use(c, id) = "released" => client[c].used = "released"
          /\ client[c].ff = NoId => Use(c, id) = "no"
      BY <1>0, <1>3, UseIs, Zenon
    <3>2. \A d \in Client : client[d].ff = NoId => client[d].used = "no"
      BY UsedHasId
    <3> QED BY <1>3, <3>1, <3>2, Zenon
  <2> QED BY <1>2, <1>3, <2>1, Zenon
<1>4. ASSUME NEW c \in Client, NEW id \in IdsOf(c), NEW offset \in Offset(id), GetImageInfo(c, id, offset)
      PROVE  RefInv'
  <2>1. UNCHANGED <<ffRefCount, nextClientId, count>>
    BY <1>4 DEF GetImageInfo
  <2> QED BY <1>0, <1>3, <1>4, <2>1, GetImageInfoDoes, Zenon
<1>5. ASSUME NEW c \in Client, NEW id \in IdsOf(c), NEW offset \in Offset(id), Read(c, id, offset)
      PROVE  RefInv'
  <2>1. UNCHANGED <<ffRefCount, nextClientId, count>>
    BY <1>5, Zenon DEF Read, frames
  <2> QED BY <1>0, <1>3, <1>5, <2>1, ReadDoes, Zenon
<1>6. ASSUME NEW c \in Client, ClearPortStats(c) \/ EndRead(c) PROVE RefInv'
  <2>1. UNCHANGED <<ffRefCount, nextClientId, count>>
    BY <1>6 DEF ClearPortStats, EndRead, frames
  <2>2. \A d \in Client : client'[d].ff = client[d].ff /\ client'[d].used = client[d].used
    BY <1>0, <1>6, LastDoes, Zenon
  <2> QED BY <1>2, <2>1, <2>2, Zenon DEF RefInv
<1>7. ASSUME NEW c \in Client, Forget(c) PROVE RefInv'
  <2>1. UNCHANGED <<ffRefCount, nextClientId, count>>
    BY <1>7 DEF Forget, frames
  <2>2. \A d \in Client : \/ client'[d].ff = client[d].ff /\ client'[d].used = client[d].used
                          \/ client'[d].ff = NoId /\ client'[d].used = "no"
    BY <1>0, <1>7, ForgetDoes, Zenon
  <2> QED BY <1>2, <2>1, <2>2, Zenon DEF RefInv
<1>8. ASSUME NEW i \in Image, LeaseEnds(i) PROVE RefInv'
  <2>1. UNCHANGED <<ffRefCount, nextClientId, count>>
    BY <1>8 DEF LeaseEnds, frames
  <2>2. \A d \in Client : client'[d].ff = client[d].ff /\ client'[d].used \in {client[d].used, "no"}
    BY <1>0, <1>8, LeaseDoes, Zenon
  <2> QED BY <1>2, <2>1, <2>2, Zenon DEF RefInv
<1>9. ASSUME NEW c \in Client, FreezeFrameRenew(c) PROVE RefInv'
  <2>1. UNCHANGED <<ffRefCount, nextClientId, count>> /\ client[c].ff \in IdsOf(c)
    BY <1>9, HoldsIs DEF FreezeFrameRenew
  <2> QED BY <1>0, <1>3, <1>9, <2>1, RenewDoes, Zenon
<1>10. count' = [count EXCEPT !.freezes = @ + 1] => count'.freezes = count.freezes + 1
  BY <1>0, Zenon DEF Types, NumberTypes
<1>11. ASSUME NEW c \in Client, NEW id, NEW offset, FreezeFrameCreate(c, id, offset) PROVE RefInv'
  <2>1. count.freezes < MaxFreezes /\ count'.freezes = count.freezes + 1
    BY <1>10, <1>11, Zenon DEF FreezeFrameCreate
  <2>2. PICK i \in Image, f \in Slot, k \in 0 .. ClientIds - 1 : CreateGives(c, i, f, k)
    BY <1>11, CreateIs
  <2>3. \A m \in Image : ffRefCount'[m] \subseteq IF m = i THEN ffRefCount[m] \cup {k} ELSE ffRefCount[m]
    BY <2>2, Zenon DEF CreateGives
  <2>4. "created" # "released"
    OBVIOUS
  <2>5. /\ state[i] = "valid" /\ k = nextClientId[i]
        /\ \A m \in Image : nextClientId'[m] = IF m = i THEN k + 1 ELSE nextClientId[m]
        /\ client'[c].ff = FreezeId(f, k, i) /\ client'[c].used = "created"
        /\ \A d \in Client : d # c => client'[d] = client[d]
    BY <2>2, Zenon DEF CreateGives
  <2> QED BY <1>0, <2>1, <2>3, <2>4, <2>5, RefsGiven, SMTT(20)
<1>12. ASSUME NEW c \in Client, NEW id, NEW offset, FreezeFrameMove(c, id, offset) PROVE RefInv'
  <2>1. count.freezes < MaxFreezes /\ count'.freezes = count.freezes + 1
    BY <1>10, <1>12 DEF FreezeFrameMove
  <2>2. PICK i \in Image, j \in Image, f \in 0 .. FreezeFrames, k \in 0 .. ClientIds - 1 : MoveGives(c, i, j, f, k)
    BY <1>12, MoveIs, Zenon
  <2>3. \A m \in Image : ffRefCount'[m] \subseteq IF m = i THEN ffRefCount[m] \cup {k} ELSE ffRefCount[m]
    BY <2>2 DEF MoveGives
  <2>4. (IF i = j THEN "touched" ELSE "created") # "released"
    OBVIOUS
  <2>5. /\ state[i] = "valid" /\ k = nextClientId[i]
        /\ \A m \in Image : nextClientId'[m] = IF m = i THEN k + 1 ELSE nextClientId[m]
        /\ client'[c].ff = FreezeId(f, k, i) /\ client'[c].used = (IF i = j THEN "touched" ELSE "created")
        /\ \A d \in Client : d # c => client'[d] = client[d]
    BY <2>2, Zenon DEF MoveGives
  <2> QED BY <1>0, <2>1, <2>3, <2>4, <2>5, RefsGiven, SMTT(20)
<1>13. ASSUME NEW c \in Client, FreezeFrameRelease(c) PROVE RefInv'
  BY <1>0, <1>13, ReleaseKeepsRefs, Zenon
<1> QED BY <1>0, <1>4, <1>5, <1>6, <1>7, <1>8, <1>9, <1>11, <1>12, <1>13, Zenon DEF ClientMoves, Queries, Freezes

\* What the engine's side does keeps the references: an image that gets a number gets
\* a new one.
LEMMA EngineMovesKeepRefs ==
    ASSUME IdInv, RefInv, EngineMoves
    PROVE  RefInv'
<1>0. /\ IInv /\ Types /\ UNCHANGED client
      /\ count \in [fills : Nat, freezes : Nat, turns : Nat]
      /\ engine \in [pc : {"idle", "locking", "sweeping", "publish"}, img : Image, gone : SUBSET Image]
      /\ SweepIndex \in Image /\ state[SweepIndex] # "valid"
  BY EngineMovesDo, Zenon DEF IdInv, IInv, Types, NumberTypes
<1>1. \A d \in Client : client'[d].ff = client[d].ff /\ client'[d].used = client[d].used
                        /\ (client[d].ff = NoId => client[d].used = "no")
  BY <1>0, Zenon DEF RefInv
<1>2. ASSUME count'.freezes = count.freezes, UNCHANGED nextClientId,
             \A i \in Image : ffRefCount'[i] \subseteq ffRefCount[i],
             \A i \in Image : Numbered(i)' =>
               \/ Numbered(i) /\ sweepNum'[i] = sweepNum[i]
               \/ \A c \in Client : \A id \in IdsHeld(c) : id.sweepNum # sweepNum'[i]
      PROVE  RefInv'
  <2>1. \A i \in Image : Numbered(i)' =>
             \/ Numbered(i) /\ sweepNum'[i] = sweepNum[i] /\ nextClientId'[i] = nextClientId[i]
             \/ \A c \in Client : \A id \in IdsHeld(c) : id.sweepNum # sweepNum'[i]
    BY <1>2
  <2>2. \A i \in Image : nextClientId'[i] = nextClientId[i] /\ ffRefCount'[i] \subseteq ffRefCount[i]
    BY <1>2
  <2> QED BY <1>1, <1>2, <2>1, <2>2, RefsKept, Zenon
<1>3. CASE SweepBegins
  <2>1. /\ UNCHANGED <<count, nextClientId, ffRefCount>> /\ engine'.pc = "locking"
        /\ sweepNum' = [sweepNum EXCEPT ![SweepIndex] = NumSweeps]
        /\ state' = [state EXCEPT ![SweepIndex] = "inprogress"]
    BY <1>3 DEF SweepBegins, frames
  <2>2. \A i \in Image : Numbered(i)' => Numbered(i) /\ sweepNum'[i] = sweepNum[i]
    BY <1>0, <2>1 DEF Numbered, IInv, Types, NumberTypes
  <2> QED BY <1>2, <2>1, <2>2
<1>4. CASE SweepFills \/ SweepIsStandby
  <2>1. /\ UNCHANGED <<state, sweepNum, nextClientId, ffRefCount>> /\ count'.freezes = count.freezes
        /\ engine'.pc \in {"sweeping", "idle"}
    BY <1>0, <1>4 DEF SweepFills, SweepIsStandby, ring, frames
  <2>2. \A i \in Image : Numbered(i)' => Numbered(i) /\ sweepNum'[i] = sweepNum[i]
    BY <2>1 DEF Numbered
  <2> QED BY <1>2, <2>1, <2>2, Zenon
<1>5. CASE SweepEnds
  <2>1. /\ UNCHANGED <<state, sweepNum, nextClientId, ffRefCount, count>>
        /\ engine.pc = "sweeping" /\ engine'.img = engine.img
        /\ sweepNum[engine.img] = NumSweeps
    BY <1>0, <1>5 DEF SweepEnds, ring, frames, IdInv, NumInv
  <2>2. \A c \in Client : \A id \in IdsHeld(c) : id.sweepNum < NumSweeps /\ id.sweepNum \in Nat
    BY <1>0, NumbersAre DEF IdInv, NumInv, Below
  <2>3. NumSweeps \in Nat
    BY <1>0, NumbersAre
  <2>4. \A c \in Client : \A id \in IdsHeld(c) : id.sweepNum # sweepNum'[engine.img]
    BY <2>1, <2>2, <2>3
  <2>5. \A i \in Image : Numbered(i)' => Numbered(i) \/ i = engine.img
    BY <2>1 DEF Numbered
  <2> QED BY <1>2, <2>1, <2>4, <2>5, Zenon
<1>6. CASE Publish
  <2>1. /\ UNCHANGED <<sweepNum, nextClientId, count>> /\ engine.pc = "publish" /\ engine'.pc = "idle"
        /\ TakeNext(NextImage(engine.gone), engine.img) /\ engine.img \in Image
    BY <1>0, <1>6, Zenon DEF Publish, IInv
  <2>2. /\ \A i \in Image : state'[i] = "valid" => i = engine.img \/ state[i] = "valid"
        /\ \A i \in Image : ffRefCount'[i] \subseteq ffRefCount[i]
    <3> DEFINE next == NextImage(engine.gone)
    <3>1. next \in Image /\ TakeNext(next, engine.img)
      BY <1>0, <2>1, NextIsAnother, ImagesAssumption, Zenon
    <3> HIDE DEF next
    <3> QED BY <1>0, <2>1, <3>1, TakeNextDoes
  <2>3. \A i \in Image : Numbered(i)' => Numbered(i) /\ sweepNum'[i] = sweepNum[i]
    BY <2>1, <2>2 DEF Numbered
  <2> QED BY <1>2, <2>1, <2>2, <2>3, Zenon
<1>7. CASE ReceiveEnds
  <2>1. /\ UNCHANGED engine /\ lock = "receive" /\ count'.freezes = count.freezes
        /\ TakeNext(NextImage({i \in Image : lapsed[i]}), SweepIndex)
        /\ sweepNum' = [sweepNum EXCEPT ![SweepIndex] = Received]
        /\ nextClientId' = [nextClientId EXCEPT ![SweepIndex] = 0]
    BY <1>0, <1>7, Zenon DEF ReceiveEnds
  <2>2. /\ \A i \in Image : state'[i] = "valid" => i = SweepIndex \/ state[i] = "valid"
        /\ \A i \in Image : ffRefCount'[i] \subseteq ffRefCount[i]
    <3> DEFINE next == NextImage({i \in Image : lapsed[i]})
    <3>1. next \in Image /\ TakeNext(next, SweepIndex)
      BY <1>0, <2>1, NextIsAnother, ImagesAssumption, Zenon
    <3> HIDE DEF next
    <3> QED BY <1>0, <3>1, TakeNextDoes
  <2>3. /\ sweepNum'[SweepIndex] = Received /\ nextClientId'[SweepIndex] = 0
        /\ \A i \in Image : i # SweepIndex => sweepNum'[i] = sweepNum[i] /\ nextClientId'[i] = nextClientId[i]
    BY <1>0, <2>1, Zenon DEF Types, NumberTypes, RefTypes
  <2>4. ffRefCount[SweepIndex] = {}
    BY <1>0, Zenon DEF IInv
  <2>5. \A i \in Image : \/ nextClientId'[i] = nextClientId[i] /\ ffRefCount'[i] \subseteq ffRefCount[i]
                         \/ nextClientId'[i] = 0 /\ ffRefCount'[i] = {}
    BY <2>2, <2>3, <2>4, Zenon
  <2>6. \A c \in Client : \A id \in IdsHeld(c) : id.sweepNum # sweepNum'[SweepIndex]
    <3>1. \A c \in Client : \A id \in IdsHeld(c) : id.sweepNum < Received /\ id.sweepNum \in Nat
      BY <1>0, <2>1, NumbersAre, Zenon DEF IdInv, NumInv, Below, MayReceive
    <3>2. Received \in Nat
      BY <1>0, NumbersAre, Zenon
    <3> QED BY <2>3, <3>1, <3>2
  <2>7. \A i \in Image : Numbered(i)' =>
             \/ Numbered(i) /\ sweepNum'[i] = sweepNum[i] /\ nextClientId'[i] = nextClientId[i]
             \/ \A c \in Client : \A id \in IdsHeld(c) : id.sweepNum # sweepNum'[i]
    <3>1. \A i \in Image : Numbered(i)' => i = SweepIndex \/ Numbered(i)
      BY <2>1, <2>2, Zenon DEF Numbered
    <3> QED BY <2>3, <2>6, <3>1, Zenon
  <2> QED BY <1>1, <2>1, <2>5, <2>7, RefsKept, Zenon
<1>8. CASE ReceiveBegins \/ RoleChanges \/ DbsyncMaster
  <2>1. /\ UNCHANGED <<state, sweepNum, nextClientId, ffRefCount, engine>>
        /\ count'.freezes = count.freezes
    BY <1>0, <1>8, Zenon DEF ReceiveBegins, RoleChanges, DbsyncMaster, ring, frames
  <2>2. \A i \in Image : Numbered(i)' => Numbered(i) /\ sweepNum'[i] = sweepNum[i]
    BY <2>1, Zenon DEF Numbered
  <2> QED BY <1>2, <2>1, <2>2, Zenon
<1> QED BY <1>3, <1>4, <1>5, <1>6, <1>7, <1>8, Zenon DEF EngineMoves, Sweeps

\* Initially nothing is frozen.
LEMMA InitRefs == Init => RefInv
<1> SUFFICES ASSUME Init PROVE RefInv
  BY Zenon
<1>1. count.freezes = 0 /\ 0 <= MaxFreezes
  BY ImagesAssumption DEF Init
<1>2. \A i \in Image : nextClientId[i] = 0 /\ ffRefCount[i] = {}
  BY DEF Init
<1>3. \A c \in Client : client[c].ff = NoId /\ client[c].used = "no"
  BY DEF Init
<1> QED BY <1>1, <1>2, <1>3 DEF RefInv

\* Every step keeps the references.
LEMMA RefInvStep ==
    ASSUME FewFreezes, IdInv, RefInv, [Next]_vars
    PROVE  RefInv'
<1>1. CASE UNCHANGED vars
  <2>1. UNCHANGED <<state, sweepNum, engine, nextClientId, ffRefCount, client, count>>
    BY <1>1 DEF vars, ring, frames
  <2> QED BY <2>1 DEF RefInv, Numbered
<1> QED BY <1>1, TwoSides, ClientMovesKeepRefs, EngineMovesKeepRefs, Zenon

\* With few freezes, an image id of a frozen image is given once.
LEMMA RefsHold == ASSUME FewFreezes PROVE Spec => [](IdInv /\ RefInv)
<1>1. MaxTurns <= 1
  BY DEF FewFreezes
<1>2. Spec => []IdInv
  BY <1>1, IdsHold
<1>3. IdInv /\ RefInv /\ [Next]_vars => RefInv'
  BY RefInvStep
<1> QED BY <1>2, <1>3, InitRefs, PTL DEF Spec

\* The client id of a frozen image's id is a small one.
LEMMA ClientIdIs ==
    ASSUME FewFreezes, IdInv, RefInv, NEW c \in Client, client[c].ff # NoId
    PROVE  client[c].ff \in FreezeIds /\ Tested(client[c].ff.clientId) = {client[c].ff.clientId}
<1>1. client[c].ff \in FreezeIds
  BY DEF IdInv, Types, ClientTypes, ClientRecord
<1>2. client[c].ff.clientId \in Nat
  BY <1>1, ImagesAssumption DEF FreezeIds
<1>3. client[c].ff.clientId < MaxFreezes
  BY DEF RefInv
<1> QED BY <1>1, <1>2, <1>3, TestedIs, Zenon

\* An id that was released leads to no image, the others to the fill they stand for.
LEMMA IdsAreTrue ==
    ASSUME FewFreezes, IdInv, RefInv
    PROVE  IdsStayTrue
<1>1. ASSUME NEW c \in Client, client[c].ff # NoId, NEW i \in GetIndexFromImageId(client[c].ff, 0)
      PROVE  data[i] = client[c].ff.of
  BY <1>1, LeadsTo, Zenon DEF IdsHeld
<1>2. ASSUME NEW c \in Client, client[c].at # NoId, NEW i \in GetIndexFromImageId(client[c].at, 0)
      PROVE  data[i] = client[c].at.of
  BY <1>2, LeadsTo, Zenon DEF IdsHeld
<1>3. ASSUME NEW c \in Client, client[c].used = "released", NEW i \in GetIndexFromImageId(client[c].ff, 0)
      PROVE  FALSE
  <2> DEFINE id == client[c].ff
  <2>1. id # NoId
    BY <1>3, Zenon DEF RefInv
  <2>2. id \in FreezeIds /\ id.type = "freeze" /\ Tested(id.clientId) = {id.clientId}
    BY <2>1, ClientIdIs, Zenon DEF FreezeIds
  <2>3. i \in Frame(id)
    BY <1>3, <2>2, Zenon DEF GetIndexFromImageId
  <2>4. i \in Image /\ Numbered(i) /\ sweepNum[i] = id.sweepNum /\ id.clientId \in ffRefCount[i]
    BY <2>2, <2>3 DEF Frame, InSlot, Numbered
  <2> QED BY <1>3, <2>1, <2>4, Zenon DEF RefInv
<1> QED BY <1>1, <1>2, <1>3, Zenon DEF IdsStayTrue

(* Image ids stay true: an id that a client holds leads to the sweep it    *)
(* was issued for or to no image, and the id of a frozen image that was    *)
(* released leads to no image ever again (GetIndexFromImageId compares     *)
(* sweep numbers and client ids; getNextClientId gives a client id once).  *)
THEOREM IdsStayTrueCorrect == ASSUME FewFreezes PROVE Spec => []IdsStayTrue
<1>1. IdInv /\ RefInv => IdsStayTrue
  BY IdsAreTrue
<1> QED BY <1>1, RefsHold, PTL

-----------------------------------------------------------------------------
(* Frozen images that are used within their lease.                         *)

\* The image that a client has frozen is in its slot, held by the client, and neither
\* lapsed nor found lapsed by the sweep in progress.
Keeps(c, i) ==
    LET id == client[c].ff IN
    /\ id.index \in Slot /\ freezeFrames[id.index] = i
    /\ state[i] = "valid" /\ sweepNum[i] = id.sweepNum /\ data[i] = id.of
    /\ id.clientId \in ffRefCount[i]
    /\ ~lapsed[i] /\ i \notin engine.gone

FrameInv ==
    \A c \in Client : client[c].used = "touched" /\ ~orphaned => \E i \in Image : Keeps(c, i)

KeepInv == IdInv /\ RefInv /\ FrameInv

\* The next image that the engine takes is one that nobody holds or whose lease is
\* over.
LEMMA NextIsUsable ==
    ASSUME IInv, NEW gone
    PROVE  ffRefCount[NextImage(gone)] = {} \/ NextImage(gone) \in gone
<1> DEFINE U(i) == ffRefCount[i] = {} \/ i \in gone
           K == {k \in 1 .. TotalImages : U((SweepIndex + k) % TotalImages)}
<1>1. TotalImages \in Nat /\ TotalImages > 0 /\ SweepIndex \in 0 .. TotalImages - 1
  BY ImagesAssumption DEF IInv, Image
<1>2. ffRefCount[SweepIndex] = {}
  BY DEF IInv
<1>3. (SweepIndex + TotalImages) % TotalImages = SweepIndex
  BY <1>1, Around
<1>4. U(SweepIndex)
  BY <1>2
<1> HIDE DEF U
<1>5. TotalImages \in K /\ K \subseteq Nat
  BY <1>1, <1>3, <1>4
<1>6. NextImage(gone) = (SweepIndex + Min(K)) % TotalImages
  BY DEF NextImage, U
<1>7. Min(K) \in K
  <2> HIDE DEF K
  <2> QED BY <1>5, MinOfNats, Zenon
<1>8. U((SweepIndex + Min(K)) % TotalImages)
  <2> DEFINE M == Min(K)
  <2>1. M \in K
    BY <1>7
  <2> HIDE DEF M
  <2>2. U((SweepIndex + M) % TotalImages)
    BY <2>1, Zenon
  <2> QED BY <2>2 DEF M
<1> QED BY <1>6, <1>8, Zenon DEF U

\* What a lookup finds in the slot of the client's own id is the image it keeps.
LEMMA TouchedIsKept ==
    ASSUME FewFreezes, IdInv, RefInv, NEW c \in Client, client[c].ff # NoId, NEW i \in Frame(client[c].ff)
    PROVE  LET id == client[c].ff IN
           /\ i \in Image /\ id.index \in Slot /\ freezeFrames[id.index] = i
           /\ state[i] = "valid" /\ sweepNum[i] = id.sweepNum /\ data[i] = id.of
           /\ id.clientId \in ffRefCount[i]
<1> DEFINE id == client[c].ff
<1>1. id \in FreezeIds /\ Tested(id.clientId) = {id.clientId}
  BY ClientIdIs, Zenon
<1>2. /\ i \in Image /\ id.index < FreezeFrames /\ freezeFrames[id.index] = i
      /\ state[i] = "valid" /\ sweepNum[i] = id.sweepNum /\ id.clientId \in ffRefCount[i]
  BY <1>1, Zenon DEF Frame, InSlot
<1>3. id.index \in Slot
  <2>1. id.index \in 0 .. FreezeFrames /\ FreezeFrames \in Nat
    BY <1>1, ImagesAssumption, Zenon DEF FreezeIds
  <2> QED BY <1>2, <2>1 DEF Slot
<1>4. data[i] = id.of
  BY <1>2 DEF IdInv, PairInv, IdsHeld, Numbered
<1> QED BY <1>2, <1>3, <1>4, Zenon

\* What a lookup does to leases.
LEMMA TouchDoes ==
    ASSUME IInv, NEW id, Touch(id)
    PROVE  /\ \A i \in Image : lapsed'[i] => lapsed[i] /\ i \notin Touched(id)
           /\ engine'.gone = engine.gone \ Touched(id)
<1>1. engine \in [pc : {"idle", "locking", "sweeping", "publish"}, img : Image, gone : SUBSET Image]
  BY DEF IInv
<1>2. lapsed' = [i \in Image |-> lapsed[i] /\ i \notin Touched(id)]
  BY DEF Touch
<1>3. \A i \in Image : lapsed'[i] => lapsed[i] /\ i \notin Touched(id)
  BY <1>2, Zenon
<1>4. engine'.gone = engine.gone \ Touched(id)
  BY <1>1, Zenon DEF Touch
<1> QED BY <1>3, <1>4, Zenon

\* A slot is emptied only when nobody holds its image.
LEMMA CleanedDoes ==
    ASSUME IInv, NEW id, freezeFrames' = Cleaned(id) \/ freezeFrames' = freezeFrames
    PROVE  \A f \in Slot : freezeFrames'[f] = freezeFrames[f] \/ ffRefCount[freezeFrames[f]] = {}
BY Zenon DEF Cleaned, InSlot, IInv

\* A query or a renewal keeps the images that the clients keep, and the one it
\* touches.
LEMMA TouchKeepsFrames ==
    ASSUME FewFreezes, KeepInv, Untouched, NEW c \in Client, NEW id \in IdsOf(c), Touch(id),
           freezeFrames' = Cleaned(id) \/ freezeFrames' = freezeFrames,
           UNCHANGED <<ffRefCount, orphaned>>,
           client'[c].ff = client[c].ff, client'[c].used = Use(c, id),
           \A d \in Client : d # c => client'[d] = client[d]
    PROVE  FrameInv'
<1>0. IInv /\ ClientTypes /\ RefInv /\ IdInv
  BY DEF KeepInv, IdInv, Types
<1>1. UNCHANGED <<state, sweepNum, data>>
  BY DEF Untouched, ring
<1>2. /\ \A i \in Image : lapsed'[i] => lapsed[i] /\ i \notin Touched(id)
      /\ engine'.gone = engine.gone \ Touched(id)
  BY <1>0, TouchDoes, Zenon
<1>3. \A f \in Slot : freezeFrames'[f] = freezeFrames[f] \/ ffRefCount[freezeFrames[f]] = {}
  BY <1>0, CleanedDoes, Zenon
<1>4. \A d \in Client : client'[d].ff = client[d].ff
  OBVIOUS
<1>5. ASSUME NEW d \in Client, client[d].used = "touched", ~orphaned
      PROVE  \E i \in Image : Keeps(d, i)'
  <2>1. PICK i \in Image : Keeps(d, i)
    BY <1>5, Zenon DEF KeepInv, FrameInv
  <2>2. Keeps(d, i)'
    BY <1>1, <1>2, <1>3, <1>4, <2>1, Zenon DEF Keeps
  <2> QED BY <2>2
<1>6. ASSUME Touched(id) # {} PROVE \E i \in Image : Keeps(c, i)'
  <2>1. id = client[c].ff /\ id \in FreezeIds
    BY <1>0, <1>6, UseIs, Zenon
  <2>2. id # NoId
    BY DEF IdsOf
  <2>3. PICK i \in Frame(id) : i \in Touched(id)
    BY <1>6, Zenon DEF Touched
  <2>4. /\ i \in Image /\ id.index \in Slot /\ freezeFrames[id.index] = i
        /\ state[i] = "valid" /\ sweepNum[i] = id.sweepNum /\ data[i] = id.of
        /\ id.clientId \in ffRefCount[i]
    BY <1>0, <2>1, <2>2, TouchedIsKept, Zenon
  <2>5. Keeps(c, i)'
    BY <1>1, <1>2, <1>3, <1>4, <2>1, <2>3, <2>4, Zenon DEF Keeps
  <2> QED BY <2>4, <2>5, Zenon
<1>7. ASSUME Touched(id) = {} PROVE client'[c].used = client[c].used
  BY <1>0, <1>7, UseIs, Zenon
<1> QED BY <1>5, <1>6, <1>7, Zenon DEF FrameInv

\* A freeze takes no slot that a kept image has.
LEMMA CreateKeepsFrames ==
    ASSUME KeepInv, Untouched, NEW c \in Client, NEW i \in Image, NEW f \in Slot, NEW k,
           CreateGives(c, i, f, k), UNCHANGED <<lapsed, engine, orphaned>>
    PROVE  FrameInv'
<1>0. UNCHANGED <<state, sweepNum, data>>
  BY DEF Untouched, ring
<1>1. ASSUME NEW d \in Client, client'[d].used = "touched", ~orphaned'
      PROVE  \E m \in Image : Keeps(d, m)'
  <2>1. d # c /\ client'[d] = client[d]
    BY <1>1, Zenon DEF CreateGives
  <2>2. PICK m \in Image : Keeps(d, m)
    BY <1>1, <2>1, Zenon DEF KeepInv, FrameInv
  <2>3. freezeFrames[f] = i \/ freezeFrames[f] = NoImage \/ ffRefCount[freezeFrames[f]] = {}
    BY Allocated, ImagesAssumption, Zenon DEF CreateGives
  <2>4. client[d].ff.index = f => m = i
    <3>1. m # NoImage
      BY ImagesAssumption DEF Image, NoImage
    <3> QED BY <2>2, <2>3, <3>1, Zenon DEF Keeps
  <2>5. freezeFrames'[client[d].ff.index] = m
    BY <2>2, <2>4, Zenon DEF Keeps, CreateGives
  <2>6. client[d].ff.clientId \in ffRefCount'[m]
    BY <2>2, Zenon DEF Keeps, CreateGives
  <2>7. Keeps(d, m)'
    BY <1>0, <2>1, <2>2, <2>5, <2>6, Zenon DEF Keeps
  <2> QED BY <2>7, Zenon
<1> QED BY <1>1, Zenon DEF FrameInv

\* A release takes one client's reference.
LEMMA ReleaseKeepsFrames ==
    ASSUME KeepInv, Untouched, NEW c \in Client, NEW i \in Image, ReleaseGives(c, i)
    PROVE  FrameInv'
<1>0. UNCHANGED <<state, sweepNum, data, freezeFrames, orphaned>> /\ IInv /\ RefInv
  BY Zenon DEF Untouched, ring, ReleaseGives, KeepInv, IdInv
<1>1. /\ \A m \in Image : lapsed'[m] => lapsed[m]
      /\ engine'.gone \subseteq engine.gone
  BY <1>0, TouchDoes, Zenon DEF ReleaseGives
<1>2. /\ client[c].ff # NoId /\ sweepNum[i] = client[c].ff.sweepNum
      /\ \A m \in Image : ffRefCount'[m] = IF m = i THEN ffRefCount[m] \ {client[c].ff.clientId} ELSE ffRefCount[m]
  BY DEF ReleaseGives, Holds, Frame, InSlot
<1>3. ASSUME NEW d \in Client, client'[d].used = "touched", ~orphaned'
      PROVE  \E m \in Image : Keeps(d, m)'
  <2>1. d # c /\ client'[d] = client[d]
    BY <1>3, Zenon DEF ReleaseGives
  <2>2. PICK m \in Image : Keeps(d, m)
    BY <1>0, <1>3, <2>1, Zenon DEF KeepInv, FrameInv
  <2>3. client[d].ff # NoId /\ client[c].ff # NoId
    BY <1>0, <1>3, <1>2, <2>1, UsedHasId, Zenon
  <2>4. m = i => client[d].ff.clientId # client[c].ff.clientId
    <3>1. sweepNum[m] = client[d].ff.sweepNum
      BY <2>2 DEF Keeps
    <3> QED BY <1>0, <1>2, <2>1, <2>3, <3>1, RefsDiffer, Zenon
  <2>5. client[d].ff.clientId \in ffRefCount'[m]
    BY <1>2, <2>2, <2>4, Zenon DEF Keeps
  <2>6. Keeps(d, m)'
    BY <1>0, <1>1, <2>1, <2>2, <2>5, Zenon DEF Keeps
  <2> QED BY <2>6, Zenon
<1> QED BY <1>3, Zenon DEF FrameInv

\* A move takes the client's reference and, unless it orphans a frozen image, no slot
\* that another client's image needs.
LEMMA MoveKeepsFrames ==
    ASSUME FewFreezes, KeepInv, Untouched, NEW c \in Client, client[c].ff \in FreezeIds, Touch(client[c].ff),
           NEW i \in Image, NEW j \in Image, NEW f, NEW k, MoveGives(c, i, j, f, k)
    PROVE  FrameInv'
<1> DEFINE id == client[c].ff
<1>0. UNCHANGED <<state, sweepNum, data>> /\ IInv /\ RefInv /\ IdInv
  BY Zenon DEF Untouched, ring, KeepInv, IdInv
<1>1. id # NoId /\ id.type = "freeze"
  BY DEF FreezeIds, NoId
<1>2. /\ id.index \in Slot /\ freezeFrames[id.index] = j /\ sweepNum[j] = id.sweepNum
      /\ id.clientId \in ffRefCount[j] /\ j \in Frame(id)
  <2>1. j \in Frame(id) /\ state[i] = "valid"
    BY Zenon DEF MoveGives
  <2> QED BY <1>0, <1>1, <2>1, TouchedIsKept, Zenon
<1>3. /\ \A m \in Image : lapsed'[m] => lapsed[m] /\ m # j
      /\ engine'.gone \subseteq engine.gone /\ j \notin engine'.gone
  <2>1. j \in Touched(id)
    BY <1>1, <1>2, Zenon DEF Touched, MoveGives
  <2> QED BY <1>0, <2>1, TouchDoes, Zenon
<1>4. /\ \A m \in Image : ffRefCount'[m] =
          (IF m = i THEN ffRefCount[m] \cup {k} ELSE ffRefCount[m]) \ (IF m = j THEN {id.clientId} ELSE {})
      /\ \A g \in Slot : freezeFrames'[g] = IF g = f THEN i ELSE freezeFrames[g]
      /\ client'[c].ff = FreezeId(f, k, i) /\ client'[c].used = IF i = j THEN "touched" ELSE "created"
      /\ \A d \in Client : d # c => client'[d] = client[d]
      /\ ~orphaned' => /\ ~orphaned /\ f \in Slot
                       /\ f = id.index /\ i # j => ffRefCount[j] = {id.clientId}
      /\ k \notin ffRefCount[i] /\ state[i] = "valid"
  BY Zenon DEF MoveGives
<1>5. f \in Slot => \/ f = id.index
                    \/ freezeFrames[f] = i \/ freezeFrames[f] = NoImage \/ ffRefCount[freezeFrames[f]] = {}
  <2>1. f = id.index \/ f = allocFreezeFrame(i)
    BY Zenon DEF MoveGives, MoveSlot
  <2> QED BY <2>1, Allocated, ImagesAssumption, Zenon
<1>6. ASSUME NEW d \in Client, d # c, client'[d].used = "touched", ~orphaned'
      PROVE  \E m \in Image : Keeps(d, m)'
  <2>1. client'[d] = client[d] /\ ~orphaned
    BY <1>4, <1>6, Zenon
  <2>2. PICK m \in Image : Keeps(d, m)
    BY <1>6, <2>1, Zenon DEF KeepInv, FrameInv
  <2>3. client[d].ff # NoId
    BY <1>0, <1>6, <2>1, UsedHasId, Zenon
  <2>4. m = j => client[d].ff.clientId # id.clientId
    <3>1. sweepNum[m] = client[d].ff.sweepNum
      BY <2>2, Zenon DEF Keeps
    <3> QED BY <1>0, <1>1, <1>2, <1>6, <2>3, <3>1, RefsDiffer, Zenon
  <2>5. client[d].ff.clientId \in ffRefCount'[m]
    BY <1>4, <2>2, <2>4, Zenon DEF Keeps
  <2>6. client[d].ff.index = f => m = i
    <3>1. m # NoImage
      BY ImagesAssumption DEF Image, NoImage
    <3>2. freezeFrames[client[d].ff.index] = m /\ client[d].ff.clientId \in ffRefCount[m]
      BY <2>2, Zenon DEF Keeps
    <3>3. CASE client[d].ff.index = f /\ f = id.index
      BY <1>2, <1>4, <1>6, <2>4, <3>2, <3>3
    <3> QED BY <1>4, <1>5, <1>6, <3>1, <3>2, <3>3, Zenon
  <2>7. freezeFrames'[client[d].ff.index] = m
    BY <1>4, <2>2, <2>6, Zenon DEF Keeps
  <2>8. Keeps(d, m)'
    BY <1>0, <1>3, <2>1, <2>2, <2>5, <2>7, Zenon DEF Keeps
  <2> QED BY <2>8, Zenon
<1>7. ASSUME client'[c].used = "touched", ~orphaned' PROVE Keeps(c, i)'
  <2>1. i = j /\ f \in Slot
    BY <1>4, <1>7, Zenon
  <2>2. freezeFrames'[f] = i /\ k \in ffRefCount'[i]
    <3>1. ffRefCount'[i] = (ffRefCount[i] \cup {k}) \ {id.clientId} /\ freezeFrames'[f] = i
      BY <1>4, <2>1, Zenon
    <3>2. k # id.clientId
      BY <1>2, <1>4, <2>1, Zenon
    <3> QED BY <3>1, <3>2
  <2>3. /\ client'[c].ff.index = f /\ client'[c].ff.clientId = k
        /\ client'[c].ff.sweepNum = sweepNum[i] /\ client'[c].ff.of = data[i]
    BY <1>4 DEF FreezeId
  <2> QED BY <1>0, <1>3, <1>4, <2>1, <2>2, <2>3, Zenon DEF Keeps
<1> QED BY <1>6, <1>7, Zenon DEF FrameInv

\* When the lease of an image ends, its clients are told.
LEMMA LeaseKeepsFrames ==
    ASSUME KeepInv, Untouched, NEW i \in Image, LeaseEnds(i)
    PROVE  FrameInv'
<1>0. /\ UNCHANGED <<state, sweepNum, data, freezeFrames, ffRefCount, orphaned, engine>>
      /\ RefInv /\ ClientTypes /\ FlagTypes
  BY DEF LeaseEnds, Untouched, ring, frames, KeepInv, IdInv, Types
<1>1. \A m \in Image : m # i => (lapsed'[m] <=> lapsed[m])
  BY <1>0 DEF LeaseEnds, FlagTypes
<1>2. ASSUME NEW d \in Client, client'[d].used = "touched", ~orphaned'
      PROVE  \E m \in Image : Keeps(d, m)'
  <2>1. /\ client'[d].ff = client[d].ff
        /\ client'[d].used = IF Holds(d) /\ client[d].ff.of = data[i] THEN "no" ELSE client[d].used
    BY <1>0, LeaseDoes, Zenon
  <2>2. client[d].used = "touched" /\ ~(Holds(d) /\ client[d].ff.of = data[i])
    BY <1>2, <2>1, Zenon
  <2>3. PICK m \in Image : Keeps(d, m)
    BY <1>0, <1>2, <2>2, Zenon DEF KeepInv, FrameInv
  <2>4. Holds(d)
    BY <1>0, <2>2, Zenon DEF RefInv, Holds
  <2>5. m # i
    BY <2>2, <2>3, <2>4, Zenon DEF Keeps
  <2>6. Keeps(d, m)'
    BY <1>0, <1>1, <2>1, <2>3, <2>5, Zenon DEF Keeps
  <2> QED BY <2>6, Zenon
<1> QED BY <1>2, Zenon DEF FrameInv

\* What the PM does for a client keeps the frozen images in use.
LEMMA ClientMovesKeepFrames ==
    ASSUME FewFreezes, KeepInv, ClientMoves
    PROVE  FrameInv'
<1>0. IdInv /\ RefInv /\ IInv /\ Types /\ Untouched /\ Reader \subseteq Client
  BY ClientMovesLeave, ImagesAssumption, Zenon DEF KeepInv, IdInv
<1>1. ASSUME NEW c \in Client, NEW id \in IdsOf(c), NEW offset \in Offset(id), GetImageInfo(c, id, offset)
      PROVE  FrameInv'
  <2>1. Touch(id) /\ freezeFrames' = Cleaned(id) /\ UNCHANGED <<ffRefCount, orphaned>>
    BY <1>1, Zenon DEF GetImageInfo
  <2>2. /\ client'[c].ff = client[c].ff /\ client'[c].used = Use(c, id)
        /\ \A d \in Client : d # c => client'[d] = client[d]
    BY <1>0, <1>1, GetImageInfoDoes, Zenon
  <2> QED BY <1>0, <2>1, <2>2, TouchKeepsFrames, Zenon
<1>2. ASSUME NEW c \in Client, NEW id \in IdsOf(c), NEW offset \in Offset(id), Read(c, id, offset)
      PROVE  FrameInv'
  <2>1. Touch(id) /\ UNCHANGED <<freezeFrames, ffRefCount, orphaned>>
    BY <1>2, Zenon DEF Read, frames
  <2>2. /\ client'[c].ff = client[c].ff /\ client'[c].used = Use(c, id)
        /\ \A d \in Client : d # c => client'[d] = client[d]
    BY <1>0, <1>2, ReadDoes, Zenon
  <2> QED BY <1>0, <2>1, <2>2, TouchKeepsFrames, Zenon
<1>3. ASSUME NEW c \in Client, FreezeFrameRenew(c) PROVE FrameInv'
  <2>1. /\ Touch(client[c].ff) /\ freezeFrames' = Cleaned(client[c].ff) /\ UNCHANGED <<ffRefCount, orphaned>>
        /\ Holds(c)
    BY <1>3, Zenon DEF FreezeFrameRenew
  <2>2. client[c].ff \in IdsOf(c)
    BY <2>1, HoldsIs, Zenon
  <2>3. /\ client'[c].ff = client[c].ff /\ client'[c].used = Use(c, client[c].ff)
        /\ \A d \in Client : d # c => client'[d] = client[d]
    BY <1>0, <1>3, RenewDoes, Zenon
  <2> QED BY <1>0, <2>1, <2>2, <2>3, TouchKeepsFrames, Zenon
<1>4. ASSUME NEW c \in Client, ClearPortStats(c) \/ EndRead(c) \/ Forget(c) PROVE FrameInv'
  <2>1. UNCHANGED <<state, sweepNum, data, freezeFrames, ffRefCount, orphaned, lapsed, engine>>
    BY <1>4, Zenon DEF ClearPortStats, EndRead, Forget, ring, frames
  <2>2. \A d \in Client : \/ client'[d].ff = client[d].ff /\ client'[d].used = client[d].used
                          \/ client'[d].used = "no"
    BY <1>0, <1>4, LastDoes, ForgetDoes, Zenon
  <2>3. ASSUME NEW d \in Client, client'[d].used = "touched", ~orphaned'
        PROVE  \E m \in Image : Keeps(d, m)'
    <3>1. client'[d].ff = client[d].ff /\ client[d].used = "touched" /\ ~orphaned
      BY <2>1, <2>2, <2>3, Zenon
    <3>2. PICK m \in Image : Keeps(d, m)
      BY <3>1, Zenon DEF KeepInv, FrameInv
    <3>3. Keeps(d, m)'
      BY <2>1, <3>1, <3>2, Zenon DEF Keeps
    <3> QED BY <3>3, Zenon
  <2> QED BY <2>3, Zenon DEF FrameInv
<1>5. ASSUME NEW i \in Image, LeaseEnds(i) PROVE FrameInv'
  BY <1>0, <1>5, LeaseKeepsFrames, Zenon
<1>6. ASSUME NEW c \in Client, NEW id, NEW offset, FreezeFrameCreate(c, id, offset) PROVE FrameInv'
  <2>1. UNCHANGED <<lapsed, engine, orphaned>>
    BY <1>6, Zenon DEF FreezeFrameCreate
  <2>2. PICK i \in Image, f \in Slot, k \in 0 .. ClientIds - 1 : CreateGives(c, i, f, k)
    BY <1>0, <1>6, CreateIs, Zenon
  <2> QED BY <1>0, <2>1, <2>2, CreateKeepsFrames, Zenon
<1>7. ASSUME NEW c \in Client, NEW id, NEW offset, FreezeFrameMove(c, id, offset) PROVE FrameInv'
  BY <1>0, <1>7, MoveIs, MoveKeepsFrames, Zenon
<1>8. ASSUME NEW c \in Client, FreezeFrameRelease(c) PROVE FrameInv'
  BY <1>0, <1>8, ReleaseIs, ReleaseKeepsFrames, Zenon
<1> QED BY <1>0, <1>1, <1>2, <1>3, <1>4, <1>5, <1>6, <1>7, <1>8, Zenon DEF ClientMoves, Queries, Freezes

\* A kept image is not taken as the next one to fill, and no other is overwritten.
LEMMA EngineMovesKeepFrames ==
    ASSUME KeepInv, EngineMoves
    PROVE  FrameInv'
<1>0. /\ IInv /\ Types /\ UNCHANGED client /\ SweepIndex \in Image /\ state[SweepIndex] # "valid"
      /\ engine \in [pc : {"idle", "locking", "sweeping", "publish"}, img : Image, gone : SUBSET Image]
  BY EngineMovesDo DEF KeepInv, IdInv, IInv
<1>1. ASSUME UNCHANGED <<freezeFrames, orphaned>>,
             \A i \in Image : state[i] = "valid" /\ ffRefCount[i] # {} /\ ~lapsed[i] /\ i \notin engine.gone
               => /\ state'[i] = "valid" /\ sweepNum'[i] = sweepNum[i] /\ data'[i] = data[i]
                  /\ ffRefCount'[i] = ffRefCount[i] /\ ~lapsed'[i] /\ i \notin engine'.gone
      PROVE  FrameInv'
  <2>1. ASSUME NEW d \in Client, NEW i \in Image, Keeps(d, i) PROVE Keeps(d, i)'
    <3>1. ffRefCount[i] # {}
      BY <2>1, Zenon DEF Keeps
    <3> QED BY <1>0, <1>1, <2>1, <3>1, Zenon DEF Keeps
  <2> QED BY <1>0, <1>1, <2>1, Zenon DEF KeepInv, FrameInv
<1>2. CASE SweepBegins
  <2>1. /\ UNCHANGED <<freezeFrames, orphaned, data, ffRefCount, lapsed>> /\ engine'.gone = {}
        /\ sweepNum' = [sweepNum EXCEPT ![SweepIndex] = NumSweeps]
        /\ state' = [state EXCEPT ![SweepIndex] = "inprogress"]
    BY <1>2, Zenon DEF SweepBegins, frames
  <2>2. \A i \in Image : state[i] = "valid" => state'[i] = "valid" /\ sweepNum'[i] = sweepNum[i]
    BY <1>0, <2>1, Zenon DEF IInv, Types, NumberTypes
  <2> QED BY <1>1, <2>1, <2>2, Zenon
<1>3. CASE SweepFills
  <2>1. /\ UNCHANGED <<freezeFrames, orphaned, ffRefCount, lapsed, state, sweepNum>> /\ engine'.gone = engine.gone
        /\ data' = [data EXCEPT ![SweepIndex] = count.fills + 1]
    BY <1>0, <1>3, Zenon DEF SweepFills, ring, frames, IInv
  <2>2. \A i \in Image : state[i] = "valid" => data'[i] = data[i]
    BY <1>0, <2>1, Zenon DEF Types, NumberTypes
  <2> QED BY <1>1, <2>1, <2>2, Zenon
<1>4. CASE SweepIsStandby
  <2>1. UNCHANGED <<freezeFrames, orphaned, data, ffRefCount, lapsed, state, sweepNum>> /\ engine'.gone = {}
    BY <1>4 DEF SweepIsStandby, ring, frames
  <2> QED BY <1>1, <2>1, Zenon
<1>5. CASE SweepEnds
  <2>1. /\ UNCHANGED <<freezeFrames, orphaned, data, ffRefCount, lapsed, state, sweepNum>>
        /\ engine'.gone = {i \in Image : lapsed[i]}
    BY <1>0, <1>5, Zenon DEF SweepEnds, ring, frames
  <2> QED BY <1>1, <2>1, Zenon
<1>6. CASE Publish
  <2> DEFINE next == NextImage(engine.gone)
  <2>1. /\ UNCHANGED <<freezeFrames, orphaned, data, sweepNum, lapsed>> /\ engine'.gone = {}
        /\ TakeNext(next, engine.img) /\ engine.img \in Image
    BY <1>0, <1>6, Zenon DEF Publish
  <2>2. next \in Image /\ (ffRefCount[next] = {} \/ next \in engine.gone)
    BY <1>0, NextIsAnother, NextIsUsable, ImagesAssumption, Zenon
  <2> HIDE DEF next
  <2>3. \A i \in Image : i # next => /\ state[i] = "valid" => state'[i] = "valid"
                                     /\ ffRefCount'[i] = ffRefCount[i]
    BY <1>0, <2>1, <2>2, TakeNextDoes
  <2> QED BY <1>1, <2>1, <2>2, <2>3, Zenon
<1>7. CASE ReceiveEnds
  <2> DEFINE next == NextImage({i \in Image : lapsed[i]})
  <2>1. /\ UNCHANGED <<freezeFrames, orphaned, engine>> /\ TakeNext(next, SweepIndex)
        /\ sweepNum' = [sweepNum EXCEPT ![SweepIndex] = Received]
        /\ data' = [data EXCEPT ![SweepIndex] = count.fills + 1]
        /\ lapsed' = [lapsed EXCEPT ![SweepIndex] = TRUE]
    BY <1>7, Zenon DEF ReceiveEnds
  <2>2. next \in Image /\ (ffRefCount[next] = {} \/ lapsed[next])
    <3> DEFINE gone == {i \in Image : lapsed[i]}
    <3>1. NextImage(gone) \in Image /\ (ffRefCount[NextImage(gone)] = {} \/ NextImage(gone) \in gone)
      BY <1>0, NextIsAnother, NextIsUsable, ImagesAssumption, Zenon
    <3> QED BY <3>1, Zenon
  <2> HIDE DEF next
  <2>3. \A i \in Image : i # next => /\ state[i] = "valid" => state'[i] = "valid"
                                     /\ ffRefCount'[i] = ffRefCount[i]
    BY <1>0, <2>1, <2>2, TakeNextDoes, Zenon
  <2>4. \A i \in Image : i # SweepIndex => /\ sweepNum'[i] = sweepNum[i] /\ data'[i] = data[i]
                                           /\ lapsed'[i] = lapsed[i]
    BY <1>0, <2>1, Zenon DEF Types, NumberTypes, FlagTypes
  <2> QED BY <1>0, <1>1, <2>1, <2>2, <2>3, <2>4, Zenon
<1>8. CASE ReceiveBegins \/ RoleChanges \/ DbsyncMaster
  <2>1. UNCHANGED <<freezeFrames, orphaned, data, ffRefCount, lapsed, state, sweepNum, engine>>
    BY <1>8 DEF ReceiveBegins, RoleChanges, DbsyncMaster, ring, frames
  <2> QED BY <1>1, <2>1, Zenon
<1> QED BY <1>2, <1>3, <1>4, <1>5, <1>6, <1>7, <1>8, Zenon DEF EngineMoves, Sweeps

\* Every step keeps the frozen images in use.
LEMMA FrameStep ==
    ASSUME FewFreezes, KeepInv, [Next]_vars
    PROVE  FrameInv'
<1>1. CASE UNCHANGED vars
  <2>1. UNCHANGED <<freezeFrames, orphaned, data, ffRefCount, lapsed, state, sweepNum, engine, client>>
    BY <1>1, Zenon DEF vars, ring, frames
  <2>2. \A c \in Client, i \in Image : Keeps(c, i)' <=> Keeps(c, i)
    BY <2>1 DEF Keeps
  <2> QED BY <2>1, <2>2, Zenon DEF KeepInv, FrameInv
<1> QED BY <1>1, TwoSides, ClientMovesKeepFrames, EngineMovesKeepFrames, Zenon

(* A frozen image that its client has used within the lease is found by    *)
(* its id, whatever the engine, the receiver and the other clients do,     *)
(* unless a move has taken its slot (NextImage passes over held images     *)
(* whose lease is not over, allocFreezeFrame over slots in use).           *)
THEOREM FrozenIsKeptCorrect == ASSUME FewFreezes PROVE Spec => []FrozenIsKept
<1>1. Init => FrameInv
  BY DEF Init, FrameInv
<1>2. (IdInv /\ RefInv) /\ FrameInv /\ [Next]_vars => FrameInv'
  BY FrameStep, Zenon DEF KeepInv
<1>3. (IdInv /\ RefInv) /\ FrameInv => FrozenIsKept
  <2> SUFFICES ASSUME IdInv, RefInv, FrameInv, NEW c \in Client, client[c].used = "touched", ~orphaned
               PROVE  Frame(client[c].ff) # {}
    BY DEF FrozenIsKept
  <2>1. PICK i \in Image : Keeps(c, i)
    BY Zenon DEF FrameInv
  <2>2. client[c].ff # NoId
    BY Zenon DEF RefInv
  <2>3. Tested(client[c].ff.clientId) = {client[c].ff.clientId}
    BY <2>2, ClientIdIs, Zenon
  <2>4. client[c].ff.index < FreezeFrames
    BY <2>1, ImagesAssumption DEF Keeps, Slot
  <2> QED BY <2>1, <2>3, <2>4, Zenon DEF Keeps, Frame, InSlot
<1> QED BY <1>1, <1>2, <1>3, RefsHold, PTL DEF Spec
===============================================================================
