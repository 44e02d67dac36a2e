---------------------------- MODULE PmImagesProofs ----------------------------
(***************************************************************************)
(* Proofs about the ring of images, for every number of images and freeze  *)
(* frames that pm.c admits: the slots of the freeze frames bound the       *)
(* images kept from the engine, and so live data stay readable; and every  *)
(* variable keeps its type.                                                *)
(***************************************************************************)
EXTENDS PmImages, FiniteSetTheorems, NaturalsInduction, WellFoundedInduction, TLAPS

\* Held images are valid and the image to be filled next is not, so no image is
\* both held and filled; each held image has a slot; the engine works on
\* SweepIndex unless a received image has moved it.
IInv ==
    /\ state \in [Image -> {"invalid", "valid", "inprogress"}]
    /\ ffRefCount = [i \in Image |-> ffRefCount[i]]
    /\ freezeFrames \in [Slot -> Image \cup {NoImage}]
    /\ history \in [Image -> Image \cup {NoImage}]
    /\ lastHistoryIndex \in Image
    /\ SweepIndex \in Image
    /\ engine \in [pc : {"idle", "locking", "sweeping", "publish"}, img : Image, gone : SUBSET Image]
    /\ history[lastHistoryIndex] = LastSweepIndex
    /\ \A i \in Image : ffRefCount[i] # {} => state[i] = "valid"
    /\ state[SweepIndex] # "valid"
    /\ engine.pc = "locking" => lock = "engine"
    /\ engine.pc \in {"locking", "sweeping"} => engine.img = SweepIndex
    /\ engine.pc = "publish" /\ ~overtaken => engine.img = SweepIndex
    /\ HeldHasSlot
    /\ LastIsReadable

-----------------------------------------------------------------------------
(* Arithmetic and minima.                                                  *)

\* One step around a ring, without the remainder.
LEMMA Around ==
    ASSUME NEW N \in Nat, N > 0, NEW x \in Nat, x < 2 * N
    PROVE  x % N = IF x < N THEN x ELSE x - N
<1>1. CASE x < N
  BY <1>1, SMT
<1>2. CASE x >= N
  BY <1>2, SMT
<1>3. QED
  BY <1>1, <1>2

\* A nonempty set of naturals has a minimum, which is in it.
LEMMA MinOfNats ==
    ASSUME NEW S, S \subseteq Nat, S # {}
    PROVE  Min(S) \in S /\ \A y \in S : Min(S) <= y
<1>1. PICK x \in S : \A y \in S : ~(<<y, x>> \in OpToRel(<, Nat))
  BY WFMin, NatLessThanWellFounded
<1>2. \A y \in S : x <= y
  <2>1. SUFFICES ASSUME NEW y \in S PROVE x <= y
    OBVIOUS
  <2>2. ~(y < x)
    BY <1>1, Zenon DEF OpToRel
  <2>3. QED
    BY <2>2
<1>3. QED
  BY <1>2, Zenon DEF Min

-----------------------------------------------------------------------------
(* What the lookups and searches return.                                   *)

\* Every image that an image id leads to is a valid one.
LEMMA Found ==
    ASSUME IInv, NEW id, NEW offset, NEW i \in GetIndexFromImageId(id, offset)
    PROVE  i \in Image /\ state[i] = "valid"
<1>1. EngineReady
  BY DEF GetIndexFromImageId
<1>2. \/ i = LastSweepIndex
      \/ \E h, o, b : i \in ComputeHistory(h, o, b)
      \/ i \in Frame(id)
  BY DEF GetIndexFromImageId
<1>3. LastSweepIndex \in Image /\ state[LastSweepIndex] = "valid"
  BY <1>1 DEF EngineReady, IInv
<1>4. QED
  BY <1>2, <1>3 DEF ComputeHistory, Frame, InSlot

\* The frame that a freeze id leads to is in the id's slot.
LEMMA FoundFrame ==
    ASSUME IInv, NEW id, NEW i \in FindFreezeFrame(id)
    PROVE  i \in Image /\ state[i] = "valid" /\ freezeFrames[id.index] = i
  BY Found DEF FindFreezeFrame, GetIndexFromImageId, Frame, InSlot

\* A slot for an image is the image's own, or one that no held image has, or
\* there is none.
LEMMA Allocated ==
    ASSUME ImagesAssumption, NEW i, allocFreezeFrame(i) \in Slot
    PROVE  \/ freezeFrames[allocFreezeFrame(i)] = i
           \/ freezeFrames[allocFreezeFrame(i)] = NoImage
           \/ ffRefCount[freezeFrames[allocFreezeFrame(i)]] = {}
<1> DEFINE own == {f \in Slot : ffRefCount[i] # {} /\ freezeFrames[f] = i}
           free == {f \in Slot : freezeFrames[f] = NoImage \/ ffRefCount[freezeFrames[f]] = {}}
<1>1. own \subseteq Nat /\ free \subseteq Nat /\ FreezeFrames \notin Slot
  BY DEF Slot, ImagesAssumption
<1>2. CASE own # {}
  <2>1. Min(own) \in own
    BY <1>1, <1>2, MinOfNats
  <2>2. allocFreezeFrame(i) = Min(own)
    BY <1>2 DEF allocFreezeFrame
  <2>3. QED
    BY <2>1, <2>2
<1>3. CASE own = {} /\ free # {}
  <2>1. Min(free) \in free
    BY <1>1, <1>3, MinOfNats, Zenon
  <2>2. allocFreezeFrame(i) = Min(free)
    BY <1>3 DEF allocFreezeFrame
  <2>3. QED
    BY <2>1, <2>2
<1>4. CASE own = {} /\ free = {}
  BY <1>1, <1>4 DEF allocFreezeFrame
<1>5. QED
  BY <1>2, <1>3, <1>4

\* With a slot for every held image, some image other than SweepIndex is held
\* by nobody: TotalImages >= FreezeFrames + 2.
LEMMA SomeImageIsFree ==
    ASSUME ImagesAssumption, IInv, ~orphaned
    PROVE  \E i \in Image : i # SweepIndex /\ ffRefCount[i] = {}
<1>1. SUFFICES ASSUME \A i \in Image : i # SweepIndex => ffRefCount[i] # {} PROVE FALSE
  OBVIOUS
<1> DEFINE Others == Image \ {SweepIndex}
           slotOf == [i \in Others |-> CHOOSE f \in Slot : freezeFrames[f] = i]
<1>2. \A i \in Others : slotOf[i] \in Slot /\ freezeFrames[slotOf[i]] = i
  BY <1>1 DEF IInv, HeldHasSlot
<1>3. slotOf \in Injection(Others, Slot)
  <2>1. slotOf \in [Others -> Slot]
    BY <1>2
  <2>2. \A a, b \in Others : slotOf[a] = slotOf[b] => a = b
    BY <1>2
  <2>3. QED
    BY <2>1, <2>2 DEF Injection, IsInjective
<1>4. IsFiniteSet(Slot) /\ Cardinality(Slot) = FreezeFrames
  BY FS_Interval DEF Slot, ImagesAssumption
<1>5. IsFiniteSet(Image) /\ Cardinality(Image) = TotalImages
  BY FS_Interval DEF Image, ImagesAssumption
<1>6. IsFiniteSet(Others) /\ Cardinality(Others) = TotalImages - 1
  BY <1>5, FS_RemoveElement, Zenon DEF IInv
<1>7. Cardinality(Others) <= Cardinality(Slot)
  BY <1>3, <1>4, FS_Injection
<1>8. QED
  BY <1>4, <1>6, <1>7 DEF ImagesAssumption

\* The search stays in the ring, and ends at an image other than SweepIndex.
LEMMA NextIsAnother ==
    ASSUME ImagesAssumption, IInv, NEW gone
    PROVE  NextImage(gone) \in Image /\ (~orphaned => NextImage(gone) # SweepIndex)
<1> DEFINE Usable(i) == ffRefCount[i] = {} \/ i \in gone
           K == {k \in 1 .. TotalImages : Usable((SweepIndex + k) % TotalImages)}
<1>1. TotalImages \in Nat /\ TotalImages > 0 /\ SweepIndex \in 0 .. TotalImages - 1
  BY DEF ImagesAssumption, IInv, Image
<1>2. \A k \in 0 .. TotalImages : (SweepIndex + k) % TotalImages =
          IF SweepIndex + k < TotalImages THEN SweepIndex + k ELSE SweepIndex + k - TotalImages
  BY <1>1, Around
<1>3. TotalImages \in K
  <2>1. (SweepIndex + TotalImages) % TotalImages = SweepIndex
    BY <1>1, <1>2
  <2>2. ffRefCount[SweepIndex] = {}
    BY DEF IInv
  <2>3. QED
    BY <1>1, <2>1, <2>2
<1>4. K \subseteq Nat
  BY <1>1
<1>5. Min(K) \in K /\ \A k \in K : Min(K) <= k
  BY <1>3, <1>4, MinOfNats, Zenon
<1>6. NextImage(gone) = (SweepIndex + Min(K)) % TotalImages
  BY DEF NextImage
<1>7. Min(K) \in 1 .. TotalImages
  BY <1>5
<1> HIDE DEF K
<1>8. NextImage(gone) \in Image
  BY <1>1, <1>2, <1>6, <1>7 DEF Image
<1>9. ASSUME ~orphaned PROVE NextImage(gone) # SweepIndex
  <2>1. PICK i \in Image : i # SweepIndex /\ ffRefCount[i] = {}
    BY <1>9, SomeImageIsFree
  <2> DEFINE d == IF i > SweepIndex THEN i - SweepIndex ELSE i - SweepIndex + TotalImages
  <2>2. i \in 0 .. TotalImages - 1
    BY DEF Image
  <2>3. d \in 1 .. TotalImages - 1 /\ (SweepIndex + d) % TotalImages = i
    BY <1>1, <1>2, <2>1, <2>2
  <2>4. d \in K
    BY <1>1, <2>1, <2>3 DEF K
  <2>5. Min(K) \in 1 .. TotalImages - 1
    BY <1>1, <1>5, <1>7, <2>3, <2>4
  <2>6. QED
    BY <1>1, <1>2, <1>6, <2>5
<1>10. QED
  BY <1>8, <1>9

-----------------------------------------------------------------------------
(* Steps that move the ring on.                                            *)

\* One step ahead in the history stays in the ring.
LEMMA AheadInRing ==
    ASSUME ImagesAssumption, IInv
    PROVE  Ahead(lastHistoryIndex, 1) \in Image
<1>1. TotalImages \in Nat /\ TotalImages > 0 /\ lastHistoryIndex + TotalImages + 1 \in Int
  BY DEF ImagesAssumption, IInv, Image
<1>2. (lastHistoryIndex + TotalImages + 1) % TotalImages \in 0 .. TotalImages - 1
  BY <1>1, SMT
<1>3. QED
  BY <1>2 DEF Ahead, Image

\* Taking the next image from its holders keeps held images valid and in slots.
LEMMA TakeNextKeeps ==
    ASSUME ImagesAssumption, IInv, NEW next \in Image, NEW valid \in Image,
           TakeNext(next, valid), UNCHANGED <<freezeFrames, orphaned>>
    PROVE  /\ state' \in [Image -> {"invalid", "valid", "inprogress"}]
           /\ ffRefCount' = [i \in Image |-> ffRefCount'[i]]
           /\ SweepIndex' = next /\ state'[next] = "inprogress"
           /\ valid # next => state'[valid] = "valid"
           /\ \A i \in Image : ffRefCount'[i] # {} => state'[i] = "valid"
           /\ HeldHasSlot'
<1>1. /\ state' \in [Image -> {"invalid", "valid", "inprogress"}]
      /\ SweepIndex' = next /\ state'[next] = "inprogress"
      /\ valid # next => state'[valid] = "valid"
      /\ \A i \in Image \ {next, valid} : state'[i] = state[i]
  BY DEF TakeNext, IInv
<1>2. \A i \in Image : ffRefCount'[i] = IF i = next THEN {} ELSE ffRefCount[i]
  BY DEF TakeNext, IInv
<1>3. ffRefCount' = [i \in Image |-> ffRefCount'[i]]
  BY Zenon DEF TakeNext, IInv
<1>4. \A i \in Image : ffRefCount'[i] # {} => state'[i] = "valid"
  BY <1>1, <1>2 DEF IInv
<1>5. HeldHasSlot'
  BY <1>2 DEF HeldHasSlot, IInv
<1>6. QED
  BY <1>1, <1>3, <1>4, <1>5

\* A recorded image is the last one of the history.
LEMMA RecordKeeps ==
    ASSUME ImagesAssumption, IInv, NEW img \in Image, Record(img)
    PROVE  /\ history' \in [Image -> Image \cup {NoImage}]
           /\ lastHistoryIndex' \in Image
           /\ LastSweepIndex' = SweepIndex
           /\ history'[lastHistoryIndex'] = LastSweepIndex'
  BY AheadInRing DEF Record, IInv

-----------------------------------------------------------------------------
(* Queries, renewals and what happens outside the locks.                   *)

\* Emptying the slot of an image that nobody holds takes no held image's slot.
LEMMA CleanedKeeps ==
    ASSUME IInv, NEW id, freezeFrames' = Cleaned(id), UNCHANGED <<ffRefCount, orphaned>>
    PROVE  freezeFrames' \in [Slot -> Image \cup {NoImage}] /\ HeldHasSlot'
<1>1. freezeFrames' \in [Slot -> Image \cup {NoImage}]
  BY Zenon DEF Cleaned, IInv
<1>2. \A f \in Slot : freezeFrames'[f] = freezeFrames[f] \/ ffRefCount[freezeFrames[f]] = {}
  BY DEF Cleaned, InSlot, IInv
<1>3. QED
  BY <1>1, <1>2, Zenon DEF HeldHasSlot, IInv

\* A lookup changes only the leases that the engine has seen end.
LEMMA TouchKeeps ==
    ASSUME IInv, NEW id, Touch(id)
    PROVE  /\ engine' \in [pc : {"idle", "locking", "sweeping", "publish"}, img : Image, gone : SUBSET Image]
           /\ engine'.pc = engine.pc /\ engine'.img = engine.img
<1>1. engine \in [pc : {"idle", "locking", "sweeping", "publish"}, img : Image, gone : SUBSET Image]
  BY DEF IInv
<1>2. QED
  BY <1>1 DEF Touch

\* Steps that leave the ring and the references alone keep the invariant.
LEMMA QuietKeeps ==
    ASSUME IInv, UNCHANGED <<ring, ffRefCount, lock, overtaken, orphaned>>,
           engine' \in [pc : {"idle", "locking", "sweeping", "publish"}, img : Image, gone : SUBSET Image],
           engine'.pc = engine.pc, engine'.img = engine.img,
           freezeFrames' \in [Slot -> Image \cup {NoImage}], HeldHasSlot'
    PROVE  IInv'
<1>1. LastIsReadable'
  BY DEF LastIsReadable, IInv, ring, NoImage
<1>2. QED
  BY <1>1 DEF IInv, ring, NoImage, Image, Slot

\* Leases that end, clients that die and changes of role keep the invariant.
LEMMA OutsideKeeps ==
    ASSUME IInv, UNCHANGED <<ring, frames, lock, engine, overtaken>>
    PROVE  IInv'
<1>1. freezeFrames' \in [Slot -> Image \cup {NoImage}] /\ HeldHasSlot'
  BY DEF IInv, HeldHasSlot, frames
<1>2. engine' \in [pc : {"idle", "locking", "sweeping", "publish"}, img : Image, gone : SUBSET Image]
  BY DEF IInv
<1>3. QED
  BY <1>1, <1>2, QuietKeeps DEF frames

\* Queries keep the invariant: they change no reference.
LEMMA QueriesKeep ==
    ASSUME IInv, NEW c \in Client, Queries(c)
    PROVE  IInv'
<1>1. ASSUME NEW id, NEW offset, GetImageInfo(c, id, offset) PROVE IInv'
  BY <1>1, CleanedKeeps, TouchKeeps, QuietKeeps DEF GetImageInfo
<1>2. ASSUME NEW id, NEW offset, Read(c, id, offset) PROVE IInv'
  <2>1. freezeFrames' \in [Slot -> Image \cup {NoImage}] /\ HeldHasSlot'
    BY <1>2 DEF Read, IInv, HeldHasSlot, frames
  <2>2. Touch(id) /\ UNCHANGED <<ring, ffRefCount, lock, overtaken, orphaned>>
    BY <1>2 DEF Read, frames
  <2>3. QED
    BY <2>1, <2>2, TouchKeeps, QuietKeeps
<1>3. CASE ClearPortStats(c)
  BY <1>3, OutsideKeeps, Zenon DEF ClearPortStats
<1>4. QED
  BY <1>1, <1>2, <1>3 DEF Queries

-----------------------------------------------------------------------------
(* Freeze frames.                                                          *)

\* Freezing or releasing valid images keeps the invariant if the slots follow.
LEMMA HoldKeeps ==
    ASSUME IInv, UNCHANGED <<ring, lock, overtaken>>,
           engine' \in [pc : {"idle", "locking", "sweeping", "publish"}, img : Image, gone : SUBSET Image],
           engine'.pc = engine.pc, engine'.img = engine.img,
           ffRefCount' = [i \in Image |-> ffRefCount'[i]],
           \A i \in Image : ffRefCount'[i] # {} => state[i] = "valid",
           freezeFrames' \in [Slot -> Image \cup {NoImage}], HeldHasSlot',
           orphaned => orphaned'
    PROVE  IInv'
<1>1. LastIsReadable'
  BY DEF LastIsReadable, IInv, ring, NoImage
<1>2. QED
  BY <1>1 DEF IInv, ring, NoImage, Image, Slot

\* paFreezeFrameCreate holds a valid image and gives it a slot.
LEMMA CreateKeeps ==
    ASSUME ImagesAssumption, IInv, NEW c, NEW id, NEW offset, FreezeFrameCreate(c, id, offset)
    PROVE  IInv'
<1>1. PICK i \in GetIndexFromImageId(id, offset) :
        /\ allocFreezeFrame(i) < FreezeFrames
        /\ ffRefCount' = [ffRefCount EXCEPT ![i] = @ \cup {getNextClientId(i)}]
        /\ freezeFrames' = [freezeFrames EXCEPT ![allocFreezeFrame(i)] = i]
  BY Zenon DEF FreezeFrameCreate
<1>2. i \in Image /\ state[i] = "valid"
  BY Found
<1>3. allocFreezeFrame(i) \in Slot
  <2> DEFINE own == {f \in Slot : ffRefCount[i] # {} /\ freezeFrames[f] = i}
             free == {f \in Slot : freezeFrames[f] = NoImage \/ ffRefCount[freezeFrames[f]] = {}}
  <2>1. own \subseteq Nat /\ free \subseteq Nat /\ ~(FreezeFrames < FreezeFrames)
    BY DEF Slot, ImagesAssumption
  <2>2. own # {} => Min(own) \in own
    BY <2>1, MinOfNats, Zenon
  <2>3. free # {} => Min(free) \in free
    BY <2>1, MinOfNats, Zenon
  <2>4. allocFreezeFrame(i) = IF own # {} THEN Min(own) ELSE IF free # {} THEN Min(free) ELSE FreezeFrames
    BY DEF allocFreezeFrame
  <2>5. own \subseteq Slot /\ free \subseteq Slot
    OBVIOUS
  <2> HIDE DEF own, free
  <2>6. QED
    BY <1>1, <2>1, <2>2, <2>3, <2>4, <2>5, Zenon
<1>4. \A x \in Image : x # i => ffRefCount'[x] = ffRefCount[x]
  BY <1>1, <1>2 DEF IInv
<1>5. ffRefCount' = [x \in Image |-> ffRefCount'[x]]
  BY <1>1, Zenon DEF IInv
<1>6. \A x \in Image : ffRefCount'[x] # {} => state[x] = "valid"
  BY <1>2, <1>4 DEF IInv
<1>7. freezeFrames' \in [Slot -> Image \cup {NoImage}]
  BY <1>1, <1>2, <1>3 DEF IInv
<1>8. orphaned' = orphaned /\ engine' = engine /\ UNCHANGED <<ring, lock, overtaken>>
  BY DEF FreezeFrameCreate
<1>9. HeldHasSlot'
  <2>1. SUFFICES ASSUME ~orphaned, NEW x \in Image, ffRefCount'[x] # {}
                 PROVE  \E f \in Slot : freezeFrames'[f] = x
    BY <1>8 DEF HeldHasSlot
  <2>2. CASE x = i
    BY <1>1, <1>3, <2>2 DEF IInv
  <2>3. CASE x # i
    <3>1. PICK f \in Slot : freezeFrames[f] = x
      BY <1>4, <2>1, <2>3, Zenon DEF IInv, HeldHasSlot
    <3>2. f # allocFreezeFrame(i)
      BY <1>3, <1>4, <2>1, <2>3, <3>1, Allocated DEF NoImage, Image, ImagesAssumption
    <3>3. QED
      BY <1>1, <3>1, <3>2 DEF IInv
  <2>4. QED
    BY <2>2, <2>3
<1>10. engine' \in [pc : {"idle", "locking", "sweeping", "publish"}, img : Image, gone : SUBSET Image]
  BY <1>8 DEF IInv
<1>11. QED
  BY <1>5, <1>6, <1>7, <1>8, <1>9, <1>10, HoldKeeps, Zenon

\* paFreezeFrameRelease only drops a reference.
LEMMA ReleaseKeeps ==
    ASSUME IInv, NEW c, FreezeFrameRelease(c)
    PROVE  IInv'
<1> DEFINE id == client[c].ff
<1>1. PICK i \in FindFreezeFrame(id) : ffRefCount' = [ffRefCount EXCEPT ![i] = @ \ {id.clientId}]
  BY Zenon DEF FreezeFrameRelease
<1>2. Touch(id) /\ UNCHANGED <<ring, lock, overtaken, freezeFrames, orphaned>>
  BY DEF FreezeFrameRelease
<1>3. i \in Image
  BY FoundFrame
<1>4. \A x \in Image : ffRefCount'[x] \subseteq ffRefCount[x]
  BY <1>1, <1>3 DEF IInv
<1>5. ffRefCount' = [x \in Image |-> ffRefCount'[x]]
  BY <1>1, Zenon DEF IInv
<1>6. \A x \in Image : ffRefCount'[x] # {} => state[x] = "valid"
  BY <1>4 DEF IInv
<1>7. freezeFrames' \in [Slot -> Image \cup {NoImage}] /\ HeldHasSlot'
  BY <1>2, <1>4 DEF IInv, HeldHasSlot
<1>8. QED
  BY <1>2, <1>5, <1>6, <1>7, TouchKeeps, HoldKeeps

\* A move that takes no held image's slot keeps every held image in a slot.
LEMMA MoveKeeps ==
    ASSUME ImagesAssumption, IInv, NEW c, NEW to, NEW offset, FreezeFrameMove(c, to, offset)
    PROVE  IInv'
<1> DEFINE id == client[c].ff
<1>1. PICK j \in FindFreezeFrame(id), i \in GetIndexFromImageId(to, offset) :
        LET k == getNextClientId(i)
            f == MoveSlot(id, i)
            held == [ffRefCount EXCEPT ![i] = @ \cup {k}]
        IN  /\ ffRefCount' = [held EXCEPT ![j] = @ \ {id.clientId}]
            /\ freezeFrames' = [s \in Slot |-> IF s = f THEN i ELSE freezeFrames[s]]
            /\ orphaned' = (orphaned \/ f \notin Slot
                                     \/ (f = id.index /\ i # j /\ ffRefCount[j] # {id.clientId}))
  BY Zenon DEF FreezeFrameMove
<1> DEFINE f == MoveSlot(id, i)
<1>2. Touch(id) /\ UNCHANGED <<ring, lock, overtaken>>
  BY DEF FreezeFrameMove
<1>3. i \in Image /\ state[i] = "valid"
  BY Found
<1>4. j \in Image /\ state[j] = "valid" /\ freezeFrames[id.index] = j
  BY FoundFrame
<1>5. ffRefCount' = [x \in Image |-> ffRefCount'[x]]
  BY <1>1, Zenon DEF IInv
<1>6. \A x \in Image : x # i /\ x # j => ffRefCount'[x] = ffRefCount[x]
  BY <1>1, <1>3, <1>4 DEF IInv
<1>7. i # j => ffRefCount'[j] = ffRefCount[j] \ {id.clientId}
  BY <1>1, <1>3, <1>4 DEF IInv
<1>8. \A x \in Image : ffRefCount'[x] # {} => state[x] = "valid"
  BY <1>3, <1>4, <1>6 DEF IInv
<1>9. freezeFrames' \in [Slot -> Image \cup {NoImage}]
  BY <1>1, <1>3 DEF IInv
<1>10. HeldHasSlot'
  <2>1. SUFFICES ASSUME ~orphaned', NEW x \in Image, ffRefCount'[x] # {}
                 PROVE  \E s \in Slot : freezeFrames'[s] = x
    BY Zenon DEF HeldHasSlot
  <2>2. ~orphaned /\ f \in Slot /\ (f = id.index /\ i # j => ffRefCount[j] = {id.clientId})
    BY <1>1, <2>1, Zenon
  <2>3. CASE x = i
    BY <1>1, <2>2, <2>3
  <2>4. CASE x # i
    <3>1. ffRefCount[x] # {}
      BY <1>6, <1>7, <2>1, <2>4
    <3>2. PICK s \in Slot : freezeFrames[s] = x
      BY <2>2, <3>1 DEF IInv, HeldHasSlot
    <3>3. s # f
      <4>1. CASE ffRefCount[i] = {id.clientId}
        <5>1. f = id.index
          BY <4>1 DEF MoveSlot
        <5>2. SUFFICES ASSUME s = f PROVE FALSE
          BY Zenon
        <5>3. x = j /\ i # j
          BY <1>4, <2>4, <3>2, <5>1, <5>2, Zenon
        <5>4. QED
          BY <1>7, <2>1, <2>2, <5>1, <5>3, Zenon
      <4>2. CASE ffRefCount[i] # {id.clientId}
        <5>1. f = allocFreezeFrame(i)
          BY <4>2 DEF MoveSlot
        <5>2. x # NoImage
          BY DEF NoImage, Image, ImagesAssumption
        <5>3. QED
          BY <2>2, <2>4, <3>1, <3>2, <5>1, <5>2, Allocated, Zenon
      <4>3. QED
        BY <4>1, <4>2
    <3>4. QED
      BY <1>1, <3>2, <3>3
  <2>5. QED
    BY <2>3, <2>4
<1>11. orphaned => orphaned'
  BY <1>1, Zenon
<1>12. QED
  BY <1>2, <1>5, <1>8, <1>9, <1>10, <1>11, TouchKeeps, HoldKeeps

\* Every operation on freeze frames keeps the invariant.
LEMMA FreezesKeep ==
    ASSUME ImagesAssumption, IInv, NEW c \in Client, Freezes(c)
    PROVE  IInv'
<1>1. CASE FreezeFrameRenew(c)
  BY <1>1, CleanedKeeps, TouchKeeps, QuietKeeps DEF FreezeFrameRenew
<1>2. QED
  BY <1>1, CreateKeeps, MoveKeeps, ReleaseKeeps DEF Freezes

-----------------------------------------------------------------------------
(* The engine and the receiver.                                            *)

\* PmSweep's first section marks an image that nobody holds.
LEMMA BeginsKeeps ==
    ASSUME ImagesAssumption, IInv, SweepBegins
    PROVE  IInv'
<1>1. /\ SweepIndex \in Image /\ state[SweepIndex] # "valid"
      /\ state' = [state EXCEPT ![SweepIndex] = "inprogress"]
      /\ UNCHANGED <<history, lastHistoryIndex, LastSweepIndex, SweepIndex>>
      /\ UNCHANGED <<ffRefCount, freezeFrames, orphaned, overtaken>>
  BY Zenon DEF SweepBegins, IInv, frames
<1>2. /\ engine' = [pc |-> "locking", img |-> SweepIndex, gone |-> {}]
      /\ lock' = "engine"
  BY DEF SweepBegins
<1>3. state' \in [Image -> {"invalid", "valid", "inprogress"}]
  BY <1>1 DEF IInv
<1>4. \A x \in Image : state[x] = "valid" => state'[x] = "valid"
  BY <1>1, Zenon DEF IInv
<1>5. engine' \in [pc : {"idle", "locking", "sweeping", "publish"}, img : Image, gone : SUBSET Image]
  BY <1>1, <1>2, Zenon
<1>6. LastIsReadable'
  BY <1>1, <1>4, Zenon DEF IInv, LastIsReadable, NoImage, Image
<1>7. state'[SweepIndex'] # "valid"
  BY <1>1 DEF IInv
<1>8. \A x \in Image : ffRefCount'[x] # {} => state'[x] = "valid"
  BY <1>1, <1>4, Zenon DEF IInv
<1>9. HeldHasSlot'
  BY <1>1, Zenon DEF IInv, HeldHasSlot
<1>10. QED
  BY <1>1, <1>2, <1>3, <1>5, <1>6, <1>7, <1>8, <1>9, Zenon DEF IInv, NoImage, Image, Slot

\* Steps of the engine between its two sections under stateLock.
LEMMA EngineKeeps ==
    ASSUME IInv, UNCHANGED <<ring, frames, overtaken>>,
           engine' \in [pc : {"idle", "locking", "sweeping", "publish"}, img : Image, gone : SUBSET Image],
           engine'.pc # "idle" => engine'.img = SweepIndex,
           engine'.pc # "locking"
    PROVE  IInv'
<1>1. LastIsReadable'
  BY DEF LastIsReadable, IInv, ring, frames, NoImage
<1>2. HeldHasSlot'
  BY DEF HeldHasSlot, IInv, frames
<1>3. QED
  BY <1>1, <1>2, Zenon DEF IInv, ring, frames, NoImage, Image, Slot

\* Every step of PmSweep before its last section keeps the invariant.
LEMMA SweepKeeps ==
    ASSUME ImagesAssumption, IInv, SweepFills \/ SweepIsStandby \/ SweepEnds
    PROVE  IInv'
<1>1. engine \in [pc : {"idle", "locking", "sweeping", "publish"}, img : Image, gone : SUBSET Image]
  BY DEF IInv
<1>2. engine.pc \in {"locking", "sweeping"} /\ engine.img = SweepIndex
  BY DEF IInv, SweepFills, SweepIsStandby, SweepEnds
<1>3. UNCHANGED <<ring, frames, overtaken>>
  BY DEF SweepFills, SweepIsStandby, SweepEnds
<1>4. CASE SweepFills
  <2>1. engine' = [engine EXCEPT !.pc = "sweeping"]
    BY <1>4, Zenon DEF SweepFills
  <2>2. QED
    BY <1>1, <1>2, <1>3, <2>1, EngineKeeps
<1>5. CASE SweepIsStandby
  <2>1. engine' = [pc |-> "idle", img |-> 0, gone |-> {}] /\ 0 \in Image
    BY <1>5 DEF SweepIsStandby, Image, ImagesAssumption
  <2>2. engine' \in [pc : {"idle", "locking", "sweeping", "publish"}, img : Image, gone : SUBSET Image]
    BY <2>1
  <2>3. QED
    BY <1>3, <2>1, <2>2, EngineKeeps, Zenon
<1>6. CASE SweepEnds
  <2>1. engine' = [engine EXCEPT !.pc = "publish", !.gone = {i \in Image : lapsed[i]}]
    BY <1>6, Zenon DEF SweepEnds
  <2>2. engine' \in [pc : {"idle", "locking", "sweeping", "publish"}, img : Image, gone : SUBSET Image]
    BY <1>1, <2>1, Zenon
  <2>3. engine'.pc = "publish" /\ engine'.img = SweepIndex
    BY <1>1, <1>2, <2>1, Zenon
  <2>4. QED
    BY <1>3, <2>2, <2>3, EngineKeeps
<1>7. QED
  BY <1>4, <1>5, <1>6

\* PmSweep's last section keeps the invariant.
LEMMA PublishKeeps ==
    ASSUME ImagesAssumption, IInv, Publish
    PROVE  IInv'
<1> DEFINE next == NextImage(engine.gone)
<1>1. next \in Image /\ (~orphaned => next # SweepIndex)
  BY NextIsAnother
<1>2. engine.img \in Image /\ SweepIndex \in Image /\ engine.pc = "publish"
  BY DEF IInv, Publish
<1>3. TakeNext(next, engine.img) /\ UNCHANGED <<freezeFrames, orphaned, overtaken, lock>>
  BY DEF Publish
<1> HIDE DEF next
<1>4. /\ state' \in [Image -> {"invalid", "valid", "inprogress"}]
      /\ ffRefCount' = [i \in Image |-> ffRefCount'[i]]
      /\ SweepIndex' = next /\ state'[next] = "inprogress"
      /\ engine.img # next => state'[engine.img] = "valid"
      /\ \A i \in Image : ffRefCount'[i] # {} => state'[i] = "valid"
      /\ HeldHasSlot'
  BY <1>1, <1>2, <1>3, TakeNextKeeps, Zenon
<1>5. engine' = [pc |-> "idle", img |-> 0, gone |-> {}] /\ 0 \in Image
  BY DEF Publish, Image, ImagesAssumption
<1>6. engine' \in [pc : {"idle", "locking", "sweeping", "publish"}, img : Image, gone : SUBSET Image]
  BY <1>5
<1>7. /\ history' \in [Image -> Image \cup {NoImage}]
      /\ lastHistoryIndex' \in Image
      /\ history'[lastHistoryIndex'] = LastSweepIndex'
      /\ LastSweepIndex' = SweepIndex \/ (~Counts /\ LastSweepIndex' = LastSweepIndex)
  <2>1. CASE Counts
    BY <1>2, <2>1, RecordKeeps, Zenon DEF Publish
  <2>2. CASE ~Counts
    BY <2>2 DEF Publish, IInv
  <2>3. QED
    BY <2>1, <2>2, Zenon
<1>8. LastIsReadable'
  <2>1. SUFFICES ASSUME LastSweepIndex' # NoImage, ~overtaken, ~orphaned
                 PROVE  state'[LastSweepIndex'] = "valid" /\ next # LastSweepIndex'
    BY <1>3, <1>4, <1>7, Zenon DEF LastIsReadable, NoImage
  <2>2. engine.img = SweepIndex
    BY <1>2, <2>1 DEF IInv
  <2>3. LastSweepIndex' = SweepIndex
    BY <1>7, <2>1, Zenon DEF Counts, IInv, LastIsReadable
  <2>4. QED
    BY <1>1, <1>4, <2>1, <2>2, <2>3, Zenon
<1>9. QED
  BY <1>1, <1>3, <1>4, <1>5, <1>6, <1>7, <1>8, Zenon DEF IInv, NoImage, Image, Slot

\* putPMSweepImageDataR keeps the invariant once it has the imageLock.
LEMMA ReceiveKeeps ==
    ASSUME ImagesAssumption, IInv, ReceiveEnds
    PROVE  IInv'
<1> DEFINE gone == {i \in Image : lapsed[i]}
           next == NextImage(gone)
<1>1. next \in Image /\ (~orphaned => next # SweepIndex)
  BY NextIsAnother
<1>2. SweepIndex \in Image /\ engine.pc \in {"idle", "publish"}
  BY DEF IInv, ReceiveEnds, Unwritten
<1>3. TakeNext(next, SweepIndex) /\ UNCHANGED <<freezeFrames, orphaned, engine>>
  BY DEF ReceiveEnds
<1>4. overtaken' = (overtaken \/ engine.pc = "publish") /\ Record(SweepIndex)
  BY DEF ReceiveEnds
<1> HIDE DEF next
<1>5. /\ state' \in [Image -> {"invalid", "valid", "inprogress"}]
      /\ ffRefCount' = [i \in Image |-> ffRefCount'[i]]
      /\ SweepIndex' = next /\ state'[next] = "inprogress"
      /\ SweepIndex # next => state'[SweepIndex] = "valid"
      /\ \A i \in Image : ffRefCount'[i] # {} => state'[i] = "valid"
      /\ HeldHasSlot'
  BY <1>1, <1>2, <1>3, TakeNextKeeps
<1>6. /\ history' \in [Image -> Image \cup {NoImage}]
      /\ lastHistoryIndex' \in Image
      /\ LastSweepIndex' = SweepIndex
      /\ history'[lastHistoryIndex'] = LastSweepIndex'
  BY <1>2, <1>4, RecordKeeps
<1>7. LastIsReadable'
  BY <1>1, <1>3, <1>5, <1>6 DEF LastIsReadable, NoImage
<1>8. engine' \in [pc : {"idle", "locking", "sweeping", "publish"}, img : Image, gone : SUBSET Image]
  BY <1>3 DEF IInv
<1>9. QED
  BY <1>1, <1>2, <1>3, <1>4, <1>5, <1>6, <1>7, <1>8, Zenon DEF IInv, NoImage, Image, Slot

\* putPMSweepImageDataR waiting for the imageLock changes no image.
LEMMA ReceiveBeginsKeeps ==
    ASSUME IInv, ReceiveBegins
    PROVE  IInv'
<1>1. engine.pc # "locking"
  BY DEF IInv, ReceiveBegins, StateFree
<1>2. UNCHANGED <<ring, frames, engine, overtaken>>
  BY DEF ReceiveBegins
<1>3. LastIsReadable' /\ HeldHasSlot'
  BY <1>2, Zenon DEF LastIsReadable, HeldHasSlot, IInv, ring, frames, NoImage
<1>4. QED
  BY <1>1, <1>2, <1>3 DEF IInv, ring, frames, NoImage, Image, Slot

-----------------------------------------------------------------------------
(* The theorems.                                                           *)

\* PmInit establishes the invariant.
LEMMA InitOK ==
    ASSUME ImagesAssumption, Init
    PROVE  IInv
<1>1. 0 \in Image /\ TotalImages - 1 \in Image /\ NoImage \notin Image
  BY DEF Image, NoImage, ImagesAssumption
<1>2. engine \in [pc : {"idle", "locking", "sweeping", "publish"}, img : Image, gone : SUBSET Image]
  BY <1>1, Zenon DEF Init
<1>3. HeldHasSlot /\ LastIsReadable
  BY DEF Init, HeldHasSlot, LastIsReadable
<1>4. QED
  BY <1>1, <1>2, <1>3 DEF Init, IInv

\* Every step keeps the invariant.
LEMMA NextOK ==
    ASSUME ImagesAssumption, IInv, [Next]_vars
    PROVE  IInv'
<1>1. ASSUME NEW c \in Reader, Queries(c) PROVE IInv'
  BY <1>1, QueriesKeep DEF ImagesAssumption
<1>2. ASSUME NEW c \in Client, Freezes(c) PROVE IInv'
  BY <1>2, FreezesKeep
<1>3. ASSUME NEW i \in Image, LeaseEnds(i) PROVE IInv'
  BY <1>3, OutsideKeeps DEF LeaseEnds
<1>4. CASE Sweeps
  BY <1>4, BeginsKeeps, SweepKeeps, PublishKeeps DEF Sweeps
<1>5. CASE ReceiveBegins \/ ReceiveEnds
  BY <1>5, ReceiveBeginsKeeps, ReceiveKeeps
<1>6. CASE RoleChanges
  BY <1>6, OutsideKeeps DEF RoleChanges
<1>7. CASE DbsyncMaster
  BY <1>7, OutsideKeeps DEF DbsyncMaster
<1>8. ASSUME NEW c \in Client, EndRead(c) \/ Forget(c) PROVE IInv'
  BY <1>8, OutsideKeeps DEF EndRead, Forget
<1>9. CASE UNCHANGED vars
  BY <1>9, OutsideKeeps DEF vars
<1>10. QED
  BY <1>1, <1>2, <1>3, <1>4, <1>5, <1>6, <1>7, <1>8, <1>9, Zenon DEF Next, ImagesAssumption

\* The invariant holds in every behaviour.
LEMMA Inductive == Spec => []IInv
<1>1. Init => IInv
  BY InitOK, ImagesAssumption
<1>2. IInv /\ [Next]_vars => IInv'
  BY NextOK, ImagesAssumption
<1>3. QED
  BY <1>1, <1>2, PTL DEF Spec

\* Every image kept from the engine has a slot in freezeFrames, as long as no
\* paFreezeFrameMove has taken one, for any sizes of the two tables.
THEOREM SlotsSuffice == Spec => []HeldHasSlot
<1>1. IInv => HeldHasSlot
  BY DEF IInv
<1>2. QED
  BY <1>1, Inductive, PTL

\* PmSweep and putPMSweepImageDataR leave a last image that clients can read
\* and that is not filled next: TotalImages >= FreezeFrames + 2 is enough.
THEOREM LiveDataStay == Spec => []LastIsReadable
<1>1. IInv => LastIsReadable
  BY DEF IInv
<1>2. QED
  BY <1>1, Inductive, PTL

-----------------------------------------------------------------------------
(* Types.                                                                  *)

\* The types that IInv leaves out, in groups.
NumberTypes ==
    /\ sweepNum \in [Image -> Nat] /\ data \in [Image -> Nat]
    /\ historyIndex \in [Image -> Image]
    /\ NumSweeps \in Nat /\ rx \in Nat \cup {-1}
    /\ lock \in {"none", "engine", "receive"}
    /\ count \in [fills : Nat, freezes : Nat, turns : Nat]

RefTypes ==
    /\ ffRefCount \in [Image -> SUBSET (0 .. ClientIds - 1)]
    /\ nextClientId \in [Image -> 0 .. ClientIds - 1]

FlagTypes ==
    /\ first \in BOOLEAN /\ master \in BOOLEAN
    /\ overtaken \in BOOLEAN /\ orphaned \in BOOLEAN
    /\ lapsed \in [Image -> BOOLEAN]

ClientRecord == [at : HistoryIds \cup {NoId}, ff : FreezeIds \cup {NoId},
                 used : {"no", "created", "touched", "released"},
                 reads : Image \cup {NoImage}, sees : Nat]

ClientTypes == client \in [Client -> ClientRecord]

Types == NumberTypes /\ RefTypes /\ FlagTypes /\ ClientTypes

\* The groups make up the type invariant.
LEMMA TypesSuffice == IInv /\ Types <=> IInv /\ TypeOK
<1>1. IInv => LastSweepIndex \in Image \cup {NoImage}
  BY DEF IInv
<1>2. ASSUME IInv, Types PROVE TypeOK
  BY <1>1, <1>2, Zenon DEF IInv, Types, NumberTypes, RefTypes, FlagTypes, ClientTypes, ClientRecord, TypeOK
<1>3. ASSUME IInv, TypeOK PROVE Types
  BY <1>3, Zenon DEF Types, NumberTypes, RefTypes, FlagTypes, ClientTypes, ClientRecord, TypeOK
<1> QED BY <1>2, <1>3

\* Every step keeps the flags Boolean.
LEMMA FlagStep == FlagTypes /\ [Next]_vars => FlagTypes'
<1> SUFFICES ASSUME FlagTypes, [Next]_vars PROVE FlagTypes'
  OBVIOUS
<1>1. ASSUME NEW c, NEW id, NEW offset, GetImageInfo(c, id, offset) PROVE FlagTypes'
  BY <1>1, Zenon DEF GetImageInfo, Touch, FlagTypes
<1>2. ASSUME NEW c, NEW id, NEW offset, Read(c, id, offset) PROVE FlagTypes'
  BY <1>2, Zenon DEF Read, Touch, frames, FlagTypes
<1>3. ASSUME NEW c, ClearPortStats(c) \/ EndRead(c) \/ Forget(c) PROVE FlagTypes'
  BY <1>3, Zenon DEF ClearPortStats, EndRead, Forget, frames, FlagTypes
<1>4. ASSUME NEW c, NEW id, NEW offset, FreezeFrameCreate(c, id, offset) PROVE FlagTypes'
  BY <1>4, Zenon DEF FreezeFrameCreate, FlagTypes
<1>5. ASSUME NEW c, NEW id, NEW offset, FreezeFrameMove(c, id, offset) PROVE FlagTypes'
  <2>1. UNCHANGED <<first, master, overtaken>> /\ Touch(client[c].ff)
    BY <1>5 DEF FreezeFrameMove
  <2>2. orphaned' \in BOOLEAN
    BY <1>5, Zenon DEF FreezeFrameMove
  <2> QED BY <2>1, <2>2, Zenon DEF Touch, FlagTypes
<1>6. ASSUME NEW c, FreezeFrameRenew(c) \/ FreezeFrameRelease(c) PROVE FlagTypes'
  BY <1>6, Zenon DEF FreezeFrameRenew, FreezeFrameRelease, Touch, FlagTypes
<1>7. ASSUME NEW i \in Image, LeaseEnds(i) PROVE FlagTypes'
  <2>1. lapsed' \in [Image -> BOOLEAN]
    BY <1>7 DEF LeaseEnds, FlagTypes
  <2> QED BY <1>7, <2>1, Zenon DEF LeaseEnds, frames, FlagTypes
<1>8. CASE SweepBegins \/ SweepFills \/ SweepIsStandby \/ SweepEnds
  BY <1>8, Zenon DEF SweepBegins, SweepFills, SweepIsStandby, SweepEnds, frames, FlagTypes
<1>9. CASE Publish \/ ReceiveBegins
  BY <1>9, Zenon DEF Publish, ReceiveBegins, frames, FlagTypes
<1>10. CASE ReceiveEnds
  <2>1. lapsed' \in [Image -> BOOLEAN]
    BY <1>10, Zenon DEF ReceiveEnds, FlagTypes
  <2> QED BY <1>10, <2>1, Zenon DEF ReceiveEnds, FlagTypes
<1>11. CASE RoleChanges \/ DbsyncMaster
  BY <1>11, Zenon DEF RoleChanges, DbsyncMaster, frames, FlagTypes
<1>12. CASE UNCHANGED vars
  BY <1>12, Zenon DEF vars, frames, FlagTypes
<1> QED
  BY <1>1, <1>2, <1>3, <1>4, <1>5, <1>6, <1>7, <1>8, <1>9, <1>10, <1>11, <1>12, Zenon
  DEF Next, Queries, Freezes, Sweeps

\* Every step keeps the types of numbers and counts.
LEMMA NumberStep == IInv /\ NumberTypes /\ [Next]_vars => NumberTypes'
<1> SUFFICES ASSUME IInv, NumberTypes, [Next]_vars PROVE NumberTypes'
  OBVIOUS
<1> USE ImagesAssumption DEF NumberTypes, ring
<1>0. count.fills + 1 \in Nat /\ [count EXCEPT !.fills = @ + 1] \in [fills : Nat, freezes : Nat, turns : Nat]
  OBVIOUS
<1>1. ASSUME NEW c, NEW id, NEW offset, GetImageInfo(c, id, offset) \/ Read(c, id, offset)
      PROVE  NumberTypes'
  BY <1>1, Zenon DEF GetImageInfo, Read
<1>2. ASSUME NEW c, ClearPortStats(c) \/ EndRead(c) \/ Forget(c) PROVE NumberTypes'
  BY <1>2, Zenon DEF ClearPortStats, EndRead, Forget
<1>3. ASSUME NEW c, NEW id, NEW offset, FreezeFrameCreate(c, id, offset) \/ FreezeFrameMove(c, id, offset)
      PROVE  NumberTypes'
  BY <1>3 DEF FreezeFrameCreate, FreezeFrameMove
<1>4. ASSUME NEW c, FreezeFrameRenew(c) \/ FreezeFrameRelease(c) PROVE NumberTypes'
  BY <1>4 DEF FreezeFrameRenew, FreezeFrameRelease
<1>5. ASSUME NEW i \in Image, LeaseEnds(i) PROVE NumberTypes'
  BY <1>5 DEF LeaseEnds
<1>6. CASE SweepBegins
  BY <1>6, Zenon DEF SweepBegins
<1>7. CASE SweepFills
  <2>1. /\ data' = [data EXCEPT ![engine.img] = count.fills + 1]
        /\ count' = [count EXCEPT !.fills = @ + 1]
        /\ UNCHANGED <<sweepNum, historyIndex, NumSweeps, rx>> /\ lock' = "none"
    BY <1>7 DEF SweepFills
  <2> QED BY <1>0, <2>1, Zenon
<1>8. CASE SweepIsStandby \/ SweepEnds
  BY <1>8, Zenon DEF SweepIsStandby, SweepEnds
<1>9. CASE Publish
  <2>1. historyIndex' \in [Image -> Image]
    BY <1>9, AheadInRing, Zenon DEF Publish, Record
  <2> QED BY <1>9, <2>1 DEF Publish
<1>10. CASE ReceiveBegins \/ DbsyncMaster
  BY <1>10 DEF ReceiveBegins, DbsyncMaster
<1>11. CASE ReceiveEnds
  <2>1. historyIndex' \in [Image -> Image]
    BY <1>11, AheadInRing, Zenon DEF ReceiveEnds, Record
  <2>2. Received \in Nat
    BY DEF Received
  <2>3. /\ data' = [data EXCEPT ![SweepIndex] = count.fills + 1]
        /\ count' = [count EXCEPT !.fills = @ + 1]
    BY <1>11 DEF ReceiveEnds
  <2>4. sweepNum' \in [Image -> Nat]
    BY <1>11, <2>2, Zenon DEF ReceiveEnds
  <2>5. NumSweeps' \in Nat /\ rx' \in Nat /\ lock' = "none"
    BY <1>11, <2>2 DEF ReceiveEnds
  <2> QED BY <1>0, <2>1, <2>3, <2>4, <2>5, Zenon
<1>12. CASE RoleChanges
  BY <1>12 DEF RoleChanges
<1>13. CASE UNCHANGED vars
  BY <1>13, Zenon DEF vars
<1> QED
  BY <1>1, <1>2, <1>3, <1>4, <1>5, <1>6, <1>7, <1>8, <1>9, <1>10, <1>11, <1>12, <1>13, Zenon
  DEF Next, Queries, Freezes, Sweeps

\* The rolling count finds a client id that the image has free.
LEMMA NextClientId ==
    ASSUME RefTypes, NEW i \in Image, FreeIds(i) # {}
    PROVE  getNextClientId(i) \in 0 .. ClientIds - 1 /\ getNextClientId(i) \notin ffRefCount[i]
<1> DEFINE n == nextClientId[i]
           K == {k \in 0 .. ClientIds - 1 : (n + k) % ClientIds \notin ffRefCount[i]}
<1>1. ClientIds \in Nat /\ ClientIds > 0 /\ n \in 0 .. ClientIds - 1
  BY ImagesAssumption DEF RefTypes
<1>2. PICK m \in 0 .. ClientIds - 1 : m \notin ffRefCount[i]
  BY DEF FreeIds
<1> HIDE DEF n
<1> DEFINE k == IF m >= n THEN m - n ELSE m - n + ClientIds
<1>3. k \in 0 .. ClientIds - 1 /\ n + k \in {m, m + ClientIds}
  BY <1>1
<1>4. m % ClientIds = m /\ (m + ClientIds) % ClientIds = m
  BY <1>1, Around
<1>5. (n + k) % ClientIds = m
  BY <1>3, <1>4, Zenon
<1>6. k \in K
  BY <1>2, <1>3, <1>5
<1>7. Min(K) \in K
  <2>1. K \subseteq Nat
    BY <1>1
  <2> HIDE DEF K
  <2> QED BY <1>6, <2>1, MinOfNats, Zenon
<1>8. getNextClientId(i) = (n + Min(K)) % ClientIds
  BY DEF getNextClientId, n
<1>9. (n + Min(K)) % ClientIds \notin ffRefCount[i] /\ Min(K) \in Nat
  BY <1>1, <1>7
<1>10. (n + Min(K)) % ClientIds \in 0 .. ClientIds - 1
  <2>1. n + Min(K) \in Nat
    BY <1>1, <1>9
  <2> HIDE DEF K
  <2> QED BY <1>1, <2>1, SMT
<1> QED BY <1>8, <1>9, <1>10

\* Every step keeps the references within their 64 bits.
LEMMA RefStep == IInv /\ RefTypes /\ [Next]_vars => RefTypes'
<1> SUFFICES ASSUME IInv, RefTypes, [Next]_vars PROVE RefTypes'
  OBVIOUS
<1> USE ImagesAssumption DEF frames
<1>0. CASE UNCHANGED <<ffRefCount, nextClientId>>
  BY <1>0 DEF RefTypes
<1>1. ASSUME NEW c, NEW id, NEW offset, GetImageInfo(c, id, offset) \/ Read(c, id, offset)
      PROVE  RefTypes'
  BY <1>0, <1>1, Zenon DEF GetImageInfo, Read
<1>2. ASSUME NEW c, ClearPortStats(c) \/ EndRead(c) \/ Forget(c) \/ FreezeFrameRenew(c)
      PROVE  RefTypes'
  BY <1>0, <1>2, Zenon DEF ClearPortStats, EndRead, Forget, FreezeFrameRenew
<1>3. ASSUME NEW i \in Image, FreeIds(i) # {}
      PROVE  /\ getNextClientId(i) \in 0 .. ClientIds - 1
             /\ (getNextClientId(i) + 1) % ClientIds \in 0 .. ClientIds - 1
  <2>1. getNextClientId(i) \in 0 .. ClientIds - 1
    BY <1>3, NextClientId, Zenon
  <2> QED BY <2>1
<1>4. ASSUME NEW c, NEW id, NEW offset, FreezeFrameCreate(c, id, offset) PROVE RefTypes'
  <2>1. PICK i \in GetIndexFromImageId(id, offset) :
          /\ FreeIds(i) # {}
          /\ ffRefCount' = [ffRefCount EXCEPT ![i] = @ \cup {getNextClientId(i)}]
          /\ nextClientId' = [nextClientId EXCEPT ![i] = (getNextClientId(i) + 1) % ClientIds]
    BY <1>4, Zenon DEF FreezeFrameCreate
  <2>2. i \in Image
    BY Found
  <2> QED BY <1>3, <2>1, <2>2 DEF RefTypes
<1>5. ASSUME NEW c, NEW id, NEW offset, FreezeFrameMove(c, id, offset) PROVE RefTypes'
  <2>1. PICK j \in FindFreezeFrame(client[c].ff), i \in GetIndexFromImageId(id, offset) :
          LET held == [ffRefCount EXCEPT ![i] = @ \cup {getNextClientId(i)}]
          IN  /\ FreeIds(i) # {}
              /\ ffRefCount' = [held EXCEPT ![j] = @ \ {client[c].ff.clientId}]
              /\ nextClientId' = [nextClientId EXCEPT ![i] = (getNextClientId(i) + 1) % ClientIds]
    BY <1>5, Zenon DEF FreezeFrameMove
  <2>2. i \in Image /\ j \in Image
    BY Found, FoundFrame, Zenon
  <2> DEFINE held == [ffRefCount EXCEPT ![i] = @ \cup {getNextClientId(i)}]
  <2>3. held \in [Image -> SUBSET (0 .. ClientIds - 1)]
    BY <1>3, <2>1, <2>2, Zenon DEF RefTypes
  <2>4. ffRefCount' = [held EXCEPT ![j] = @ \ {client[c].ff.clientId}]
    BY <2>1, Zenon
  <2>5. nextClientId' \in [Image -> 0 .. ClientIds - 1]
    BY <1>3, <2>1, <2>2 DEF RefTypes
  <2> HIDE DEF held
  <2> QED BY <2>2, <2>3, <2>4, <2>5, Zenon DEF RefTypes
<1>6. ASSUME NEW c, FreezeFrameRelease(c) PROVE RefTypes'
  <2>1. PICK i \in FindFreezeFrame(client[c].ff) :
          ffRefCount' = [ffRefCount EXCEPT ![i] = @ \ {client[c].ff.clientId}]
    BY <1>6, Zenon DEF FreezeFrameRelease
  <2>2. UNCHANGED nextClientId
    BY <1>6 DEF FreezeFrameRelease
  <2> QED BY <2>1, <2>2, Zenon DEF RefTypes
<1>7. ASSUME NEW i \in Image, LeaseEnds(i) PROVE RefTypes'
  BY <1>0, <1>7 DEF LeaseEnds
<1>8. CASE SweepBegins \/ SweepFills \/ SweepIsStandby \/ SweepEnds
  BY <1>0, <1>8 DEF SweepBegins, SweepFills, SweepIsStandby, SweepEnds
<1>9. CASE Publish
  BY <1>9, Zenon DEF Publish, TakeNext, RefTypes
<1>10. CASE ReceiveEnds
  <2>1. nextClientId' \in [Image -> 0 .. ClientIds - 1]
    <3>1. nextClientId' = [nextClientId EXCEPT ![SweepIndex] = 0] /\ 0 \in 0 .. ClientIds - 1
      BY <1>10 DEF ReceiveEnds
    <3> QED BY <3>1, Zenon DEF RefTypes
  <2>2. ffRefCount' \in [Image -> SUBSET (0 .. ClientIds - 1)]
    BY <1>10, Zenon DEF ReceiveEnds, TakeNext, RefTypes
  <2> QED BY <2>1, <2>2 DEF RefTypes
<1>11. CASE ReceiveBegins \/ RoleChanges \/ DbsyncMaster \/ UNCHANGED vars
  BY <1>0, <1>11 DEF ReceiveBegins, RoleChanges, DbsyncMaster, vars
<1> QED
  BY <1>1, <1>2, <1>4, <1>5, <1>6, <1>7, <1>8, <1>9, <1>10, <1>11, Zenon
  DEF Next, Queries, Freezes, Sweeps

-----------------------------------------------------------------------------
(* What a client does to what it holds.                                    *)

\* The ids a client can name are those of live data, of an image of the history and
\* of the image it has frozen.
LEMMA IdsAre ==
    ASSUME ClientTypes, NEW c \in Client, NEW id \in IdsOf(c)
    PROVE  \/ id.type = "live"
           \/ id.type = "history" /\ id = client[c].at /\ id \in HistoryIds
           \/ id.type = "freeze" /\ id = client[c].ff /\ id \in FreezeIds /\ Holds(c)
<1>1. client[c].at \in HistoryIds \cup {NoId} /\ client[c].ff \in FreezeIds \cup {NoId}
  BY DEF ClientTypes, ClientRecord
<1>2. \/ id = Live
      \/ id = client[c].at /\ id \in HistoryIds
      \/ id = client[c].ff /\ id \in FreezeIds /\ Holds(c)
  BY <1>1, Zenon DEF IdsOf
<1>3. Live.type = "live" /\ (\A h \in HistoryIds : h.type = "history")
      /\ (\A f \in FreezeIds : f.type = "freeze")
  BY DEF Live, HistoryIds, FreezeIds
<1> QED BY <1>2, <1>3, Zenon

\* An id that was made of a valid image: it has its number and stands for its fill.
Copied(id) ==
    \E i \in Image : state[i] = "valid" /\ id.sweepNum = sweepNum[i] /\ id.of = data[i]

\* A step around the ring of the history, back or ahead, stays in it.
LEMMA AroundTheRing ==
    ASSUME NEW h \in Image, NEW offset \in -(TotalImages - 1) .. 1
    PROVE  Ahead(h, offset) \in Image /\ Ahead(h, 0) = h
<1>1. TotalImages \in Nat /\ TotalImages > 0 /\ h \in 0 .. TotalImages - 1
  BY ImagesAssumption DEF Image
<1>2. h + TotalImages + offset \in Nat
  BY <1>1
<1>3. (h + TotalImages + offset) % TotalImages \in 0 .. TotalImages - 1
  BY <1>1, <1>2, SMT
<1>4. (h + TotalImages) % TotalImages = h
  BY <1>1, Around
<1>5. h + TotalImages + 0 = h + TotalImages
  BY <1>1
<1> QED BY <1>3, <1>4, <1>5 DEF Ahead, Image

\* A history id made of a valid image of the ring.
LEMMA HistoryIdIs ==
    ASSUME NumberTypes, NEW h \in Image, history[h] \in Image, state[history[h]] = "valid"
    PROVE  HistoryId(h) \in HistoryIds /\ Copied(HistoryId(h))
BY Zenon DEF NumberTypes, HistoryId, HistoryIds, Copied

\* The history id that a query returns is that of a valid image.
LEMMA ReturnedIs ==
    ASSUME IInv, Types, NEW c \in Client, NEW id \in IdsOf(c), NEW offset \in Offset(id),
           GetIndexFromImageId(id, offset) # {}, Returned(id, offset).type = "history"
    PROVE  Returned(id, offset) \in HistoryIds /\ Copied(Returned(id, offset))
<1>1. NumberTypes /\ offset \in -(TotalImages - 1) .. 1 /\ EngineReady
  BY Zenon DEF Types, Offset, GetIndexFromImageId
<1>2. ASSUME NEW h \in Image, NEW b, ComputeHistory(h, offset, b) # {}
      PROVE  HistoryId(Ahead(h, offset)) \in HistoryIds /\ Copied(HistoryId(Ahead(h, offset)))
  BY <1>1, <1>2, AroundTheRing, HistoryIdIs, Zenon DEF ComputeHistory
<1>3. CASE id.type = "live"
  <2>1. Returned(id, offset) = HistoryId(Ahead(lastHistoryIndex, offset))
    BY <1>3, Zenon DEF Returned
  <2>2. CASE offset = 0
    <3>1. lastHistoryIndex \in Image /\ history[lastHistoryIndex] \in Image
          /\ state[history[lastHistoryIndex]] = "valid"
      BY <1>1, Zenon DEF EngineReady, IInv
    <3> QED BY <1>1, <2>1, <2>2, <3>1, AroundTheRing, HistoryIdIs, Zenon
  <2>3. CASE offset # 0
    <3>1. ComputeHistory(lastHistoryIndex, offset, sweepNum[history[lastHistoryIndex]]) # {}
      BY <1>3, <2>3, Zenon DEF GetIndexFromImageId
    <3> QED BY <1>2, <2>1, <3>1, Zenon DEF IInv
  <2> QED BY <2>2, <2>3, Zenon
<1>4. CASE id.type = "history" /\ id \in HistoryIds
  <2>1. Returned(id, offset) = HistoryId(Ahead(id.index, offset))
    BY <1>4, Zenon DEF Returned
  <2>2. ComputeHistory(id.index, offset, id.sweepNum) # {} /\ id.index \in Image
    BY <1>4, Zenon DEF GetIndexFromImageId, HistoryIds
  <2> QED BY <1>2, <2>1, <2>2, Zenon
<1>5. CASE id.type = "freeze"
  <2>1. CASE offset = 0
    BY <1>5, <2>1, Zenon DEF Returned
  <2>2. CASE offset # 0
    <3>1. PICK f \in Frame(id) : ComputeHistory(historyIndex[f], offset, id.sweepNum) # {}
      BY <1>5, <2>2, Zenon DEF GetIndexFromImageId
    <3>2. f \in Image /\ f = freezeFrames[id.index]
      BY Zenon DEF Frame, InSlot
    <3>3. Returned(id, offset) = HistoryId(Ahead(historyIndex[f], offset))
      BY <1>5, <2>2, <3>2, Zenon DEF Returned
    <3>4. historyIndex[f] \in Image
      BY <1>1, <3>2 DEF NumberTypes
    <3> QED BY <1>2, <3>1, <3>3, <3>4, Zenon
  <2> QED BY <2>1, <2>2
<1> QED BY <1>3, <1>4, <1>5, IdsAre, Zenon DEF Types

\* A slot, or the number of slots when there is none.
LEMMA AllocRange ==
    ASSUME NEW i
    PROVE  allocFreezeFrame(i) \in Slot \/ allocFreezeFrame(i) = FreezeFrames
<1> DEFINE own == {f \in Slot : ffRefCount[i] # {} /\ freezeFrames[f] = i}
           free == {f \in Slot : freezeFrames[f] = NoImage \/ ffRefCount[freezeFrames[f]] = {}}
<1>1. own \subseteq Nat /\ free \subseteq Nat /\ own \subseteq Slot /\ free \subseteq Slot
  BY ImagesAssumption DEF Slot
<1>2. allocFreezeFrame(i) = IF own # {} THEN Min(own) ELSE IF free # {} THEN Min(free) ELSE FreezeFrames
  BY DEF allocFreezeFrame
<1> HIDE DEF own, free
<1>3. (own # {} => Min(own) \in own) /\ (free # {} => Min(free) \in free)
  BY <1>1, MinOfNats, Zenon
<1> QED BY <1>1, <1>2, <1>3, Zenon

\* What paFreezeFrameCreate does.
LEMMA CreateDoes ==
    ASSUME IInv, Types, NEW c \in Client, NEW id, NEW offset, FreezeFrameCreate(c, id, offset)
    PROVE  \E i \in Image, f \in Slot, k \in 0 .. ClientIds - 1 :
             /\ state[i] = "valid" /\ f = allocFreezeFrame(i)
             /\ k = getNextClientId(i) /\ k \notin ffRefCount[i]
             /\ ffRefCount' = [ffRefCount EXCEPT ![i] = @ \cup {k}]
             /\ nextClientId' = [nextClientId EXCEPT ![i] = (k + 1) % ClientIds]
             /\ freezeFrames' = [freezeFrames EXCEPT ![f] = i]
             /\ FreezeId(f, k, i) \in FreezeIds
             /\ client' = [client EXCEPT ![c].ff = FreezeId(f, k, i), ![c].used = "created"]
<1>1. PICK i \in GetIndexFromImageId(id, offset) :
        /\ allocFreezeFrame(i) < FreezeFrames
        /\ FreeIds(i) # {}
        /\ ffRefCount' = [ffRefCount EXCEPT ![i] = @ \cup {getNextClientId(i)}]
        /\ nextClientId' = [nextClientId EXCEPT ![i] = (getNextClientId(i) + 1) % ClientIds]
        /\ freezeFrames' = [freezeFrames EXCEPT ![allocFreezeFrame(i)] = i]
        /\ client' = [client EXCEPT
               ![c].ff = FreezeId(allocFreezeFrame(i), getNextClientId(i), i), ![c].used = "created"]
  BY Zenon DEF FreezeFrameCreate
<1>2. i \in Image /\ state[i] = "valid"
  BY Found
<1>3. allocFreezeFrame(i) \in Slot /\ allocFreezeFrame(i) \in 0 .. FreezeFrames
  BY <1>1, AllocRange, ImagesAssumption DEF Slot
<1>4. getNextClientId(i) \in 0 .. ClientIds - 1 /\ getNextClientId(i) \notin ffRefCount[i]
  BY <1>1, <1>2, NextClientId, Zenon DEF Types
<1>5. FreezeId(allocFreezeFrame(i), getNextClientId(i), i) \in FreezeIds
  BY <1>2, <1>3, <1>4 DEF FreezeId, FreezeIds, Types, NumberTypes
<1> QED BY <1>1, <1>2, <1>3, <1>4, <1>5, Zenon

\* What paFreezeFrameMove does.
LEMMA MoveDoes ==
    ASSUME IInv, Types, NEW c \in Client, NEW to, NEW offset, FreezeFrameMove(c, to, offset)
    PROVE  /\ client[c].ff \in FreezeIds
           /\ \E i \in Image, j \in Image, f \in 0 .. FreezeFrames, k \in 0 .. ClientIds - 1 :
                LET id == client[c].ff
                    held == [ffRefCount EXCEPT ![i] = @ \cup {k}]
                IN  /\ state[i] = "valid" /\ j \in Frame(id) /\ EngineReady
                    /\ f = MoveSlot(id, i) /\ k = getNextClientId(i) /\ k \notin ffRefCount[i]
                    /\ ffRefCount' = [held EXCEPT ![j] = @ \ {id.clientId}]
                    /\ nextClientId' = [nextClientId EXCEPT ![i] = (k + 1) % ClientIds]
                    /\ freezeFrames' = [s \in Slot |-> IF s = f THEN i ELSE freezeFrames[s]]
                    /\ FreezeId(f, k, i) \in FreezeIds
                    /\ client' = [client EXCEPT ![c].ff = FreezeId(f, k, i),
                                                ![c].used = IF i = j THEN "touched" ELSE "created"]
                    /\ orphaned' = (orphaned \/ f \notin Slot
                                      \/ (f = id.index /\ i # j /\ ffRefCount[j] # {id.clientId}))
<1> DEFINE id == client[c].ff
<1>1. id \in FreezeIds
  BY DEF FreezeFrameMove, Holds, Types, ClientTypes, ClientRecord
<1>2. PICK j \in FindFreezeFrame(id), i \in GetIndexFromImageId(to, offset) :
        /\ FreeIds(i) # {}
        /\ LET k == getNextClientId(i)
               f == MoveSlot(id, i)
               held == [ffRefCount EXCEPT ![i] = @ \cup {k}]
           IN  /\ ffRefCount' = [held EXCEPT ![j] = @ \ {id.clientId}]
               /\ nextClientId' = [nextClientId EXCEPT ![i] = (k + 1) % ClientIds]
               /\ freezeFrames' = [s \in Slot |-> IF s = f THEN i ELSE freezeFrames[s]]
               /\ client' = [client EXCEPT
                      ![c].ff = FreezeId(f, k, i),
                      ![c].used = IF i = j THEN "touched" ELSE "created"]
               /\ orphaned' = (orphaned \/ f \notin Slot
                                        \/ (f = id.index /\ i # j /\ ffRefCount[j] # {id.clientId}))
  BY Zenon DEF FreezeFrameMove
<1>3. i \in Image /\ state[i] = "valid"
  BY Found, Zenon
<1>4. j \in Image /\ j \in Frame(id) /\ EngineReady
  <2>1. id.type = "freeze"
    BY <1>1, Zenon DEF FreezeIds
  <2> QED BY <2>1, Zenon DEF FindFreezeFrame, GetIndexFromImageId, Frame, InSlot
<1>5. getNextClientId(i) \in 0 .. ClientIds - 1 /\ getNextClientId(i) \notin ffRefCount[i]
  BY <1>2, <1>3, NextClientId, Zenon DEF Types
<1>6. MoveSlot(id, i) \in 0 .. FreezeFrames
  BY <1>1, AllocRange, ImagesAssumption DEF MoveSlot, Slot, FreezeIds
<1>7. FreezeId(MoveSlot(id, i), getNextClientId(i), i) \in FreezeIds
  BY <1>3, <1>5, <1>6, Zenon DEF FreezeId, FreezeIds, Types, NumberTypes
<1> QED BY <1>1, <1>2, <1>3, <1>4, <1>5, <1>6, <1>7, Zenon

-----------------------------------------------------------------------------
(* Updates of a client's record.                                           *)

Uses == {"no", "created", "touched", "released"}

\* One record is replaced.
LEMMA PutClient ==
    ASSUME ClientTypes, NEW c \in Client, NEW r \in ClientRecord,
           client' = [client EXCEPT ![c] = r]
    PROVE  /\ ClientTypes' /\ client'[c] = r
           /\ \A d \in Client : d # c => client'[d] = client[d]
<1> DEFINE R == ClientRecord
<1> HIDE DEF R
<1>1. client \in [Client -> R] /\ r \in R
  BY DEF ClientTypes, R
<1>2. client' \in [Client -> R] /\ client'[c] = r /\ \A d \in Client : d # c => client'[d] = client[d]
  BY <1>1
<1> QED BY <1>2 DEF ClientTypes, R

\* A client gets or loses a frozen image.
LEMMA SetFrame ==
    ASSUME ClientTypes, NEW c \in Client, NEW a, a \in FreezeIds \/ a = NoId, NEW u \in Uses,
           client' = [client EXCEPT ![c].ff = a, ![c].used = u]
    PROVE  /\ ClientTypes'
           /\ client'[c].ff = a /\ client'[c].used = u /\ client'[c].at = client[c].at
           /\ client'[c].reads = client[c].reads /\ client'[c].sees = client[c].sees
           /\ \A d \in Client : d # c => client'[d] = client[d]
<1> DEFINE r == [client[c] EXCEPT !.ff = a, !.used = u]
<1>1. client[c] \in ClientRecord
  BY DEF ClientTypes
<1>2. /\ r \in ClientRecord /\ r.ff = a /\ r.used = u /\ r.at = client[c].at
      /\ r.reads = client[c].reads /\ r.sees = client[c].sees
  BY <1>1, Zenon DEF ClientRecord, Uses
<1>3. client' = [client EXCEPT ![c] = r]
  BY Zenon DEF ClientTypes
<1> HIDE DEF r
<1>4. ClientTypes' /\ client'[c] = r /\ \A d \in Client : d # c => client'[d] = client[d]
  BY <1>2, <1>3, PutClient, Zenon
<1> QED BY <1>2, <1>4, Zenon

\* A client gets the id of an image of the history.
LEMMA SetAt ==
    ASSUME ClientTypes, NEW c \in Client, NEW a \in HistoryIds \cup {NoId}, NEW u \in Uses,
           client' = [client EXCEPT ![c].at = a, ![c].used = u]
    PROVE  /\ ClientTypes'
           /\ client'[c].at = a /\ client'[c].used = u /\ client'[c].ff = client[c].ff
           /\ client'[c].reads = client[c].reads /\ client'[c].sees = client[c].sees
           /\ \A d \in Client : d # c => client'[d] = client[d]
<1> DEFINE r == [client[c] EXCEPT !.at = a, !.used = u]
<1>1. client[c] \in ClientRecord
  BY DEF ClientTypes
<1>2. /\ r \in ClientRecord /\ r.at = a /\ r.used = u /\ r.ff = client[c].ff
      /\ r.reads = client[c].reads /\ r.sees = client[c].sees
  BY <1>1, Zenon DEF ClientRecord, Uses
<1>3. client' = [client EXCEPT ![c] = r]
  BY Zenon DEF ClientTypes
<1> HIDE DEF r
<1>4. ClientTypes' /\ client'[c] = r /\ \A d \in Client : d # c => client'[d] = client[d]
  BY <1>2, <1>3, PutClient, Zenon
<1> QED BY <1>2, <1>4, Zenon

\* A client uses, releases or loses the lease of its frozen image.
LEMMA SetUsed ==
    ASSUME ClientTypes, NEW c \in Client, NEW u \in Uses,
           client' = [client EXCEPT ![c].used = u]
    PROVE  /\ ClientTypes'
           /\ client'[c].used = u /\ client'[c].at = client[c].at /\ client'[c].ff = client[c].ff
           /\ client'[c].reads = client[c].reads /\ client'[c].sees = client[c].sees
           /\ \A d \in Client : d # c => client'[d] = client[d]
<1> DEFINE r == [client[c] EXCEPT !.used = u]
<1>1. client[c] \in ClientRecord
  BY DEF ClientTypes
<1>2. /\ r \in ClientRecord /\ r.at = client[c].at /\ r.used = u /\ r.ff = client[c].ff
      /\ r.reads = client[c].reads /\ r.sees = client[c].sees
  BY <1>1 DEF ClientRecord, Uses
<1>3. client' = [client EXCEPT ![c] = r]
  BY Zenon DEF ClientTypes
<1> HIDE DEF r
<1>4. ClientTypes' /\ client'[c] = r /\ \A d \in Client : d # c => client'[d] = client[d]
  BY <1>2, <1>3, PutClient, Zenon
<1> QED BY <1>2, <1>4, Zenon

\* A client takes the lock of an image to read it.
LEMMA SetReads ==
    ASSUME ClientTypes, NEW c \in Client, NEW i \in Image, NEW v \in Nat, NEW u \in Uses,
           client' = [client EXCEPT ![c].reads = i, ![c].sees = v, ![c].used = u]
    PROVE  /\ ClientTypes'
           /\ client'[c].used = u /\ client'[c].at = client[c].at /\ client'[c].ff = client[c].ff
           /\ client'[c].reads = i /\ client'[c].sees = v
           /\ \A d \in Client : d # c => client'[d] = client[d]
<1> DEFINE r == [client[c] EXCEPT !.reads = i, !.sees = v, !.used = u]
<1>1. client[c] \in ClientRecord
  BY DEF ClientTypes
<1>2. /\ r \in ClientRecord /\ r.at = client[c].at /\ r.used = u /\ r.ff = client[c].ff
      /\ r.reads = i /\ r.sees = v
  BY <1>1, Zenon DEF ClientRecord, Uses
<1>3. client' = [client EXCEPT ![c] = r]
  BY Zenon DEF ClientTypes
<1> HIDE DEF r
<1>4. ClientTypes' /\ client'[c] = r /\ \A d \in Client : d # c => client'[d] = client[d]
  BY <1>2, <1>3, PutClient, Zenon
<1> QED BY <1>2, <1>4, Zenon

\* The same for the last image, and for the end of a query.
LEMMA SetLast ==
    ASSUME ClientTypes, NEW c \in Client, NEW i, i \in Image \/ i = NoImage, NEW v \in Nat,
           client' = [client EXCEPT ![c].reads = i, ![c].sees = v]
    PROVE  /\ ClientTypes'
           /\ client'[c].used = client[c].used /\ client'[c].at = client[c].at
           /\ client'[c].ff = client[c].ff /\ client'[c].reads = i /\ client'[c].sees = v
           /\ \A d \in Client : d # c => client'[d] = client[d]
<1> DEFINE r == [client[c] EXCEPT !.reads = i, !.sees = v]
<1>1. client[c] \in ClientRecord
  BY DEF ClientTypes
<1>2. /\ r \in ClientRecord /\ r.at = client[c].at /\ r.used = client[c].used
      /\ r.ff = client[c].ff /\ r.reads = i /\ r.sees = v
  BY <1>1, Zenon DEF ClientRecord
<1>3. client' = [client EXCEPT ![c] = r]
  BY Zenon DEF ClientTypes
<1> HIDE DEF r
<1>4. ClientTypes' /\ client'[c] = r /\ \A d \in Client : d # c => client'[d] = client[d]
  BY <1>2, <1>3, PutClient, Zenon
<1> QED BY <1>2, <1>4, Zenon

\* What the PM does for its clients, and what happens to what they hold.
ClientMoves ==
    \/ \E c \in Reader : Queries(c) \/ EndRead(c)
    \/ \E c \in Client : Freezes(c) \/ Forget(c)
    \/ \E i \in Image : LeaseEnds(i)

\* The engine, the receiver, and the SM's role.
EngineMoves == Sweeps \/ ReceiveBegins \/ ReceiveEnds \/ RoleChanges \/ DbsyncMaster

\* The ids of a client are the ones it had, or made of a valid image.
IdsFrom(c) ==
    /\ client'[c].at = client[c].at \/ Copied(client'[c].at)
    /\ client'[c].ff \in {client[c].ff, NoId} \/ Copied(client'[c].ff)

\* What no client can change.
Untouched ==
    /\ UNCHANGED <<ring, lock, first, rx, master, data, overtaken>>
    /\ engine'.pc = engine.pc /\ engine'.img = engine.img
    /\ count'.turns = count.turns

\* Whether a client has used its frozen image is one of the four.
LEMMA UseType ==
    ASSUME ClientTypes, NEW c \in Client, NEW id
    PROVE  Use(c, id) \in Uses
BY DEF Use, ClientTypes, ClientRecord, Uses

\* paGetImageInfo gives the client the id of a valid image, or none.
LEMMA GetImageInfoDoes ==
    ASSUME IInv, Types, NEW c \in Client, NEW id \in IdsOf(c), NEW offset \in Offset(id),
           GetImageInfo(c, id, offset)
    PROVE  /\ ClientTypes' /\ \A d \in Client : IdsFrom(d)
           /\ client'[c].used = Use(c, id) /\ client'[c].ff = client[c].ff
           /\ client'[c].reads = client[c].reads /\ client'[c].sees = client[c].sees
           /\ \A d \in Client : d # c => client'[d] = client[d]
<1> DEFINE a == IF GetIndexFromImageId(id, offset) # {} /\ Returned(id, offset).type = "history"
                THEN Returned(id, offset) ELSE client[c].at
<1>1. client' = [client EXCEPT ![c].at = a, ![c].used = Use(c, id)]
  BY Zenon DEF GetImageInfo
<1>2. ClientTypes /\ client[c].at \in HistoryIds \cup {NoId} /\ Use(c, id) \in Uses
  BY UseType, Zenon DEF Types, ClientTypes, ClientRecord
<1>3. a \in HistoryIds \cup {NoId} /\ (a = client[c].at \/ Copied(a))
  BY <1>2, ReturnedIs
<1> HIDE DEF a
<1>4. /\ ClientTypes'
      /\ client'[c].at = a /\ client'[c].used = Use(c, id) /\ client'[c].ff = client[c].ff
      /\ client'[c].reads = client[c].reads /\ client'[c].sees = client[c].sees
      /\ \A d \in Client : d # c => client'[d] = client[d]
  BY <1>1, <1>2, <1>3, SetAt, Zenon
<1> QED BY <1>3, <1>4, Zenon DEF IdsFrom

\* A query locks an image.
LEMMA ReadDoes ==
    ASSUME IInv, Types, NEW c \in Client, NEW id \in IdsOf(c), NEW offset \in Offset(id),
           Read(c, id, offset)
    PROVE  /\ ClientTypes' /\ \A d \in Client : IdsFrom(d)
           /\ client'[c].used = Use(c, id) /\ client'[c].ff = client[c].ff
           /\ \A d \in Client : d # c => client'[d] = client[d]
           /\ \E i \in GetIndexFromImageId(id, offset) :
                /\ client'[c].reads = i
                /\ client'[c].sees = IF offset = 0 THEN Wanted(id, i) ELSE data[i]
<1>1. PICK i \in GetIndexFromImageId(id, offset) :
        client' = [client EXCEPT
           ![c].reads = i,
           ![c].sees = IF offset = 0 THEN Wanted(id, i) ELSE data[i],
           ![c].used = Use(c, id)]
  BY Zenon DEF Read
<1>2. ClientTypes /\ Use(c, id) \in Uses
  BY UseType, Zenon DEF Types
<1>3. i \in Image
  BY Found
<1> DEFINE v == IF offset = 0 THEN Wanted(id, i) ELSE data[i]
<1>4. data[i] \in Nat
  BY <1>3, Zenon DEF Types, NumberTypes
<1>5. id.type # "live" => id.of \in Nat
  BY <1>2, IdsAre DEF HistoryIds, FreezeIds
<1>6. v \in Nat
  BY <1>4, <1>5, Zenon DEF Wanted
<1>7. client' = [client EXCEPT ![c].reads = i, ![c].sees = v, ![c].used = Use(c, id)]
  BY <1>1
<1> HIDE DEF v
<1>8. /\ ClientTypes'
      /\ client'[c].used = Use(c, id) /\ client'[c].at = client[c].at /\ client'[c].ff = client[c].ff
      /\ client'[c].reads = i /\ client'[c].sees = v
      /\ \A d \in Client : d # c => client'[d] = client[d]
  BY <1>2, <1>3, <1>6, <1>7, SetReads, Zenon
<1> QED BY <1>8, Zenon DEF IdsFrom, v

\* paClearPortStats locks the last image, and a query that ends locks none.
LEMMA LastDoes ==
    ASSUME IInv, Types, NEW c \in Client, ClearPortStats(c) \/ EndRead(c)
    PROVE  /\ ClientTypes' /\ \A d \in Client : IdsFrom(d)
           /\ client'[c].used = client[c].used /\ client'[c].ff = client[c].ff
           /\ \A d \in Client : d # c => client'[d] = client[d]
           /\ client'[c].reads # NoImage => client'[c].sees = data[client'[c].reads]
<1>1. ClientTypes
  BY DEF Types
<1>2. CASE ClearPortStats(c)
  <2>1. ASSUME NEW l \in Image, NEW v \in Nat, client' = [client EXCEPT ![c].reads = l, ![c].sees = v]
        PROVE  /\ ClientTypes'
               /\ client'[c].used = client[c].used /\ client'[c].at = client[c].at
               /\ client'[c].ff = client[c].ff /\ client'[c].reads = l /\ client'[c].sees = v
               /\ \A d \in Client : d # c => client'[d] = client[d]
    BY <1>1, <2>1, SetLast, Zenon
  <2>2. LastSweepIndex \in Image /\ data[LastSweepIndex] \in Nat
    BY <1>2 DEF ClearPortStats, IInv, Types, NumberTypes
  <2>3. client' = [client EXCEPT ![c].reads = LastSweepIndex, ![c].sees = data[LastSweepIndex]]
    BY <1>2 DEF ClearPortStats
  <2>4. /\ ClientTypes'
        /\ client'[c].used = client[c].used /\ client'[c].at = client[c].at
        /\ client'[c].ff = client[c].ff
        /\ client'[c].reads = LastSweepIndex /\ client'[c].sees = data[LastSweepIndex]
        /\ \A d \in Client : d # c => client'[d] = client[d]
    BY <2>1, <2>2, <2>3, Zenon
  <2> QED BY <2>4, Zenon DEF IdsFrom
<1>3. CASE EndRead(c)
  <2>1. /\ client' = [client EXCEPT ![c].reads = NoImage, ![c].sees = 0]
        /\ 0 \in Nat
    BY <1>3 DEF EndRead
  <2>2. /\ ClientTypes'
        /\ client'[c].used = client[c].used /\ client'[c].at = client[c].at
        /\ client'[c].ff = client[c].ff /\ client'[c].reads = NoImage
        /\ \A d \in Client : d # c => client'[d] = client[d]
    BY <1>1, <2>1, SetLast, Zenon
  <2> QED BY <2>2, Zenon DEF IdsFrom
<1> QED BY <1>2, <1>3

\* What happens to a frozen image's record when its lease ends.
LEMMA LeaseDoes ==
    ASSUME ClientTypes, NEW i \in Image, LeaseEnds(i)
    PROVE  /\ ClientTypes'
           /\ \A d \in Client :
                /\ client'[d].at = client[d].at /\ client'[d].ff = client[d].ff
                /\ client'[d].reads = client[d].reads /\ client'[d].sees = client[d].sees
                /\ client'[d].used = IF Holds(d) /\ client[d].ff.of = data[i] THEN "no" ELSE client[d].used
<1> DEFINE L(d) == Holds(d) /\ client[d].ff.of = data[i]
           r(d) == IF L(d) THEN [client[d] EXCEPT !.used = "no"] ELSE client[d]
           R == ClientRecord
<1>1. client' = [d \in Client |-> r(d)]
  BY Zenon DEF LeaseEnds
<1> HIDE DEF L
<1>2. ASSUME NEW d \in Client
      PROVE  /\ r(d) \in R /\ r(d).at = client[d].at /\ r(d).ff = client[d].ff
             /\ r(d).reads = client[d].reads /\ r(d).sees = client[d].sees
             /\ r(d).used = IF L(d) THEN "no" ELSE client[d].used
  BY Zenon DEF ClientTypes, ClientRecord
<1> HIDE DEF r, R
<1>3. client' \in [Client -> R] /\ \A d \in Client : client'[d] = r(d)
  BY <1>1, <1>2
<1>4. ClientTypes'
  BY <1>3, Zenon DEF ClientTypes, R
<1> QED BY <1>2, <1>3, <1>4, Zenon DEF L

\* The client that freezes or moves gets an id of a valid image.
LEMMA FreezesDo ==
    ASSUME IInv, Types, NEW c \in Client, NEW id, NEW offset,
           FreezeFrameCreate(c, id, offset) \/ FreezeFrameMove(c, id, offset)
    PROVE  /\ ClientTypes' /\ \A d \in Client : IdsFrom(d)
           /\ \A d \in Client : client'[d].reads = client[d].reads /\ client'[d].sees = client[d].sees
<1>1. ClientTypes
  BY DEF Types
<1>2. ASSUME NEW f, NEW k, NEW i \in Image, NEW u \in Uses, FreezeId(f, k, i) \in FreezeIds,
             state[i] = "valid",
             client' = [client EXCEPT ![c].ff = FreezeId(f, k, i), ![c].used = u]
      PROVE  /\ ClientTypes' /\ \A d \in Client : IdsFrom(d)
             /\ \A d \in Client : client'[d].reads = client[d].reads /\ client'[d].sees = client[d].sees
  <2> DEFINE g == FreezeId(f, k, i)
  <2>1. Copied(g)
    BY <1>2 DEF Copied, FreezeId
  <2>2. g \in FreezeIds /\ client' = [client EXCEPT ![c].ff = g, ![c].used = u]
    BY <1>2
  <2> HIDE DEF g
  <2>3. /\ ClientTypes' /\ client'[c].ff = g /\ client'[c].at = client[c].at
        /\ client'[c].reads = client[c].reads /\ client'[c].sees = client[c].sees
        /\ \A d \in Client : d # c => client'[d] = client[d]
    BY <1>1, <2>2, SetFrame, Zenon
  <2> QED BY <2>1, <2>3, Zenon DEF IdsFrom
<1>3. "created" \in Uses /\ "touched" \in Uses
  BY DEF Uses
<1>4. CASE FreezeFrameCreate(c, id, offset)
  <2>1. PICK i \in Image, f \in Slot, k \in 0 .. ClientIds - 1 :
          /\ state[i] = "valid" /\ FreezeId(f, k, i) \in FreezeIds
          /\ client' = [client EXCEPT ![c].ff = FreezeId(f, k, i), ![c].used = "created"]
    BY <1>4, CreateDoes, SMT
  <2> QED BY <1>2, <1>3, <2>1, Zenon
<1>5. CASE FreezeFrameMove(c, id, offset)
  <2>1. PICK i \in Image, j \in Image, f \in 0 .. FreezeFrames, k \in 0 .. ClientIds - 1 :
          /\ state[i] = "valid" /\ FreezeId(f, k, i) \in FreezeIds
          /\ client' = [client EXCEPT ![c].ff = FreezeId(f, k, i),
                                      ![c].used = IF i = j THEN "touched" ELSE "created"]
    BY <1>5, MoveDoes, SMT
  <2>2. (IF i = j THEN "touched" ELSE "created") \in Uses
    BY <1>3
  <2> QED BY <1>2, <2>1, <2>2, Zenon
<1> QED BY <1>4, <1>5

\* Only the client's use of its frozen image changes.
LEMMA UsedDoes ==
    ASSUME Types, NEW c \in Client, NEW u \in Uses, client' = [client EXCEPT ![c].used = u]
    PROVE  /\ ClientTypes' /\ \A d \in Client : IdsFrom(d)
           /\ client'[c].ff = client[c].ff /\ client'[c].used = u
           /\ client'[c].reads = client[c].reads /\ client'[c].sees = client[c].sees
           /\ \A d \in Client : d # c => client'[d] = client[d]
<1>1. ClientTypes
  BY DEF Types
<1>2. /\ ClientTypes'
      /\ client'[c].used = u /\ client'[c].at = client[c].at /\ client'[c].ff = client[c].ff
      /\ client'[c].reads = client[c].reads /\ client'[c].sees = client[c].sees
      /\ \A d \in Client : d # c => client'[d] = client[d]
  BY <1>1, SetUsed, Zenon
<1> QED BY <1>2, Zenon DEF IdsFrom

\* paFreezeFrameRenew
LEMMA RenewDoes ==
    ASSUME Types, NEW c \in Client, FreezeFrameRenew(c)
    PROVE  /\ ClientTypes' /\ \A d \in Client : IdsFrom(d)
           /\ client'[c].ff = client[c].ff /\ client'[c].used = Use(c, client[c].ff)
           /\ client'[c].reads = client[c].reads /\ client'[c].sees = client[c].sees
           /\ \A d \in Client : d # c => client'[d] = client[d]
<1>1. PICK u \in Uses : u = Use(c, client[c].ff) /\ client' = [client EXCEPT ![c].used = u]
  <2>1. Use(c, client[c].ff) \in Uses
    BY UseType DEF Types
  <2> QED BY <2>1, Zenon DEF FreezeFrameRenew
<1> QED BY <1>1, UsedDoes, Zenon

\* paFreezeFrameRelease
LEMMA ReleaseDoes ==
    ASSUME Types, NEW c \in Client, FreezeFrameRelease(c)
    PROVE  /\ ClientTypes' /\ \A d \in Client : IdsFrom(d)
           /\ client'[c].ff = client[c].ff /\ client'[c].used = "released"
           /\ client'[c].reads = client[c].reads /\ client'[c].sees = client[c].sees
           /\ \A d \in Client : d # c => client'[d] = client[d]
<1>1. "released" \in Uses /\ client' = [client EXCEPT ![c].used = "released"]
  BY DEF FreezeFrameRelease, Uses
<1> QED BY <1>1, UsedDoes, Zenon

\* The client forgets its frozen image.
LEMMA ForgetDoes ==
    ASSUME Types, NEW c \in Client, Forget(c)
    PROVE  /\ ClientTypes' /\ \A d \in Client : IdsFrom(d)
           /\ client'[c].ff = NoId /\ client'[c].used = "no"
           /\ client'[c].reads = client[c].reads /\ client'[c].sees = client[c].sees
           /\ \A d \in Client : d # c => client'[d] = client[d]
<1>1. "no" \in Uses /\ ClientTypes
  BY DEF Uses, Types
<1>2. client' = [client EXCEPT ![c].ff = NoId, ![c].used = "no"]
  BY DEF Forget
<1>3. /\ ClientTypes'
      /\ client'[c].ff = NoId /\ client'[c].used = "no" /\ client'[c].at = client[c].at
      /\ client'[c].reads = client[c].reads /\ client'[c].sees = client[c].sees
      /\ \A d \in Client : d # c => client'[d] = client[d]
  BY <1>1, <1>2, SetFrame, Zenon
<1> QED BY <1>3, Zenon DEF IdsFrom

\* Every step is one for a client or one of the engine's side.
LEMMA TwoSides == Next <=> ClientMoves \/ EngineMoves
BY Zenon DEF Next, ClientMoves, EngineMoves

\* What the engine's side does leaves the clients' ids alone.
LEMMA EngineMovesDo == EngineMoves => UNCHANGED client
<1>1. CASE Sweeps
  BY <1>1, Zenon DEF Sweeps, SweepBegins, SweepFills, SweepIsStandby, SweepEnds, Publish
<1>2. CASE ReceiveBegins \/ ReceiveEnds
  BY <1>2, Zenon DEF ReceiveBegins, ReceiveEnds
<1>3. CASE RoleChanges \/ DbsyncMaster
  BY <1>3, Zenon DEF RoleChanges, DbsyncMaster
<1> QED BY <1>1, <1>2, <1>3, Zenon DEF EngineMoves

\* What the PM does for a client leaves its records well-formed, and gives out ids of
\* valid images only.
LEMMA ClientMovesDo ==
    ASSUME IInv, Types, ClientMoves
    PROVE  ClientTypes' /\ \A d \in Client : IdsFrom(d)
<1>1. ASSUME NEW c \in Client, Queries(c) PROVE ClientTypes' /\ \A d \in Client : IdsFrom(d)
  BY <1>1, GetImageInfoDoes, ReadDoes, LastDoes, Zenon DEF Queries
<1>2. ASSUME NEW c \in Client, EndRead(c) PROVE ClientTypes' /\ \A d \in Client : IdsFrom(d)
  BY <1>2, LastDoes, Zenon
<1>3. ASSUME NEW c \in Client, Freezes(c) PROVE ClientTypes' /\ \A d \in Client : IdsFrom(d)
  BY <1>3, FreezesDo, RenewDoes, ReleaseDoes, Zenon DEF Freezes
<1>4. ASSUME NEW c \in Client, Forget(c) PROVE ClientTypes' /\ \A d \in Client : IdsFrom(d)
  BY <1>4, ForgetDoes
<1>5. ASSUME NEW i \in Image, LeaseEnds(i) PROVE ClientTypes' /\ \A d \in Client : IdsFrom(d)
  <2>1. ClientTypes
    BY DEF Types
  <2> QED BY <1>5, <2>1, LeaseDoes, Zenon DEF IdsFrom
<1>6. Reader \subseteq Client
  BY ImagesAssumption
<1> QED BY <1>1, <1>2, <1>3, <1>4, <1>5, <1>6, Zenon DEF ClientMoves

\* What the PM does for a client leaves the ring of images and the engine alone.
LEMMA ClientMovesLeave ==
    ASSUME IInv, Types, ClientMoves
    PROVE  Untouched
<1> USE DEF Untouched
<1>0. ASSUME NEW id, Touch(id) PROVE engine'.pc = engine.pc /\ engine'.img = engine.img
  BY <1>0 DEF Touch, IInv
<1>1. ASSUME NEW c, NEW id, NEW offset, GetImageInfo(c, id, offset) \/ Read(c, id, offset)
      PROVE  Untouched
  BY <1>0, <1>1, Zenon DEF GetImageInfo, Read
<1>2. ASSUME NEW c, ClearPortStats(c) \/ EndRead(c) \/ Forget(c) PROVE Untouched
  BY <1>2, Zenon DEF ClearPortStats, EndRead, Forget
<1>3. count' = [count EXCEPT !.freezes = @ + 1] => count'.turns = count.turns
  BY DEF Types, NumberTypes
<1>4. ASSUME NEW c, NEW id, NEW offset, FreezeFrameCreate(c, id, offset) PROVE Untouched
  BY <1>3, <1>4, Zenon DEF FreezeFrameCreate
<1>5. ASSUME NEW c, NEW id, NEW offset, FreezeFrameMove(c, id, offset) PROVE Untouched
  <2>1. /\ UNCHANGED <<ring, first, lock, rx, master, data, overtaken>>
        /\ Touch(client[c].ff) /\ count' = [count EXCEPT !.freezes = @ + 1]
    BY <1>5, Zenon DEF FreezeFrameMove
  <2> QED BY <1>0, <1>3, <2>1, Zenon
<1>6. ASSUME NEW c, FreezeFrameRenew(c) \/ FreezeFrameRelease(c) PROVE Untouched
  BY <1>0, <1>6, Zenon DEF FreezeFrameRenew, FreezeFrameRelease
<1>7. ASSUME NEW i, LeaseEnds(i) PROVE Untouched
  BY <1>7, Zenon DEF LeaseEnds
<1> QED BY <1>1, <1>2, <1>4, <1>5, <1>6, <1>7, Zenon DEF ClientMoves, Queries, Freezes

\* Initially the types are right.
LEMMA InitTypes == Init => Types
<1> SUFFICES ASSUME Init PROVE Types
  OBVIOUS
<1>1. 0 \in 0 .. ClientIds - 1 /\ 0 \in Image /\ 0 \in Nat
  BY ImagesAssumption DEF Image
<1>2. NumberTypes
  BY <1>1, Zenon DEF Init, NumberTypes
<1>3. RefTypes
  BY <1>1, Zenon DEF Init, RefTypes
<1>4. FlagTypes
  BY Zenon DEF Init, FlagTypes
<1>5. ClientTypes
  BY DEF Init, ClientTypes, ClientRecord
<1> QED BY <1>2, <1>3, <1>4, <1>5, Zenon DEF Types

\* Every step keeps the types.
LEMMA TypesStep == IInv /\ Types /\ [Next]_vars => Types'
<1> SUFFICES ASSUME IInv, Types, [Next]_vars PROVE Types'
  OBVIOUS
<1>1. NumberTypes' /\ RefTypes' /\ FlagTypes'
  BY NumberStep, RefStep, FlagStep, Zenon DEF Types
<1>2. ClientTypes'
  <2>1. ASSUME UNCHANGED client PROVE ClientTypes'
    BY <2>1, Zenon DEF Types, ClientTypes
  <2>2. CASE UNCHANGED vars
    BY <2>1, <2>2, Zenon DEF vars
  <2>3. CASE Next
    BY <2>1, <2>3, TwoSides, EngineMovesDo, ClientMovesDo, Zenon
  <2> QED BY <2>2, <2>3, Zenon
<1> QED BY <1>1, <1>2, Zenon DEF Types

\* Types hold in every reachable state.
LEMMA TypesHold == Spec => [](IInv /\ Types)
<1>1. IInv /\ Types /\ IInv' /\ [Next]_vars => Types'
  BY TypesStep
<1> QED BY <1>1, Inductive, InitTypes, PTL DEF Spec

(* Types: the indexes into Image[], history[] and freezeFrames[] that the  *)
(* PM computes stay in range, the client ids of frozen images fit the 64   *)
(* bits of ffRefCount, and the ids handed to clients are well-formed.      *)
THEOREM TypeCorrect == Spec => []TypeOK
<1>1. IInv /\ Types => TypeOK
  BY TypesSuffice
<1> QED BY <1>1, TypesHold, PTL
=============================================================================
