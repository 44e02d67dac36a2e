------------------------------- MODULE PmImages -------------------------------
(***************************************************************************)
(* The ring of sweep images of the Performance Manager                     *)
(* (Esm/ib/src/pm/pm/pm_sweep.c, paAccess.c, pm_topology.h).               *)
(*                                                                         *)
(* The engine thread fills one image after the other; PA clients read the  *)
(* last one ("live"), walk back in the history, and freeze images so that  *)
(* the engine does not reuse them.  On a standby the images come from the  *)
(* master's PM.  Pm.stateLock guards the indexes and Image[].imageLock the *)
(* contents; a section under stateLock is one step here, except that the   *)
(* engine and the receiver wait for an imageLock while they hold it        *)
(* (variable lock).  Short-term history (shortTermHistory.enable) is off.  *)
(***************************************************************************)
EXTENDS Integers, FiniteSets, FiniteSetsExt

CONSTANTS Client,        \* PA clients, each with one frozen image at most
          Reader,        \* those that also query images
          TotalImages,   \* pm_config.total_images
          FreezeFrames,  \* pm_config.freeze_frame_images
          ClientIds,     \* references an image can hold (64 bits of ffRefCount)
          IntBits,       \* width of the int in the test of a reference
          MaxFills,      \* bound on the images filled
          MaxFreezes,    \* bound on the freezes and moves
          MaxTurns       \* bound on the changes of the SM's role

\* pm_config: TotalImages must be at least FreezeFrameImages + 2.
ASSUME ImagesAssumption ==
    /\ Reader \subseteq Client
    /\ FreezeFrames \in Nat /\ TotalImages \in Nat /\ FreezeFrames > 0
    /\ TotalImages >= FreezeFrames + 2
    /\ ClientIds \in Nat /\ ClientIds > 0 /\ IntBits \in Nat /\ IntBits > 0
    /\ MaxFills \in Nat /\ MaxFreezes \in Nat /\ MaxTurns \in Nat

VARIABLES
    state,            \* Image[].state
    sweepNum,         \* Image[].sweepNum
    ffRefCount,       \* Image[].ffRefCount, as the set of client ids in it
    nextClientId,     \* Image[].nextClientId
    historyIndex,     \* Image[].historyIndex
    lapsed,           \* the lease since Image[].lastUsed is over
    history,          \* Pm.history[]
    lastHistoryIndex, \* Pm.lastHistoryIndex
    freezeFrames,     \* Pm.freezeFrames[]
    LastSweepIndex,   \* Pm.LastSweepIndex
    SweepIndex,       \* Pm.SweepIndex
    NumSweeps,        \* Pm.NumSweeps
    first,            \* g_pmFirstSweepAsMaster
    lock,             \* who waits for an imageLock with the stateLock held
    engine,           \* PmSweep: where it is, pmimagep, leases over at now_time
    rx,               \* putPMSweepImageDataR: processedSweepNum, -1 for isFirstImg
    master,           \* sm_isMaster()
    client,           \* what each client holds and does
    data,             \* history variable: which fill each image contains
    count,            \* fills, freezes and turns so far
    overtaken,        \* history variable: an image arrived between sweep and publication
    orphaned          \* history variable: a move took a slot from a frozen image

ring == <<state, sweepNum, historyIndex, history, lastHistoryIndex, LastSweepIndex, SweepIndex, NumSweeps>>
frames == <<ffRefCount, nextClientId, freezeFrames, orphaned>>
vars == <<ring, frames, lapsed, first, lock, engine, rx, master, client, data, count, overtaken>>

Image == 0 .. TotalImages - 1
Slot == 0 .. FreezeFrames - 1
NoImage == TotalImages    \* PM_IMAGE_INDEX_INVALID

NoId == [type |-> "none"]
Live == [type |-> "live"]

Init ==
    /\ state = [i \in Image |-> "invalid"]
    /\ sweepNum = [i \in Image |-> 0]
    /\ ffRefCount = [i \in Image |-> {}]
    /\ nextClientId = [i \in Image |-> 0]
    /\ historyIndex = [i \in Image |-> 0]
    /\ lapsed = [i \in Image |-> TRUE]
    /\ history = [h \in Image |-> NoImage]
    /\ lastHistoryIndex = TotalImages - 1
    /\ freezeFrames = [f \in Slot |-> NoImage]
    /\ LastSweepIndex = NoImage
    /\ SweepIndex = 0
    /\ NumSweeps = 0
    /\ first = TRUE
    /\ lock = "none"
    /\ engine = [pc |-> "idle", img |-> 0, gone |-> {}]
    /\ rx = -1
    /\ master \in BOOLEAN
    /\ client = [c \in Client |-> [at |-> NoId, ff |-> NoId, used |-> "no",
                                   reads |-> NoImage, sees |-> 0]]
    /\ data = [i \in Image |-> 0]
    /\ count = [fills |-> 0, freezes |-> 0, turns |-> 0]
    /\ overtaken = FALSE
    /\ orphaned = FALSE

-----------------------------------------------------------------------------
(* Locks.                                                                  *)

\* A thread may take stateLock, do its section and release it.
StateFree == lock = "none"

\* The PM's main thread handles one PA request after the other: no query holds
\* the lock of an image.
PaIdle == \A c \in Client : client[c].reads = NoImage

\* Mutant: the image is overwritten under its readers.
UnreadOrNot(i) == TRUE

\* The imageLock can be taken for writing.
Unread(i) == \A c \in Client : client[c].reads # i
Unwritten(i) == engine.pc = "sweeping" => engine.img # i

-----------------------------------------------------------------------------
(* From an image id to an image.  A lookup gives a set with at most one    *)
(* element, the image.                                                     *)

\* Sweep Engine not ready
EngineReady ==
    /\ LastSweepIndex # NoImage
    /\ history[lastHistoryIndex] # NoImage
    /\ state[history[lastHistoryIndex]] = "valid"

\* Mutant: no wrap-around.
AheadOnly(h, offset) == h + offset

Ahead(h, offset) == (h + TotalImages + offset) % TotalImages

ComputeHistory(h, offset, base) ==
    {i \in Image :
        /\ history[h] # NoImage
        /\ offset < TotalImages /\ -offset < TotalImages
        /\ offset <= NumSweeps /\ -offset <= NumSweeps
        /\ i = history[Ahead(h, offset)]
        /\ sweepNum[i] = base + offset
        /\ state[i] = "valid"}

\* BuildHistoryImageId; "of" is the fill the id stands for.
HistoryId(h) == [type |-> "history", index |-> h, sweepNum |-> sweepNum[history[h]],
                 of |-> data[history[h]]]

\* 1 << id.s.clientId, an int, widened to the 64 bits of ffRefCount: the sign
\* is extended, and the machine takes the shift count modulo the width.
Tested(c) ==
    IF c % IntBits = IntBits - 1 THEN IntBits - 1 .. ClientIds - 1 ELSE {c % IntBits}

\* The image in the id's slot, if it is still that sweep's.
InSlot(id) ==
    {i \in Image :
        /\ id.index < FreezeFrames
        /\ freezeFrames[id.index] = i
        /\ sweepNum[i] = id.sweepNum
        /\ state[i] = "valid"}

Frame(id) == {i \in InSlot(id) : ffRefCount[i] \cap Tested(id.clientId) # {}}

GetIndexFromImageId(id, offset) ==
    IF ~EngineReady THEN {}
    ELSE IF id.type = "live" /\ offset = 0 THEN {LastSweepIndex}
    ELSE IF id.type = "live" /\ offset < 0
         THEN ComputeHistory(lastHistoryIndex, offset, sweepNum[history[lastHistoryIndex]])
    ELSE IF id.type = "history" THEN ComputeHistory(id.index, offset, id.sweepNum)
    ELSE IF id.type = "freeze" /\ offset = 0 THEN Frame(id)
    ELSE IF id.type = "freeze"
         THEN UNION {ComputeHistory(historyIndex[f], offset, id.sweepNum) : f \in Frame(id)}
    ELSE {}

\* The lookup of a freeze frame: "Invalid Image Id Type" for any other id.
FindFreezeFrame(id) == {i \in GetIndexFromImageId(id, 0) : id.type = "freeze"}

\* retImageId
Returned(id, offset) ==
    IF id.type = "live" THEN HistoryId(Ahead(lastHistoryIndex, offset))
    ELSE IF id.type = "history" THEN HistoryId(Ahead(id.index, offset))
    ELSE IF offset = 0 THEN id
    ELSE HistoryId(Ahead(historyIndex[freezeFrames[id.index]], offset))

\* The images whose lastUsed the lookup of an id sets.
Touched(id) == IF id.type = "freeze" /\ EngineReady THEN Frame(id) ELSE {}

\* "cleanup, must have expired": a slot whose image nobody holds is emptied.
Cleaned(id) ==
    IF id.type = "freeze" /\ EngineReady /\ \E i \in InSlot(id) : ffRefCount[i] = {}
    THEN [freezeFrames EXCEPT ![id.index] = NoImage]
    ELSE freezeFrames

\* Mutant: without "now_time > lastUsed" the unsigned difference of a later
\* use wraps around.
TouchWraps(id) ==
    /\ lapsed' = [i \in Image |-> lapsed[i] /\ i \notin Touched(id)]
    /\ engine' = [engine EXCEPT !.gone = IF engine.pc = "publish" THEN @ \cup Touched(id) ELSE @]

\* What every lookup leaves behind, whatever it finds.  A touched image is not
\* lapsed any more for a sweep that has already read the time.
Touch(id) ==
    /\ lapsed' = [i \in Image |-> lapsed[i] /\ i \notin Touched(id)]
    /\ engine' = [engine EXCEPT !.gone = @ \ Touched(id)]

\* The client has used its frozen image, if the id was the one of its frame.
Use(c, id) == IF Touched(id) # {} THEN "touched" ELSE client[c].used

-----------------------------------------------------------------------------
(* Queries.                                                                *)

\* What a query may add to its image id.  GetIndexFromTime tries the offsets
\* from 0 back to -(TotalImages - 1) from the last image.  An offset that leads
\* to no image does no more than offset 0: it renews the lease of a frame.
Offset(id) ==
    {offset \in -(TotalImages - 1) .. 1 : offset = 0 \/ GetIndexFromImageId(id, offset) # {}}

\* The client has a frozen image, as far as it knows.
Holds(c) == client[c].ff # NoId /\ client[c].used # "released"

IdsOf(c) == ({Live, client[c].at} \cup (IF Holds(c) THEN {client[c].ff} ELSE {})) \ {NoId}

\* paGetImageInfo: looks at the image under stateLock and returns its id.  A
\* request by absolute time is one for live data with the offset that
\* GetIndexFromTime finds.
GetImageInfo(c, id, offset) ==
    /\ StateFree
    /\ Touch(id)
    /\ freezeFrames' = Cleaned(id)
    /\ client' = [client EXCEPT
           ![c].at = IF GetIndexFromImageId(id, offset) # {} /\ Returned(id, offset).type = "history"
                     THEN Returned(id, offset) ELSE @,
           ![c].used = Use(c, id)]
    /\ UNCHANGED <<ring, ffRefCount, nextClientId, orphaned, first, lock, rx, master, data, count, overtaken>>

\* paGetGroupInfo and the other queries: finds the image under stateLock,
\* takes its imageLock and releases stateLock.  With offset 0 the id says which
\* fill the client wants to see.
Wanted(id, i) == IF id.type = "live" THEN data[i] ELSE id.of

Read(c, id, offset) ==
    /\ StateFree
    /\ \E i \in GetIndexFromImageId(id, offset) :
        /\ Unwritten(i)
        /\ client' = [client EXCEPT
               ![c].reads = i,
               ![c].sees = IF offset = 0 THEN Wanted(id, i) ELSE data[i],
               ![c].used = Use(c, id)]
    /\ Touch(id)
    /\ UNCHANGED <<ring, frames, first, lock, rx, master, data, count, overtaken>>

\* paClearPortStats, paClearAllPortStats: the last image, whatever its state.
ClearPortStats(c) ==
    /\ StateFree
    /\ LastSweepIndex # NoImage
    /\ Unwritten(LastSweepIndex)
    /\ client' = [client EXCEPT ![c].reads = LastSweepIndex, ![c].sees = data[LastSweepIndex]]
    /\ UNCHANGED <<ring, frames, lapsed, first, lock, engine, rx, master, data, count, overtaken>>

EndRead(c) ==
    /\ client[c].reads # NoImage
    /\ client' = [client EXCEPT ![c].reads = NoImage, ![c].sees = 0]
    /\ UNCHANGED <<ring, frames, lapsed, first, lock, engine, rx, master, data, count, overtaken>>

-----------------------------------------------------------------------------
(* Freeze frames.                                                          *)

\* Mutant: does not ask whether the slot's image is still held.
allocAnyFrame(i) ==
    LET own == {f \in Slot : ffRefCount[i] # {} /\ freezeFrames[f] = i}
    IN  IF own # {} THEN Min(own) ELSE Min(Slot)

\* The slot that already points to a frozen image, else the first one that is
\* empty or stale, else FreezeFrames.
allocFreezeFrame(i) ==
    LET own == {f \in Slot : ffRefCount[i] # {} /\ freezeFrames[f] = i}
        free == {f \in Slot : freezeFrames[f] = NoImage \/ ffRefCount[freezeFrames[f]] = {}}
    IN  IF own # {} THEN Min(own)
        ELSE IF free # {} THEN Min(free)
        ELSE FreezeFrames

\* The client id for a new freeze of an image, from the image's rolling count.
FreeIds(i) == (0 .. ClientIds - 1) \ ffRefCount[i]

\* Mutant: the lowest free id, without the rolling count.
getLowestClientId(i) == Min({k \in 0 .. ClientIds - 1 : k \notin ffRefCount[i]})

getNextClientId(i) ==
    (nextClientId[i] + Min({k \in 0 .. ClientIds - 1 :
                               (nextClientId[i] + k) % ClientIds \notin ffRefCount[i]})) % ClientIds

\* BuildFreezeFrameImageId
FreezeId(f, k, i) == [type |-> "freeze", index |-> f, clientId |-> k, sweepNum |-> sweepNum[i],
                      of |-> data[i]]

\* paFreezeFrameCreate
FreezeFrameCreate(c, id, offset) ==
    /\ StateFree
    /\ count.freezes < MaxFreezes
    /\ ~Holds(c)
    /\ \E i \in GetIndexFromImageId(id, offset) :
        /\ allocFreezeFrame(i) < FreezeFrames
        /\ FreeIds(i) # {}
        /\ ffRefCount' = [ffRefCount EXCEPT ![i] = @ \cup {getNextClientId(i)}]
        /\ nextClientId' = [nextClientId EXCEPT ![i] = (getNextClientId(i) + 1) % ClientIds]
        /\ freezeFrames' = [freezeFrames EXCEPT ![allocFreezeFrame(i)] = i]
        /\ client' = [client EXCEPT
               ![c].ff = FreezeId(allocFreezeFrame(i), getNextClientId(i), i),
               ![c].used = "created"]
    /\ count' = [count EXCEPT !.freezes = @ + 1]
    /\ UNCHANGED <<ring, lapsed, orphaned, first, lock, engine, rx, master, data, overtaken>>

\* paFreezeFrameRenew: "just touching it will renew the image".
FreezeFrameRenew(c) ==
    /\ StateFree
    /\ Holds(c)
    /\ Touch(client[c].ff)
    /\ freezeFrames' = Cleaned(client[c].ff)
    /\ client' = [client EXCEPT ![c].used = Use(c, client[c].ff)]
    /\ UNCHANGED <<ring, ffRefCount, nextClientId, orphaned, first, lock, rx, master, data, count, overtaken>>

\* paFreezeFrameRelease; one that fails does what a renewal does.
FreezeFrameRelease(c) ==
    LET id == client[c].ff IN
    /\ StateFree
    /\ Holds(c)
    /\ Touch(id)
    /\ \E i \in FindFreezeFrame(id) :
        /\ id.clientId \in ffRefCount[i]
        /\ ffRefCount' = [ffRefCount EXCEPT ![i] = @ \ {id.clientId}]
    /\ client' = [client EXCEPT ![c].used = "released"]
    /\ UNCHANGED <<ring, nextClientId, freezeFrames, orphaned, first, lock, rx, master, data, count, overtaken>>

\* The slot of a move to image i.
MoveSlot(id, i) ==
    IF ffRefCount[i] = {id.clientId} THEN id.index ELSE allocFreezeFrame(i)

\* paFreezeFrameMove.  A write past the end of freezeFrames changes no slot.
FreezeFrameMove(c, to, offset) ==
    LET id == client[c].ff IN
    /\ StateFree
    /\ count.freezes < MaxFreezes
    /\ Holds(c)
    /\ Touch(id)
    /\ \E j \in FindFreezeFrame(id), i \in GetIndexFromImageId(to, offset) :
        /\ FreeIds(i) # {}
        /\ LET k == getNextClientId(i)
               f == MoveSlot(id, i)
               held == [ffRefCount EXCEPT ![i] = @ \cup {k}]
           IN  /\ ffRefCount' = [held EXCEPT ![j] = @ \ {id.clientId}]
               /\ nextClientId' = [nextClientId EXCEPT ![i] = (k + 1) % ClientIds]
               /\ freezeFrames' = [s \in Slot |-> IF s = f THEN i ELSE freezeFrames[s]]
               /\ client' = [client EXCEPT
                      ![c].ff = FreezeId(f, k, i),
                      ![c].used = IF i = j THEN "touched" ELSE "created"]
               /\ orphaned' = (orphaned \/ f \notin Slot
                                        \/ (f = id.index /\ i # j /\ ffRefCount[j] # {id.clientId}))
    /\ count' = [count EXCEPT !.freezes = @ + 1]
    /\ UNCHANGED <<ring, first, lock, rx, master, data, overtaken>>

\* A client hangs or dies and never comes back for its frozen image.
Forget(c) ==
    /\ Holds(c)
    /\ client' = [client EXCEPT ![c].ff = NoId, ![c].used = "no"]
    /\ UNCHANGED <<ring, frames, lapsed, first, lock, engine, rx, master, data, count, overtaken>>

\* pm_config.freeze_frame_lease has passed since an image was last used.
LeaseEnds(i) ==
    /\ ffRefCount[i] # {}
    /\ ~lapsed[i]
    /\ lapsed' = [lapsed EXCEPT ![i] = TRUE]
    /\ client' = [c \in Client |-> IF Holds(c) /\ client[c].ff.of = data[i]
                                   THEN [client[c] EXCEPT !.used = "no"] ELSE client[c]]
    /\ UNCHANGED <<ring, frames, first, lock, engine, rx, master, data, count, overtaken>>

-----------------------------------------------------------------------------
(* The engine: PmSweep.                                                    *)

SweepBegins ==
    /\ StateFree
    /\ engine.pc = "idle"
    /\ count.fills < MaxFills
    /\ sweepNum' = [sweepNum EXCEPT ![SweepIndex] = NumSweeps]
    /\ state' = [state EXCEPT ![SweepIndex] = "inprogress"]
    /\ engine' = [pc |-> "locking", img |-> SweepIndex, gone |-> {}]
    /\ lock' = "engine"
    /\ UNCHANGED <<historyIndex, history, lastHistoryIndex, LastSweepIndex, SweepIndex, NumSweeps>>
    /\ UNCHANGED <<frames, lapsed, first, rx, master, client, data, count, overtaken>>

\* Has the imageLock and releases stateLock; pm_copy_topology and the counters
\* overwrite the image.
SweepFills ==
    /\ engine.pc = "locking"
    /\ Unread(engine.img)
    /\ master
    /\ data' = [data EXCEPT ![engine.img] = count.fills + 1]
    /\ count' = [count EXCEPT !.fills = @ + 1]
    /\ engine' = [engine EXCEPT !.pc = "sweeping"]
    /\ lock' = "none"
    /\ UNCHANGED <<ring, frames, lapsed, first, rx, master, client, overtaken>>

\* pm_copy_topology finds that this SM is not the master: standby.
SweepIsStandby ==
    /\ engine.pc = "locking"
    /\ Unread(engine.img)
    /\ ~master
    /\ first' = TRUE
    /\ engine' = [pc |-> "idle", img |-> 0, gone |-> {}]
    /\ lock' = "none"
    /\ UNCHANGED <<ring, frames, lapsed, rx, master, client, data, count, overtaken>>

\* Reads now_time and releases the imageLock.
SweepEnds ==
    /\ engine.pc = "sweeping"
    /\ engine' = [engine EXCEPT !.pc = "publish", !.gone = {i \in Image : lapsed[i]}]
    /\ UNCHANGED <<ring, frames, lapsed, first, lock, rx, master, client, data, count, overtaken>>

\* Mutant: the search looks at the current image first.
NextImageOrSame(gone) ==
    LET Usable(i) == ffRefCount[i] = {} \/ i \in gone
    IN  (SweepIndex + Min({k \in 0 .. TotalImages : Usable((SweepIndex + k) % TotalImages)})) % TotalImages

\* The first image after SweepIndex that nobody holds or whose lease is over.
NextImage(gone) ==
    LET Usable(i) == ffRefCount[i] = {} \/ i \in gone
    IN  (SweepIndex + Min({k \in 1 .. TotalImages : Usable((SweepIndex + k) % TotalImages)})) % TotalImages

\* SweepIndex moves on: the next image is taken from whoever held it.
TakeNext(next, valid) ==
    /\ SweepIndex' = next
    /\ ffRefCount' = [ffRefCount EXCEPT ![next] = {}]
    /\ state' = [state EXCEPT ![valid] = "valid", ![next] = "inprogress"]

\* The image in SweepIndex becomes the last one, and img remembers where in
\* the history it is.
Record(img) ==
    /\ LastSweepIndex' = SweepIndex
    /\ lastHistoryIndex' = Ahead(lastHistoryIndex, 1)
    /\ history' = [history EXCEPT ![Ahead(lastHistoryIndex, 1)] = SweepIndex]
    /\ historyIndex' = [historyIndex EXCEPT ![img] = Ahead(lastHistoryIndex, 1)]

\* The first sweep after start or fail-over is no baseline for the next one's
\* differences, unless there is a valid image already.
Counts == ~first \/ (LastSweepIndex # NoImage
                     /\ (LastSweepIndex = engine.img \/ state[LastSweepIndex] = "valid"))

Publish ==
    /\ StateFree
    /\ engine.pc = "publish"
    /\ IF Counts THEN Record(engine.img)
       ELSE UNCHANGED <<LastSweepIndex, lastHistoryIndex, history, historyIndex>>
    /\ TakeNext(NextImage(engine.gone), engine.img)
    /\ NumSweeps' = NumSweeps + 1
    /\ first' = FALSE
    /\ engine' = [pc |-> "idle", img |-> 0, gone |-> {}]
    /\ UNCHANGED <<sweepNum, nextClientId, freezeFrames, orphaned>>
    /\ UNCHANGED <<lapsed, lock, rx, master, client, data, count, overtaken>>

-----------------------------------------------------------------------------
(* Images of the master on a standby: putPMSweepImageDataR.                *)

\* Takes stateLock and waits for the imageLock of SweepIndex.
ReceiveBegins ==
    /\ StateFree
    /\ ~master
    /\ count.fills < MaxFills
    /\ lock' = "receive"
    /\ UNCHANGED <<ring, frames, lapsed, first, engine, rx, master, client, data, count, overtaken>>

\* The number in the received image: the sender goes on from the numbers it
\* had from here or sent before.
Received == IF rx = -1 THEN NumSweeps ELSE rx + 1

ReceiveEnds ==
    /\ lock = "receive"
    /\ Unread(SweepIndex)
    /\ Unwritten(SweepIndex)
    /\ sweepNum' = [sweepNum EXCEPT ![SweepIndex] = Received]
    /\ NumSweeps' = Received + 1
    /\ rx' = Received
    /\ data' = [data EXCEPT ![SweepIndex] = count.fills + 1]
    /\ count' = [count EXCEPT !.fills = @ + 1]
    /\ Record(SweepIndex)
    /\ TakeNext(NextImage({i \in Image : lapsed[i]}), SweepIndex)
    /\ nextClientId' = [nextClientId EXCEPT ![SweepIndex] = 0]
    /\ lapsed' = [lapsed EXCEPT ![SweepIndex] = TRUE]
    /\ lock' = "none"
    /\ overtaken' = (overtaken \/ engine.pc = "publish")
    /\ UNCHANGED <<freezeFrames, orphaned, first, engine, master, client>>

-----------------------------------------------------------------------------
(* The SM's role, and the PM's synchronization thread on a master.         *)

RoleChanges ==
    /\ count.turns < MaxTurns
    /\ master' = ~master
    /\ count' = [count EXCEPT !.turns = @ + 1]
    /\ UNCHANGED <<ring, frames, lapsed, first, lock, engine, rx, client, data, overtaken>>

\* PmDbsync resets isFirstImg.
DbsyncMaster ==
    /\ master
    /\ rx # -1
    /\ rx' = -1
    /\ UNCHANGED <<ring, frames, lapsed, first, lock, engine, master, client, data, count, overtaken>>

-----------------------------------------------------------------------------
Queries(c) ==
    /\ PaIdle
    /\ \/ \E id \in IdsOf(c) : \E offset \in Offset(id) :
              GetImageInfo(c, id, offset) \/ Read(c, id, offset)
       \/ ClearPortStats(c)

Freezes(c) ==
    /\ PaIdle
    /\ \/ \E id \in IdsOf(c) : \E offset \in Offset(id) :
              FreezeFrameCreate(c, id, offset) \/ FreezeFrameMove(c, id, offset)
       \/ FreezeFrameRenew(c)
       \/ FreezeFrameRelease(c)

Sweeps == SweepBegins \/ SweepFills \/ SweepIsStandby \/ SweepEnds \/ Publish

Next ==
    \/ \E c \in Reader : Queries(c) \/ EndRead(c)
    \/ \E c \in Client : Freezes(c) \/ Forget(c)
    \/ \E i \in Image : LeaseEnds(i)
    \/ Sweeps
    \/ ReceiveBegins
    \/ ReceiveEnds
    \/ RoleChanges
    \/ DbsyncMaster

Spec == Init /\ [][Next]_vars

-----------------------------------------------------------------------------
(* Properties.                                                             *)

HistoryIds == [type : {"history"}, index : Image, sweepNum : Nat, of : Nat]
FreezeIds == [type : {"freeze"}, index : 0 .. FreezeFrames, clientId : 0 .. ClientIds - 1,
              sweepNum : Nat, of : Nat]

(* Types: indexes into Image[], history[] and freezeFrames[] stay in range *)
(* or are PM_IMAGE_INDEX_INVALID (the ASSERTs of paAccess.c on imageIndex).*)
TypeOK ==
    /\ state \in [Image -> {"invalid", "valid", "inprogress"}]
    /\ sweepNum \in [Image -> Nat]
    /\ ffRefCount \in [Image -> SUBSET (0 .. ClientIds - 1)]
    /\ nextClientId \in [Image -> 0 .. ClientIds - 1]
    /\ historyIndex \in [Image -> Image]
    /\ lapsed \in [Image -> BOOLEAN]
    /\ history \in [Image -> Image \cup {NoImage}]
    /\ lastHistoryIndex \in Image
    /\ freezeFrames \in [Slot -> Image \cup {NoImage}]
    /\ LastSweepIndex \in Image \cup {NoImage}
    /\ SweepIndex \in Image
    /\ NumSweeps \in Nat
    /\ first \in BOOLEAN
    /\ lock \in {"none", "engine", "receive"}
    /\ engine \in [pc : {"idle", "locking", "sweeping", "publish"}, img : Image, gone : SUBSET Image]
    /\ rx \in Nat \cup {-1}
    /\ master \in BOOLEAN
    /\ client \in [Client -> [at : HistoryIds \cup {NoId}, ff : FreezeIds \cup {NoId},
                              used : {"no", "created", "touched", "released"},
                              reads : Image \cup {NoImage}, sees : Nat]]
    /\ data \in [Image -> Nat]
    /\ count \in [fills : Nat, freezes : Nat, turns : Nat]
    /\ overtaken \in BOOLEAN
    /\ orphaned \in BOOLEAN

(* A client that reads an image sees, until it releases the imageLock, the *)
(* sweep its image id was issued for, and no other, however many sweeps,   *)
(* received images, leases and freezes happen meanwhile.                   *)
ReadsOneSweep ==
    \A c \in Client : client[c].reads # NoImage => data[client[c].reads] = client[c].sees

(* Frozen image ids: one in use leads to the sweep that was frozen or to   *)
(* no image; one that was released or moved leads to no image ever again   *)
(* (getNextClientId: "to avoid a unfreeze/freeze against same imageIndex   *)
(* getting same clientId").                                                *)
IdsStayTrue ==
    \A c \in Client :
        /\ client[c].ff # NoId => \A i \in GetIndexFromImageId(client[c].ff, 0) : data[i] = client[c].ff.of
        /\ client[c].at # NoId => \A i \in GetIndexFromImageId(client[c].at, 0) : data[i] = client[c].at.of
        /\ client[c].used = "released" => GetIndexFromImageId(client[c].ff, 0) = {}

(* A frozen image that its client has used within the lease is found by    *)
(* its id (pm_topology.h: lastUsed, "timestamp of last reference, used to  *)
(* age FF"), unless a move has taken its slot: paFreezeFrameMove tests the *)
(* references of the image it moves to, not of the one it leaves           *)
(* (paAccess.c:1915), so it may redirect a slot that others still need.    *)
FrozenIsKept ==
    \A c \in Client :
        client[c].used = "touched" /\ ~orphaned /\ EngineReady => Frame(client[c].ff) # {}

(* Every image that is held has a freeze-frame slot, so at most            *)
(* FreezeFrames images are kept from the engine and, with TotalImages >=   *)
(* FreezeFrames + 2, the search for the next image finds one that is not   *)
(* the last one: live data stay readable during the next sweep.            *)
HeldHasSlot ==
    ~orphaned => \A i \in Image : ffRefCount[i] # {} => \E f \in Slot : freezeFrames[f] = i

(* The last image is valid, is the last one of the history, and is not the *)
(* one the engine fills next (DEBUG_ASSERT in GetIndexFromImageId), unless *)
(* a received image has overtaken the engine or a move has taken a slot.   *)
LastIsReadable ==
    LastSweepIndex # NoImage /\ ~overtaken /\ ~orphaned =>
        /\ history[lastHistoryIndex] = LastSweepIndex
        /\ state[LastSweepIndex] = "valid"
        /\ SweepIndex # LastSweepIndex
=============================================================================
