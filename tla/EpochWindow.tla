---------------------------- MODULE EpochWindow -----------------------------
(***************************************************************************)
(* The window of supported epochs of one node, and the threads that work   *)
(* on its epochs while EpochRotationThread moves it.                       *)
(*                                                                         *)
(* The rotation holds the write lock of APPROVEMENT_THREAD_METADATA.       *)
(* BlocksGenerationThread and ShareBlockAndGetProofsThread take the read   *)
(* lock only to copy the list of epochs, and then work through that copy   *)
(* epoch by epoch, for seconds: each may still be at work on an epoch, or  *)
(* reach it for the first time, after the rotation has dropped it.         *)
(* GetFinalizationProof holds the read lock from beginning to end.  The    *)
(* node may crash between any two writes and start again from its stores.  *)
(*                                                                         *)
(* The blocks of an epoch are those this node creates.  What the quorum    *)
(* does with them (BlockFinalization) is here the outcome of a round: the  *)
(* block after the accepted one is finalized, or not.                      *)
(*                                                                         *)
(* FLOOD_PREVENTION_FLAG_FOR_ROUTES is left out: a handler may pass it     *)
(* just before the rotation clears it, so it forbids nothing the lock does *)
(* not forbid.                                                             *)
(***************************************************************************)
EXTENDS Integers

CONSTANTS
    MaxEpochsToSupport,  \* NetworkParameters.MaxEpochsToSupport
    LegacyIndex,         \* NextIndex under the unkeyed "GT" of an older
                         \* version, whose blocks are epoch 0's; 0 if none
    MaxEpoch,            \* bound: epochs 0..MaxEpoch
    MaxIndex,            \* bound: blocks 0..MaxIndex in each epoch
    MaxRestarts          \* bound: crashes and restarts

ASSUME WindowAssumption == MaxEpochsToSupport \in Nat \ {0}

ASSUME BoundAssumption ==
    /\ MaxEpoch \in Nat
    /\ MaxIndex \in Nat
    /\ MaxRestarts \in Nat
    /\ LegacyIndex \in 0 .. MaxIndex + 1

VARIABLES
    \* On disk.
    storedWindow,      \* SupportedEpochs under "AT"
    finished,          \* the epochs with an EPOCH_FINISH key
    archived,          \* the epochs with an EPOCH_HANDLER key
    storedGeneration,  \* NextIndex under "GT:<epoch>", or Absent
    storedGrabber,     \* AcceptedIndex under "<epoch>:PROOFS_GRABBER"
    BLOCKS,            \* whether block i of epoch e has been stored, once
                       \* or again over another block
    \* In memory.
    window,            \* SupportedEpochs
    rotation,          \* where EpochRotationThread is
    generation,        \* the generation metadata objects of each epoch
    runtimes,          \* the finalization runtimes of each epoch
    metadataRemoved,   \* the epochs removeGenerationMetadata was called for
    runtimeRemoved,    \* the epochs removeFinalizationRuntime was called for
    generator,         \* where BlocksGenerationThread is
    sharer,            \* where ShareBlockAndGetProofsThread is
    proving,           \* epochs with a GetFinalizationProof under way
    restarts           \* what the bound counts

storeVars  == <<storedWindow, finished, archived, storedGeneration,
                storedGrabber, BLOCKS>>
objectVars == <<generation, runtimes, metadataRemoved, runtimeRemoved>>
threadVars == <<rotation, generator, sharer, proving>>
vars == <<storeVars, window, objectVars, threadVars, restarts>>

-----------------------------------------------------------------------------
(***************************************************************************)
(* Data.  Epoch identifiers are consecutive, so SupportedEpochs is known   *)
(* by its first and last epoch.  An epoch is dropped at most once in the   *)
(* life of a process: at most one object is created for it before, the     *)
(* "first", and one after, the "second".  A thread holds a pointer, that   *)
(* is, it knows which one it works on.                                     *)
(***************************************************************************)
Epochs  == 0 .. MaxEpoch
Indices == 0 .. MaxIndex
Objects == {"first", "second"}
Absent  == -2

Window  == [first : Epochs, last : Epochs]

\* Where a thread is in its copy of the epochs: epoch is the one at hand.
Idle      == "idle"
Generator == [pc : {Idle, "ensure", "approve", "metadata", "write"},
              epoch : Epochs, last : Epochs, accepted : Indices \cup {-1},
              runtime : Objects, metadata : Objects]
Sharer    == [pc : {Idle, "ensure", "round"},
              epoch : Epochs, last : Epochs, runtime : Objects]

\* The object a map refers to, or would if it had one.
Current(e, removed) == IF e \in removed THEN "second" ELSE "first"

\* The next block to generate, by metadata that may be missing.
NextIndex(metadata) == IF metadata = Absent THEN 0 ELSE metadata

NextEpoch(thread) ==
    IF thread.epoch < thread.last
    THEN [thread EXCEPT !.epoch = @ + 1, !.pc = "ensure"]
    ELSE [thread EXCEPT !.pc = Idle]

InWindow(e, w) == w.first <= e /\ e <= w.last

-----------------------------------------------------------------------------
TypeOK ==
    /\ storedWindow \in Window
    /\ finished \in SUBSET Epochs
    /\ archived \in SUBSET Epochs
    /\ storedGeneration \in [Epochs -> 0 .. MaxIndex + 1 \cup {Absent}]
    /\ storedGrabber \in [Epochs -> Indices \cup {-1}]
    /\ BLOCKS \in [Epochs -> [Indices -> {"none", "once", "again"}]]
    /\ window \in Window
    /\ rotation \in {Idle, "waiting", "locked", "marked", "runtime",
                     "metadata", "store"}
    /\ generation \in [Epochs -> [Objects -> 0 .. MaxIndex + 1
                                                \cup {Absent}]]
    /\ runtimes \in [Epochs -> [Objects -> Indices \cup {-1, Absent}]]
    /\ metadataRemoved \in SUBSET Epochs
    /\ runtimeRemoved \in SUBSET Epochs
    /\ generator \in Generator
    /\ sharer \in Sharer
    /\ proving \in SUBSET Epochs
    /\ restarts \in 0 .. MaxRestarts

-----------------------------------------------------------------------------
(***************************************************************************)
(* Starting: ensureEpochWindow and loadGenerationThreadMetadata.           *)
(***************************************************************************)
\* The window that is loaded, cut to the newest MaxEpochsToSupport epochs.
EnsureEpochWindow(w) ==
    IF w.last - w.first >= MaxEpochsToSupport
    THEN [w EXCEPT !.first = w.last - MaxEpochsToSupport + 1]
    ELSE w

\* The metadata of the first epoch of the window that has none of its own is
\* taken from the legacy key, if there is one.
LoadGeneration(w, stored) ==
    [e \in Epochs |->
        IF ~InWindow(e, w) THEN Absent
        ELSE IF stored[e] # Absent THEN stored[e]
        ELSE IF \A d \in Epochs : InWindow(d, w) /\ d < e =>
                    stored[d] # Absent
        THEN LegacyIndex
        ELSE 0]

NoObjects == [o \in Objects |-> Absent]

\* What a process that starts with window w and these GT keys has in memory.
Started(w, stored) ==
    /\ window' = w
    /\ generation' = [e \in Epochs |->
         [NoObjects EXCEPT !["first"] = LoadGeneration(w, stored)[e]]]
    /\ runtimes' = [e \in Epochs |-> NoObjects]
    /\ metadataRemoved' = {}
    /\ runtimeRemoved' = {}
    /\ rotation' = Idle
    /\ generator' = [generator EXCEPT !.pc = Idle]
    /\ sharer' = [sharer EXCEPT !.pc = Idle]
    /\ proving' = {}

\* Epoch 0 after loadGenesis, or after the upgrade of a version that had one
\* epoch and the legacy key.
Init ==
    /\ storedWindow = [first |-> 0, last |-> 0]
    /\ finished = {}
    /\ archived = {0}
    /\ storedGeneration = [e \in Epochs |-> Absent]
    /\ storedGrabber = [e \in Epochs |-> -1]
    /\ BLOCKS = [e \in Epochs |-> [i \in Indices |->
                   IF e = 0 /\ i < LegacyIndex THEN "once" ELSE "none"]]
    /\ window = storedWindow
    /\ rotation = Idle
    /\ generation = [e \in Epochs |->
         [NoObjects EXCEPT
            !["first"] = LoadGeneration(window, storedGeneration)[e]]]
    /\ runtimes = [e \in Epochs |-> NoObjects]
    /\ metadataRemoved = {}
    /\ runtimeRemoved = {}
    /\ generator = [pc |-> Idle, epoch |-> 0, last |-> 0, accepted |-> -1,
                    runtime |-> "first", metadata |-> "first"]
    /\ sharer = [pc |-> Idle, epoch |-> 0, last |-> 0, runtime |-> "first"]
    /\ proving = {}
    /\ restarts = 0

\* The node crashes, anywhere, and starts again.
Restart ==
    LET w == EnsureEpochWindow(storedWindow)
        dropped == {e \in Epochs : InWindow(e, storedWindow)
                                    /\ ~InWindow(e, w)}
        stored == [e \in Epochs |->
                     IF e \in dropped THEN Absent ELSE storedGeneration[e]]
    IN  /\ restarts < MaxRestarts
        /\ restarts' = restarts + 1
        /\ finished' = finished \cup dropped
        /\ storedGeneration' = stored
        /\ Started(w, stored)
        /\ UNCHANGED <<storedWindow, archived, storedGrabber, BLOCKS>>

-----------------------------------------------------------------------------
(***************************************************************************)
(* EpochRotationThread, once the newest epoch has expired.  The write lock *)
(* waits for the readers there are, lets no new one in, and is held until  *)
(* the new window is on disk.                                              *)
(***************************************************************************)
WaitForLock ==
    /\ rotation = Idle
    /\ window.last < MaxEpoch
    /\ rotation' = "waiting"
    /\ UNCHANGED <<storeVars, window, objectVars, generator, sharer, proving,
                   restarts>>

\* The epoch that ends gets its EPOCH_HANDLER key.
LockForRotation ==
    /\ rotation = "waiting"
    /\ proving = {}
    /\ archived' = archived \cup {window.last}
    /\ rotation' = "locked"
    /\ UNCHANGED <<storedWindow, finished, storedGeneration, storedGrabber,
                   BLOCKS, window, objectVars, generator, sharer, proving,
                   restarts>>

\* (a variant of WindowIsFull that counts before the epoch is appended)
WindowIsOverfull == window.last - window.first + 1 > MaxEpochsToSupport

WindowIsFull == window.last - window.first + 2 > MaxEpochsToSupport

AppendEpoch ==
    /\ rotation = "locked"
    /\ ~WindowIsFull
    /\ window' = [window EXCEPT !.last = @ + 1]
    /\ rotation' = "store"
    /\ UNCHANGED <<storeVars, objectVars, generator, sharer, proving,
                   restarts>>

\* The new epoch is appended, the oldest one leaves the window in memory and
\* is marked as finished on disk.
FinishOldest ==
    /\ rotation = "locked"
    /\ WindowIsFull
    /\ window' = [first |-> window.first + 1, last |-> window.last + 1]
    /\ finished' = finished \cup {window.first}
    /\ rotation' = "marked"
    /\ UNCHANGED <<storedWindow, archived, storedGeneration, storedGrabber,
                   BLOCKS, objectVars, generator, sharer, proving, restarts>>

\* (a variant of Dropped: the epoch that is now the oldest)
NewOldest == window.first

Dropped == window.first - 1

RemoveFinalizationRuntime ==
    /\ rotation = "marked"
    /\ runtimeRemoved' = runtimeRemoved \cup {Dropped}
    /\ rotation' = "runtime"
    /\ UNCHANGED <<storeVars, window, generation, runtimes, metadataRemoved,
                   generator, sharer, proving, restarts>>

RemoveGenerationMetadata ==
    /\ rotation = "runtime"
    /\ metadataRemoved' = metadataRemoved \cup {Dropped}
    /\ rotation' = "metadata"
    /\ UNCHANGED <<storeVars, window, generation, runtimes, runtimeRemoved,
                   generator, sharer, proving, restarts>>

\* A failure to delete the key is logged and otherwise ignored.
DeleteGeneration ==
    /\ rotation = "metadata"
    /\ \/ storedGeneration' = [storedGeneration EXCEPT ![Dropped] = Absent]
       \/ UNCHANGED storedGeneration
    /\ rotation' = "store"
    /\ UNCHANGED <<storedWindow, finished, archived, storedGrabber, BLOCKS,
                   window, objectVars, generator, sharer, proving, restarts>>

\* (a variant of StoreWindow that forgets the write)
KeepStoredWindow ==
    /\ rotation = "store"
    /\ rotation' = Idle
    /\ UNCHANGED <<storeVars, window, objectVars, generator, sharer, proving,
                   restarts>>

\* (a variant of StoreWindow that tries a failing write again and again, with
\* the lock held)
StoreWindowRetries == rotation = "store" /\ UNCHANGED vars

StoreWindow ==
    /\ rotation = "store"
    /\ storedWindow' = window
    /\ rotation' = Idle
    /\ UNCHANGED <<finished, archived, storedGeneration, storedGrabber,
                   BLOCKS, window, objectVars, generator, sharer, proving,
                   restarts>>

-----------------------------------------------------------------------------
(***************************************************************************)
(* ensureFinalizationRuntime: the epoch's runtime, created from its stored *)
(* grabber when the map has none.                                          *)
(***************************************************************************)
EnsureFinalizationRuntime(e) ==
    LET object == Current(e, runtimeRemoved)
    IN  runtimes' = [runtimes EXCEPT ![e][object] =
                       IF @ = Absent THEN storedGrabber[e] ELSE @]

(***************************************************************************)
(* BlocksGenerationThread.                                                 *)
(***************************************************************************)
CopyWindow(thread) ==
    [thread EXCEPT !.pc = "ensure", !.epoch = window.first,
                   !.last = window.last]

WakeGenerator ==
    /\ generator.pc = Idle
    /\ rotation = Idle
    /\ generator' = CopyWindow(generator)
    /\ UNCHANGED <<storeVars, window, objectVars, rotation, sharer, proving,
                   restarts>>

GeneratorEnsures ==
    /\ generator.pc = "ensure"
    /\ EnsureFinalizationRuntime(generator.epoch)
    /\ generator' = [generator EXCEPT
                       !.pc = "approve",
                       !.runtime = Current(generator.epoch, runtimeRemoved)]
    /\ UNCHANGED <<storeVars, window, generation, metadataRemoved,
                   runtimeRemoved, rotation, sharer, proving, restarts>>

\* The share thread holds the mutex of a runtime for a whole round.
RuntimeIsLocked(e, object) ==
    sharer.pc = "round" /\ sharer.epoch = e /\ sharer.runtime = object

ReadApprovedIndex ==
    /\ generator.pc = "approve"
    /\ ~RuntimeIsLocked(generator.epoch, generator.runtime)
    /\ generator' = [generator EXCEPT
                       !.pc = "metadata",
                       !.accepted =
                           runtimes[generator.epoch][generator.runtime]]
    /\ UNCHANGED <<storeVars, window, objectVars, rotation, sharer, proving,
                   restarts>>

\* (a variant of MayGenerate that waits for an approval before block 0 too)
ApprovedBefore(next) == next <= generator.accepted

\* (a variant of MayGenerate that is one block too early)
WrittenBefore(next) == next <= generator.accepted + 2

MayGenerate(next) == next <= generator.accepted + 1

\* getGenerationMetadata, which creates what the map does not have, and the
\* check whether the next block may be generated.
GetGenerationMetadata ==
    LET e == generator.epoch
        object == Current(e, metadataRemoved)
        next == NextIndex(generation[e][object])
    IN  /\ generator.pc = "metadata"
        /\ generation' = [generation EXCEPT ![e][object] = next]
        /\ generator' =
             IF MayGenerate(next) /\ next <= MaxIndex
             THEN [generator EXCEPT !.pc = "write", !.metadata = object]
             ELSE NextEpoch(generator)
        /\ UNCHANGED <<storeVars, window, runtimes, metadataRemoved,
                       runtimeRemoved, rotation, sharer, proving, restarts>>

\* (a variant of WriteBlock that serializes the metadata before it advances)
WriteBlockOldMetadata ==
    LET e == generator.epoch
        next == generation[e][generator.metadata]
    IN  /\ generator.pc = "write"
        /\ generation' = [generation EXCEPT
                            ![e][generator.metadata] = next + 1]
        /\ storedGeneration' = [storedGeneration EXCEPT ![e] = next]
        /\ BLOCKS' = [BLOCKS EXCEPT ![e][next] =
                        IF @ = "none" THEN "once" ELSE "again"]
        /\ generator' = NextEpoch(generator)
        /\ UNCHANGED <<storedWindow, finished, archived, storedGrabber,
                       window, runtimes, metadataRemoved, runtimeRemoved,
                       rotation, sharer, proving, restarts>>

\* The metadata advances in memory, then the block and the metadata are
\* written in one batch, whatever has become of the epoch meanwhile.
WriteBlock ==
    LET e == generator.epoch
        next == generation[e][generator.metadata]
    IN  /\ generator.pc = "write"
        /\ generation' = [generation EXCEPT
                            ![e][generator.metadata] = next + 1]
        /\ storedGeneration' = [storedGeneration EXCEPT ![e] = next + 1]
        /\ BLOCKS' = [BLOCKS EXCEPT ![e][next] =
                        IF @ = "none" THEN "once" ELSE "again"]
        /\ generator' = NextEpoch(generator)
        /\ UNCHANGED <<storedWindow, finished, archived, storedGrabber,
                       window, runtimes, metadataRemoved, runtimeRemoved,
                       rotation, sharer, proving, restarts>>

-----------------------------------------------------------------------------
(***************************************************************************)
(* ShareBlockAndGetProofsThread.                                           *)
(***************************************************************************)
WakeSharer ==
    /\ sharer.pc = Idle
    /\ rotation = Idle
    /\ sharer' = CopyWindow(sharer)
    /\ UNCHANGED <<storeVars, window, objectVars, rotation, generator,
                   proving, restarts>>

BeginRound ==
    /\ sharer.pc = "ensure"
    /\ EnsureFinalizationRuntime(sharer.epoch)
    /\ sharer' = [sharer EXCEPT
                    !.pc = "round",
                    !.runtime = Current(sharer.epoch, runtimeRemoved)]
    /\ UNCHANGED <<storeVars, window, generation, metadataRemoved,
                   runtimeRemoved, rotation, generator, proving, restarts>>

\* The quorum has finalized the block after the accepted one: the grabber is
\* stored as it was, and advances.
RoundFinalizes ==
    LET e == sharer.epoch
        accepted == runtimes[e][sharer.runtime]
    IN  /\ sharer.pc = "round"
        /\ accepted + 1 \in Indices
        /\ BLOCKS[e][accepted + 1] # "none"
        /\ storedGrabber' = [storedGrabber EXCEPT ![e] = accepted]
        /\ runtimes' = [runtimes EXCEPT ![e][sharer.runtime] = accepted + 1]
        /\ sharer' = NextEpoch(sharer)
        /\ UNCHANGED <<storedWindow, finished, archived, storedGeneration,
                       BLOCKS, window, generation, metadataRemoved,
                       runtimeRemoved, rotation, generator, proving,
                       restarts>>

\* No block to share, a round that timed out, or too few useful answers.
RoundFails ==
    /\ sharer.pc = "round"
    /\ sharer' = NextEpoch(sharer)
    /\ UNCHANGED <<storeVars, window, objectVars, rotation, generator,
                   proving, restarts>>

-----------------------------------------------------------------------------
(***************************************************************************)
(* GetFinalizationProof about a block of epoch e: under the read lock, it  *)
(* looks the epoch up in the window, checks SignalAboutEpochRotationExists *)
(* and in the end signs.                                                   *)
(***************************************************************************)
SignalAboutEpochRotationExists(e) == e \in finished

\* (a variant of BeginProof that trusts the window alone)
BeginProofInWindow(e) ==
    /\ rotation = Idle
    /\ InWindow(e, window)
    /\ proving' = proving \cup {e}
    /\ UNCHANGED <<storeVars, window, objectVars, rotation, generator,
                   sharer, restarts>>

BeginProof(e) ==
    /\ rotation = Idle
    /\ InWindow(e, window)
    /\ ~SignalAboutEpochRotationExists(e)
    /\ proving' = proving \cup {e}
    /\ UNCHANGED <<storeVars, window, objectVars, rotation, generator,
                   sharer, restarts>>

FinishProof(e) ==
    /\ e \in proving
    /\ proving' = proving \ {e}
    /\ UNCHANGED <<storeVars, window, objectVars, rotation, generator,
                   sharer, restarts>>

-----------------------------------------------------------------------------
RotationNext ==
    \/ WaitForLock
    \/ LockForRotation
    \/ AppendEpoch
    \/ FinishOldest
    \/ RemoveFinalizationRuntime
    \/ RemoveGenerationMetadata
    \/ DeleteGeneration
    \/ StoreWindow

GeneratorNext ==
    \/ WakeGenerator
    \/ GeneratorEnsures
    \/ ReadApprovedIndex
    \/ GetGenerationMetadata
    \/ WriteBlock

SharerNext ==
    \/ WakeSharer
    \/ BeginRound
    \/ RoundFinalizes
    \/ RoundFails

Next ==
    \/ RotationNext
    \/ GeneratorNext
    \/ SharerNext
    \/ \E e \in Epochs : BeginProof(e) \/ FinishProof(e)
    \/ Restart

Spec == Init /\ [][Next]_vars

-----------------------------------------------------------------------------
(***************************************************************************)
(* Safety.                                                                 *)
(***************************************************************************)
\* A block this node has stored is written over only in an epoch it has
\* marked as finished.  There it does happen: a thread that copied the
\* window before the rotation, or a restart that finds the GT key gone and
\* the old window still in AT, begins the epoch's chain again.
OnlyFinishedRewritten ==
    \A e \in Epochs, i \in Indices : BLOCKS[e][i] = "again" => e \in finished

\* No signature for a finished epoch: no handler of GetFinalizationProof is
\* between its check of the signal and its signature when the signal is
\* written, nor after a restart that loads a window with a finished epoch.
NoProofAfterFinish == proving \cap finished = {}

\* Whatever the crash left behind, an epoch outside the stored window is
\* marked as finished and can be looked up by its EPOCH_HANDLER key, and at
\* most one epoch of the stored window is already marked: its oldest.
WindowIsDurable ==
    /\ \A e \in Epochs : e < storedWindow.first =>
         e \in finished /\ e \in archived
    /\ \A e \in finished : e <= storedWindow.first
    /\ \A e \in Epochs : e < window.last => e \in archived
    /\ storedWindow.last - storedWindow.first < MaxEpochsToSupport

\* In an epoch that is not finished, the pointer of the generation thread,
\* its copy on disk and the blocks agree, through any restart, and nothing
\* is finalized beyond the blocks there are.
GenerationIntact ==
    LegacyIndex = 0 =>
    \A e \in Epochs \ finished :
        LET next == NextIndex(storedGeneration[e])
        IN  /\ \A i \in Indices :
                 BLOCKS[e][i] = IF i < next THEN "once" ELSE "none"
            /\ NextIndex(generation[e]["first"]) = next
            /\ storedGrabber[e] < next
            /\ runtimes[e]["first"] # Absent =>
                 /\ runtimes[e]["first"] < next
                 /\ storedGrabber[e] <= runtimes[e]["first"]
                 /\ runtimes[e]["first"] <= storedGrabber[e] + 1

-----------------------------------------------------------------------------
(***************************************************************************)
(* The inductive invariant behind the safety properties.                   *)
(***************************************************************************)
Slid(w)  == [first |-> w.first + 1, last |-> w.last + 1]
Grown(w) == [first |-> w.first, last |-> w.last + 1]

\* The window in memory is the stored one, or the next one while the
\* rotation holds the lock.
WindowFollowsRotation ==
    /\ storedWindow.first <= storedWindow.last
    /\ storedWindow.last - storedWindow.first < MaxEpochsToSupport
    /\ rotation \in {Idle, "waiting", "locked"} => window = storedWindow
    /\ rotation \in {"marked", "runtime", "metadata"} =>
         window = Slid(storedWindow) /\ storedWindow.first \in finished
    /\ rotation = "store" =>
         \/ window = Slid(storedWindow) /\ storedWindow.first \in finished
         \/ /\ window = Grown(storedWindow)
            /\ window.last - window.first < MaxEpochsToSupport
    /\ rotation # Idle => storedWindow.last < MaxEpoch
    /\ rotation \notin {Idle, "waiting"} =>
         proving = {} /\ storedWindow.last \in archived

\* Epochs end in order, and only what belongs to a finished one is removed.
EndedInOrder ==
    /\ \A e \in Epochs : e < storedWindow.first => e \in finished
    /\ \A e \in Epochs : e < storedWindow.last => e \in archived
    /\ \A e \in finished : e <= storedWindow.first
    /\ runtimeRemoved \subseteq finished
    /\ metadataRemoved \subseteq finished

\* What a thread points to exists, and is the first object of its epoch
\* unless the epoch is finished.
PointersHold ==
    /\ generator.pc # Idle =>
         generator.epoch <= generator.last /\ generator.last <= storedWindow.last
    /\ generator.pc = "approve" =>
         runtimes[generator.epoch][generator.runtime] # Absent
    /\ generator.pc = "write" =>
         /\ generation[generator.epoch][generator.metadata] \in Indices
         /\ generator.epoch \notin finished => generator.metadata = "first"
    /\ sharer.pc = "round" =>
         /\ runtimes[sharer.epoch][sharer.runtime] # Absent
         /\ sharer.epoch \notin finished => sharer.runtime = "first"

\* What the generation thread has read of an epoch that is not finished is
\* still so when it uses it: the index it knows to be accepted is no higher
\* than the accepted index is now, and the next block, which it may write
\* after that one, is the one the metadata still points to.
GeneratorFollowsTip ==
    LET e == generator.epoch
    IN  generator.pc \in {"approve", "metadata", "write"} /\ e \notin finished =>
            /\ generator.runtime = "first"
            /\ generator.pc # "approve" =>
                 /\ runtimes[e]["first"] # Absent
                 /\ generator.accepted <= runtimes[e]["first"]
            /\ generator.pc = "write" =>
                 generation[e]["first"] <= generator.accepted + 1

\* The next block of an epoch with no GT key, and with one.
StartIndex(e)  == IF e = 0 THEN LegacyIndex ELSE 0
StoredIndex(e) == IF storedGeneration[e] = Absent
                  THEN StartIndex(e) ELSE storedGeneration[e]

\* In an epoch that is not finished no block is stored from the next index
\* on, and the index in memory is no lower.
BlocksEndAtIndex ==
    /\ \A e \in Epochs : e > storedWindow.last => storedGeneration[e] = Absent
    /\ \A e \in Epochs \ finished :
         /\ \A i \in Indices : i >= StoredIndex(e) => BLOCKS[e][i] = "none"
         /\ NextIndex(generation[e]["first"]) >= StoredIndex(e)

WindowInv ==
    /\ TypeOK
    /\ WindowFollowsRotation
    /\ EndedInOrder
    /\ PointersHold
    /\ GeneratorFollowsTip
    /\ BlocksEndAtIndex
    /\ OnlyFinishedRewritten
    /\ NoProofAfterFinish
    /\ GenerationIntact

-----------------------------------------------------------------------------
(***************************************************************************)
(* What others may know of an epoch's chain: the contract with             *)
(* BlockFinalization.                                                      *)
(***************************************************************************)
\* The accepted index of the epoch's runtime, or of the one that would be
\* created.
Tip(e) == IF runtimes[e]["first"] = Absent THEN storedGrabber[e]
          ELSE runtimes[e]["first"]

Chain(e) == INSTANCE EpochChain WITH
    NoBlock <- "none",
    blocks  <- BLOCKS[e],
    tip     <- Tip(e),
    durable <- storedGrabber[e],
    open    <- e \notin finished

\* Though the generation thread reads the accepted index and writes its
\* block much later, though rotations and crashes come between, and though
\* threads work on through old copies of the window: until an epoch is
\* marked as finished, its chain is written as in BlockFinalization, where
\* reading and writing are one step.
ImplementsEpochChain ==
    /\ \A e \in Epochs : Chain(e)!Init
    /\ [][\A e \in Epochs : [Chain(e)!Next]_(Chain(e)!epochVars)]_vars

-----------------------------------------------------------------------------
(***************************************************************************)
(* Liveness.  Every epoch expires, and each thread goes on: weak fairness  *)
(* of the rotation (the Go write lock lets no new reader in while it       *)
(* waits), of the generation thread, of the handlers and of the share      *)
(* thread.  The generation thread waits for the mutex of a runtime, which  *)
(* the share thread takes again and again; a sync.Mutex does not starve    *)
(* it, hence the strong fairness of ReadApprovedIndex.  That the quorum    *)
(* finalizes a block it is asked for again and again is what               *)
(* BlockFinalization shows; here it is strong fairness.                    *)
(***************************************************************************)
Fairness ==
    /\ WF_vars(RotationNext)
    /\ WF_vars(GeneratorNext)
    /\ WF_vars(SharerNext)
    /\ SF_vars(ReadApprovedIndex)
    /\ SF_vars(RoundFinalizes)
    /\ \A e \in Epochs : WF_vars(FinishProof(e))

FairSpec == Spec /\ Fairness

\* Whatever a crash interrupted, an epoch that is marked as finished leaves
\* the window, in memory and on disk, for ever.
FinishedEpochsLeave ==
    \A e \in Epochs :
        e \in finished ~> [](~InWindow(e, window) /\ ~InWindow(e, storedWindow))

\* The epoch that stays in the window gets all its blocks, and they are
\* finalized, beside the epochs that end and through restarts.
LastEpochCompletes ==
    <>(storedGeneration[MaxEpoch] = MaxIndex + 1
        /\ runtimes[MaxEpoch]["first"] = MaxIndex)
=============================================================================
