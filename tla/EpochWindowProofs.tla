-------------------------- MODULE EpochWindowProofs -------------------------
(***************************************************************************)
(* The safety properties of EpochWindow for every window size, number of   *)
(* epochs, blocks and restarts, and every legacy index.                    *)
(*                                                                         *)
(* WindowInv is inductive.  Each of its parts has a lemma that every step  *)
(* preserves it, with one case per action that the part can notice.        *)
(***************************************************************************)
EXTENDS EpochWindow, TLAPS

-----------------------------------------------------------------------------
(***************************************************************************)
(* Facts about the operators.                                              *)
(***************************************************************************)
LEMMA ConstantTypes ==
    /\ MaxEpochsToSupport \in Nat /\ MaxEpochsToSupport > 0
    /\ MaxEpoch \in Nat /\ MaxIndex \in Nat /\ MaxRestarts \in Nat
    /\ LegacyIndex \in 0 .. MaxIndex + 1
BY WindowAssumption, BoundAssumption

\* A window that fits is loaded as it is.
LEMMA FittingWindow ==
    ASSUME NEW w \in Window, w.last - w.first < MaxEpochsToSupport
    PROVE  EnsureEpochWindow(w) = w
BY ConstantTypes DEF EnsureEpochWindow, Window, Epochs

LEMMA LoadedType ==
    ASSUME NEW w,
           NEW stored \in [Epochs -> 0 .. MaxIndex + 1 \cup {Absent}]
    PROVE  LoadGeneration(w, stored)
             \in [Epochs -> 0 .. MaxIndex + 1 \cup {Absent}]
BY ConstantTypes DEF LoadGeneration

\* An object in use is the first one of its epoch while nothing of the epoch
\* has been removed.
LEMMA CurrentIsFirst ==
    ASSUME NEW e, NEW removed, NEW ended, removed \subseteq ended, e \notin ended
    PROVE  Current(e, removed) = "first"
BY DEF Current

LEMMA NextIndexType ==
    ASSUME NEW m \in 0 .. MaxIndex + 1 \cup {Absent}
    PROVE  /\ NextIndex(m) \in 0 .. MaxIndex + 1
           /\ NextIndex(NextIndex(m)) = NextIndex(m)
BY ConstantTypes DEF NextIndex, Absent

\* A thread goes on to the next epoch of its copy, or goes to sleep.
LEMMA NextEpochType ==
    /\ \A g \in Generator : NextEpoch(g) \in Generator
    /\ \A s \in Sharer : NextEpoch(s) \in Sharer
<1>1. ASSUME NEW g \in Generator PROVE NextEpoch(g) \in Generator
  <2>1. g.epoch \in Epochs /\ g.last \in Epochs
    BY DEF Generator
  <2>2. g.epoch < g.last => g.epoch + 1 \in Epochs
    BY <2>1, ConstantTypes DEF Epochs
  <2>3. ASSUME NEW n \in Epochs
        PROVE  [g EXCEPT !.epoch = n, !.pc = "ensure"] \in Generator
    BY DEF Generator
  <2>4. [g EXCEPT !.pc = Idle] \in Generator
    BY DEF Generator
  <2> QED  BY <2>2, <2>3, <2>4 DEF NextEpoch
<1>2. ASSUME NEW s \in Sharer PROVE NextEpoch(s) \in Sharer
  <2>1. s.epoch \in Epochs /\ s.last \in Epochs
    BY DEF Sharer
  <2>2. s.epoch < s.last => s.epoch + 1 \in Epochs
    BY <2>1, ConstantTypes DEF Epochs
  <2>3. ASSUME NEW n \in Epochs
        PROVE  [s EXCEPT !.epoch = n, !.pc = "ensure"] \in Sharer
    BY DEF Sharer
  <2>4. [s EXCEPT !.pc = Idle] \in Sharer
    BY DEF Sharer
  <2> QED  BY <2>2, <2>3, <2>4 DEF NextEpoch
<1> QED  BY <1>1, <1>2

LEMMA CopyType ==
    ASSUME window \in Window
    PROVE  /\ generator \in Generator => CopyWindow(generator) \in Generator
           /\ sharer \in Sharer => CopyWindow(sharer) \in Sharer
BY DEF Window, CopyWindow, Generator, Sharer

LEMMA EnsureType ==
    ASSUME TypeOK, NEW e \in Epochs, EnsureFinalizationRuntime(e)
    PROVE  /\ runtimes' \in [Epochs -> [Objects -> Indices \cup {-1, Absent}]]
           /\ Current(e, runtimeRemoved) \in Objects
           /\ runtimes'[e][Current(e, runtimeRemoved)] # Absent
           /\ \A d \in Epochs, o \in Objects :
                runtimes[d][o] # Absent => runtimes'[d][o] = runtimes[d][o]
           /\ \A d \in Epochs, o \in Objects :
                \/ runtimes'[d][o] = runtimes[d][o]
                \/ runtimes[d][o] = Absent /\ runtimes'[d][o] = storedGrabber[d]
<1> DEFINE object == Current(e, runtimeRemoved)
<1>1. object \in Objects
  BY DEF Current, Objects
<1>2. storedGrabber[e] \in Indices \cup {-1} /\ storedGrabber[e] # Absent
  BY ConstantTypes DEF TypeOK, Indices, Absent
<1>3. runtimes' = [runtimes EXCEPT ![e][object] =
                     IF @ = Absent THEN storedGrabber[e] ELSE @]
  BY DEF EnsureFinalizationRuntime
<1>4. runtimes \in [Epochs -> [Objects -> Indices \cup {-1, Absent}]]
  BY DEF TypeOK
<1> HIDE DEF object
<1> QED  BY <1>1, <1>2, <1>3, <1>4 DEF object

-----------------------------------------------------------------------------
(***************************************************************************)
(* Types.                                                                  *)
(***************************************************************************)
LEMMA TypeInit == Init => TypeOK
<1> SUFFICES ASSUME Init PROVE TypeOK
  OBVIOUS
<1>1. window \in Window /\ storedWindow = window
  BY ConstantTypes DEF Init, Window, Epochs
<1>2. storedGeneration \in [Epochs -> 0 .. MaxIndex + 1 \cup {Absent}]
  BY DEF Init
<1>3. LoadGeneration(window, storedGeneration)
        \in [Epochs -> 0 .. MaxIndex + 1 \cup {Absent}]
  BY <1>2, LoadedType
<1>4. generation \in [Epochs -> [Objects -> 0 .. MaxIndex + 1 \cup {Absent}]]
  BY <1>3 DEF Init, NoObjects
<1>5. generator \in Generator /\ sharer \in Sharer
  BY ConstantTypes DEF Init, Generator, Sharer, Epochs, Objects
<1>6. runtimes \in [Epochs -> [Objects -> Indices \cup {-1, Absent}]]
  BY DEF Init, NoObjects
<1>7. BLOCKS \in [Epochs -> [Indices -> {"none", "once", "again"}]]
  BY DEF Init
<1>8. archived \in SUBSET Epochs
  BY ConstantTypes DEF Init, Epochs
<1>9. storedGrabber \in [Epochs -> Indices \cup {-1}]
  BY DEF Init
<1>10. /\ finished = {} /\ metadataRemoved = {} /\ runtimeRemoved = {}
       /\ proving = {} /\ rotation = Idle /\ restarts \in 0 .. MaxRestarts
  BY ConstantTypes DEF Init
<1> QED  BY <1>1, <1>2, <1>4, <1>5, <1>6, <1>7, <1>8, <1>9, <1>10 DEF TypeOK

LEMMA TypeRestart ==
    ASSUME TypeOK, WindowFollowsRotation, Restart
    PROVE  TypeOK' /\ window' = storedWindow /\ finished' = finished
           /\ storedGeneration' = storedGeneration
           /\ generation' = [e \in Epochs |-> [NoObjects EXCEPT !["first"] =
                LoadGeneration(storedWindow, storedGeneration)[e]]]
<1> USE DEF TypeOK
<1>1. EnsureEpochWindow(storedWindow) = storedWindow
  BY FittingWindow DEF WindowFollowsRotation
<1>2. {e \in Epochs : InWindow(e, storedWindow)
                        /\ ~InWindow(e, EnsureEpochWindow(storedWindow))} = {}
  BY <1>1
<1>3. [e \in Epochs |-> IF e \in {} THEN Absent ELSE storedGeneration[e]]
        = storedGeneration
  OBVIOUS
<1>4. finished' = finished /\ storedGeneration' = storedGeneration
      /\ Started(storedWindow, storedGeneration)
  BY <1>1, <1>2, <1>3 DEF Restart
<1>5. LoadGeneration(storedWindow, storedGeneration)
        \in [Epochs -> 0 .. MaxIndex + 1 \cup {Absent}]
  BY LoadedType
<1>6. generation' = [e \in Epochs |-> [NoObjects EXCEPT !["first"] =
        LoadGeneration(storedWindow, storedGeneration)[e]]]
  BY <1>4 DEF Started
<1>7. generation' \in [Epochs -> [Objects -> 0 .. MaxIndex + 1 \cup {Absent}]]
  BY <1>5, <1>6 DEF NoObjects
<1>8. generator' \in Generator /\ sharer' \in Sharer
  BY <1>4 DEF Started, Generator, Sharer
<1>9. runtimes' \in [Epochs -> [Objects -> Indices \cup {-1, Absent}]]
  BY <1>4 DEF Started, NoObjects
<1>10. restarts' \in 0 .. MaxRestarts
  BY ConstantTypes DEF Restart
<1> QED  BY <1>4, <1>6, <1>7, <1>8, <1>9, <1>10 DEF Restart, Started

LEMMA TypeRotation ==
    ASSUME TypeOK, WindowFollowsRotation, RotationNext
    PROVE  TypeOK'
<1> USE DEF TypeOK, storeVars, objectVars
<1>1. CASE WaitForLock
  BY <1>1 DEF WaitForLock
<1>2. CASE LockForRotation
  BY <1>2 DEF LockForRotation, Window
<1>3. CASE AppendEpoch
  <2>1. window.last + 1 \in Epochs
    BY <1>3, ConstantTypes
    DEF AppendEpoch, WindowFollowsRotation, Window, Epochs, Idle
  <2> QED  BY <1>3, <2>1 DEF AppendEpoch, Window
<1>4. CASE FinishOldest
  <2>1. window.first + 1 \in Epochs /\ window.last + 1 \in Epochs
    BY <1>4, ConstantTypes
    DEF FinishOldest, WindowFollowsRotation, Window, Epochs, Idle
  <2> QED  BY <1>4, <2>1 DEF FinishOldest, Window
<1>5. CASE RemoveFinalizationRuntime
  <2>1. Dropped \in Epochs
    BY <1>5, ConstantTypes DEF RemoveFinalizationRuntime,
       WindowFollowsRotation, Slid, Dropped, Window, Epochs
  <2> QED  BY <1>5, <2>1 DEF RemoveFinalizationRuntime
<1>6. CASE RemoveGenerationMetadata
  <2>1. Dropped \in Epochs
    BY <1>6, ConstantTypes DEF RemoveGenerationMetadata,
       WindowFollowsRotation, Slid, Dropped, Window, Epochs
  <2> QED  BY <1>6, <2>1 DEF RemoveGenerationMetadata
<1>7. CASE DeleteGeneration
  BY <1>7 DEF DeleteGeneration
<1>8. CASE StoreWindow
  BY <1>8 DEF StoreWindow
<1> QED  BY <1>1, <1>2, <1>3, <1>4, <1>5, <1>6, <1>7, <1>8 DEF RotationNext

LEMMA TypeGenerator ==
    ASSUME TypeOK, PointersHold, GeneratorNext
    PROVE  TypeOK'
<1> USE DEF TypeOK, storeVars, objectVars
<1>1. CASE WakeGenerator
  BY <1>1, CopyType DEF WakeGenerator
<1>2. CASE GeneratorEnsures
  <2>1. generator.epoch \in Epochs
    BY DEF Generator
  <2>2. /\ runtimes' \in [Epochs -> [Objects -> Indices \cup {-1, Absent}]]
        /\ Current(generator.epoch, runtimeRemoved) \in Objects
    BY <1>2, <2>1, EnsureType DEF GeneratorEnsures
  <2>3. generator' \in Generator
    BY <1>2, <2>2 DEF GeneratorEnsures, Generator
  <2> QED  BY <1>2, <2>2, <2>3 DEF GeneratorEnsures
<1>3. CASE ReadApprovedIndex
  <2>1. generator.epoch \in Epochs /\ generator.runtime \in Objects
    BY DEF Generator
  <2>2. runtimes[generator.epoch][generator.runtime] \in Indices \cup {-1}
    BY <1>3, <2>1 DEF ReadApprovedIndex, PointersHold
  <2>3. generator' \in Generator
    BY <1>3, <2>2 DEF ReadApprovedIndex, Generator
  <2> QED  BY <1>3, <2>3 DEF ReadApprovedIndex
<1>4. CASE GetGenerationMetadata
  <2> DEFINE e == generator.epoch
             object == Current(e, metadataRemoved)
             next == NextIndex(generation[e][object])
  <2>1. e \in Epochs /\ object \in Objects
    BY DEF Generator, Current, Objects
  <2>2. next \in 0 .. MaxIndex + 1
    BY <2>1, NextIndexType
  <2>3. [generator EXCEPT !.pc = "write", !.metadata = object] \in Generator
        /\ NextEpoch(generator) \in Generator
    BY <2>1, NextEpochType DEF Generator
  <2>4. /\ generation' = [generation EXCEPT ![e][object] = next]
        /\ generator' \in Generator
    BY <1>4, <2>3 DEF GetGenerationMetadata
  <2> HIDE DEF e, object, next
  <2>5. generation'
          \in [Epochs -> [Objects -> 0 .. MaxIndex + 1 \cup {Absent}]]
    BY <2>1, <2>2, <2>4
  <2> QED  BY <1>4, <2>4, <2>5 DEF GetGenerationMetadata
<1>5. CASE WriteBlock
  <2> DEFINE e == generator.epoch
             next == generation[e][generator.metadata]
  <2>1. e \in Epochs /\ generator.metadata \in Objects /\ next \in Indices
    BY <1>5 DEF WriteBlock, PointersHold, Generator
  <2>2. next + 1 \in 0 .. MaxIndex + 1
    BY <2>1, ConstantTypes DEF Indices
  <2>3. /\ generation' = [generation EXCEPT ![e][generator.metadata] = next + 1]
        /\ storedGeneration' = [storedGeneration EXCEPT ![e] = next + 1]
        /\ BLOCKS' = [BLOCKS EXCEPT ![e][next] =
                        IF @ = "none" THEN "once" ELSE "again"]
        /\ generator' \in Generator
    BY <1>5, NextEpochType DEF WriteBlock
  <2> HIDE DEF e, next
  <2>4. /\ generation'
             \in [Epochs -> [Objects -> 0 .. MaxIndex + 1 \cup {Absent}]]
        /\ storedGeneration' \in [Epochs -> 0 .. MaxIndex + 1 \cup {Absent}]
    BY <2>1, <2>2, <2>3
  <2>5. BLOCKS' \in [Epochs -> [Indices -> {"none", "once", "again"}]]
    BY <2>1, <2>3
  <2> QED  BY <1>5, <2>3, <2>4, <2>5 DEF WriteBlock
<1> QED  BY <1>1, <1>2, <1>3, <1>4, <1>5 DEF GeneratorNext

LEMMA TypeSharer ==
    ASSUME TypeOK, SharerNext
    PROVE  TypeOK'
<1> USE DEF TypeOK, storeVars, objectVars
<1>1. CASE WakeSharer
  BY <1>1, CopyType DEF WakeSharer
<1>2. CASE BeginRound
  <2>1. sharer.epoch \in Epochs
    BY DEF Sharer
  <2>2. /\ runtimes' \in [Epochs -> [Objects -> Indices \cup {-1, Absent}]]
        /\ Current(sharer.epoch, runtimeRemoved) \in Objects
    BY <1>2, <2>1, EnsureType DEF BeginRound
  <2>3. sharer' \in Sharer
    BY <1>2, <2>2 DEF BeginRound, Sharer
  <2> QED  BY <1>2, <2>2, <2>3 DEF BeginRound
<1>3. CASE RoundFinalizes
  <2> DEFINE e == sharer.epoch
             accepted == runtimes[e][sharer.runtime]
  <2>1. e \in Epochs /\ sharer.runtime \in Objects
    BY DEF Sharer
  <2>2. accepted + 1 \in Indices /\ accepted \in Indices \cup {-1, Absent}
    BY <1>3, <2>1 DEF RoundFinalizes
  <2>3. accepted \in Indices \cup {-1}
    BY <2>2, ConstantTypes DEF Indices, Absent
  <2>4. /\ storedGrabber' = [storedGrabber EXCEPT ![e] = accepted]
        /\ runtimes' = [runtimes EXCEPT ![e][sharer.runtime] = accepted + 1]
        /\ sharer' \in Sharer
    BY <1>3, NextEpochType DEF RoundFinalizes
  <2> HIDE DEF e, accepted
  <2>5. /\ storedGrabber' \in [Epochs -> Indices \cup {-1}]
        /\ runtimes' \in [Epochs -> [Objects -> Indices \cup {-1, Absent}]]
    BY <2>1, <2>2, <2>3, <2>4
  <2> QED  BY <1>3, <2>4, <2>5 DEF RoundFinalizes
<1>4. CASE RoundFails
  BY <1>4, NextEpochType DEF RoundFails
<1> QED  BY <1>1, <1>2, <1>3, <1>4 DEF SharerNext

LEMMA TypeProof ==
    ASSUME TypeOK, NEW e \in Epochs, BeginProof(e) \/ FinishProof(e)
    PROVE  TypeOK'
BY DEF TypeOK, storeVars, objectVars, BeginProof, FinishProof

LEMMA TypeStep == WindowInv /\ [Next]_vars => TypeOK'
<1> SUFFICES ASSUME WindowInv, [Next]_vars PROVE TypeOK'
  OBVIOUS
<1>1. TypeOK /\ WindowFollowsRotation /\ PointersHold
  BY DEF WindowInv
<1>2. CASE UNCHANGED vars
  BY <1>1, <1>2 DEF vars, storeVars, objectVars, threadVars, TypeOK
<1> QED  BY <1>1, <1>2, TypeRotation, TypeGenerator, TypeSharer, TypeProof,
            TypeRestart DEF Next

-----------------------------------------------------------------------------
(***************************************************************************)
(* The window and the rotation.                                            *)
(***************************************************************************)
LEMMA WindowFollowsRotationStep ==
    WindowInv /\ [Next]_vars => WindowFollowsRotation'
<1> SUFFICES ASSUME WindowInv, [Next]_vars PROVE WindowFollowsRotation'
  OBVIOUS
<1> USE DEF WindowFollowsRotation, Slid, Grown, Idle
<1>1. /\ WindowFollowsRotation
      /\ TypeOK
      /\ storedWindow \in Window /\ window \in Window
      /\ MaxEpochsToSupport \in Nat /\ MaxEpochsToSupport > 0
      /\ MaxEpoch \in Nat
  BY ConstantTypes DEF WindowInv, TypeOK
<1>2. /\ storedWindow.first \in Int /\ storedWindow.last \in Int
      /\ window.first \in Int /\ window.last \in Int
  BY <1>1 DEF Window, Epochs
<1>3. CASE UNCHANGED <<storedWindow, window, rotation, finished, proving,
                       archived>>
  BY <1>1, <1>3
<1>4. CASE WaitForLock
  BY <1>1, <1>4 DEF WaitForLock, storeVars
<1>5. CASE LockForRotation
  BY <1>1, <1>5 DEF LockForRotation
<1>6. CASE AppendEpoch
  <2>1. window' = Grown(storedWindow)
    BY <1>1, <1>6 DEF AppendEpoch, Window
  <2>2. window'.last - window'.first < MaxEpochsToSupport
    BY <1>1, <1>2, <1>6, <2>1 DEF AppendEpoch, WindowIsFull
  <2> QED  BY <1>1, <1>6, <2>1, <2>2 DEF AppendEpoch, storeVars
<1>7. CASE FinishOldest
  BY <1>1, <1>7 DEF FinishOldest
<1>8. CASE RemoveFinalizationRuntime
  BY <1>1, <1>8 DEF RemoveFinalizationRuntime, storeVars
<1>9. CASE RemoveGenerationMetadata
  BY <1>1, <1>9 DEF RemoveGenerationMetadata, storeVars
<1>10. CASE DeleteGeneration
  BY <1>1, <1>10 DEF DeleteGeneration
<1>11. CASE StoreWindow
  BY <1>1, <1>2, <1>11 DEF StoreWindow
<1>12. CASE GeneratorNext
  BY <1>3, <1>12 DEF GeneratorNext, WakeGenerator, GeneratorEnsures,
     ReadApprovedIndex, GetGenerationMetadata, WriteBlock, storeVars
<1>13. CASE SharerNext
  BY <1>3, <1>13 DEF SharerNext, WakeSharer, BeginRound, RoundFinalizes,
     RoundFails, storeVars
<1>14. ASSUME NEW e \in Epochs, BeginProof(e) \/ FinishProof(e)
       PROVE  WindowFollowsRotation'
  BY <1>1, <1>14 DEF BeginProof, FinishProof, storeVars
<1>15. CASE Restart
  <2>1. window' = storedWindow /\ rotation' = Idle
    BY <1>1, <1>15, TypeRestart DEF Restart, Started
  <2> QED  BY <1>1, <1>15, <2>1 DEF Restart
<1> QED  BY <1>3, <1>4, <1>5, <1>6, <1>7, <1>8, <1>9, <1>10, <1>11, <1>12,
            <1>13, <1>14, <1>15
         DEF Next, RotationNext, vars, storeVars, threadVars

\* The epoch the rotation cleans up after is the oldest of the stored window.
LEMMA DroppedIsFinished ==
    ASSUME WindowInv, rotation \in {"marked", "runtime", "metadata"}
    PROVE  Dropped = storedWindow.first /\ Dropped \in finished
BY DEF WindowInv, TypeOK, WindowFollowsRotation, Slid, Dropped, Window, Epochs

LEMMA EndedInOrderStep == WindowInv /\ [Next]_vars => EndedInOrder'
<1> SUFFICES ASSUME WindowInv, [Next]_vars PROVE EndedInOrder'
  OBVIOUS
<1> USE DEF EndedInOrder
<1>1. /\ EndedInOrder /\ WindowFollowsRotation /\ TypeOK
      /\ storedWindow.first \in Int /\ storedWindow.last \in Int
      /\ finished \subseteq Epochs /\ Epochs \subseteq Int
  BY DEF WindowInv, TypeOK, Window, Epochs
<1>2. CASE UNCHANGED <<storedWindow, finished, archived, runtimeRemoved,
                       metadataRemoved>>
  BY <1>1, <1>2
<1>3. CASE LockForRotation
  BY <1>1, <1>3 DEF LockForRotation, objectVars
<1>4. CASE FinishOldest
  <2>1. window.first = storedWindow.first
    BY <1>1, <1>4 DEF FinishOldest, WindowFollowsRotation
  <2> QED  BY <1>1, <1>4, <2>1 DEF FinishOldest, objectVars
<1>5. CASE RemoveFinalizationRuntime
  BY <1>1, <1>5, DroppedIsFinished DEF RemoveFinalizationRuntime, storeVars
<1>6. CASE RemoveGenerationMetadata
  BY <1>1, <1>6, DroppedIsFinished DEF RemoveGenerationMetadata, storeVars
<1>7. CASE StoreWindow
  <2>1. /\ \/ /\ storedWindow'.first = storedWindow.first + 1
              /\ storedWindow.first \in finished
           \/ storedWindow'.first = storedWindow.first
        /\ storedWindow'.last = storedWindow.last + 1
        /\ storedWindow.last \in archived
    BY <1>1, <1>7 DEF StoreWindow, WindowFollowsRotation, Slid, Grown, Idle
  <2>2. /\ finished' = finished /\ archived' = archived
        /\ runtimeRemoved' = runtimeRemoved
        /\ metadataRemoved' = metadataRemoved
    BY <1>7 DEF StoreWindow, objectVars
  <2> QED  BY <1>1, <2>1, <2>2
<1>8. CASE WaitForLock \/ AppendEpoch \/ DeleteGeneration
  BY <1>2, <1>8 DEF WaitForLock, AppendEpoch, DeleteGeneration, storeVars,
     objectVars
<1>9. CASE GeneratorNext
  BY <1>2, <1>9 DEF GeneratorNext, WakeGenerator, GeneratorEnsures,
     ReadApprovedIndex, GetGenerationMetadata, WriteBlock, storeVars,
     objectVars
<1>10. CASE SharerNext
  BY <1>2, <1>10 DEF SharerNext, WakeSharer, BeginRound, RoundFinalizes,
     RoundFails, storeVars, objectVars
<1>11. ASSUME NEW e \in Epochs, BeginProof(e) \/ FinishProof(e)
       PROVE  EndedInOrder'
  BY <1>2, <1>11 DEF BeginProof, FinishProof, storeVars, objectVars
<1>12. CASE Restart
  <2>1. finished' = finished /\ runtimeRemoved' = {} /\ metadataRemoved' = {}
    BY <1>1, <1>12, TypeRestart DEF Restart, Started
  <2> QED  BY <1>1, <1>12, <2>1 DEF Restart
<1> QED  BY <1>2, <1>3, <1>4, <1>5, <1>6, <1>7, <1>8, <1>9, <1>10, <1>11,
            <1>12
         DEF Next, RotationNext, vars, storeVars, objectVars

\* No handler is at work while the rotation is, and none begins for an epoch
\* that is marked.
LEMMA NoProofStep == WindowInv /\ [Next]_vars => NoProofAfterFinish'
<1> SUFFICES ASSUME WindowInv, [Next]_vars PROVE NoProofAfterFinish'
  OBVIOUS
<1> USE DEF NoProofAfterFinish
<1>1. NoProofAfterFinish /\ WindowFollowsRotation /\ TypeOK
  BY DEF WindowInv
<1>2. CASE UNCHANGED <<proving, finished>>
  BY <1>1, <1>2
<1>3. CASE FinishOldest
  BY <1>1, <1>3 DEF FinishOldest, WindowFollowsRotation, Idle
<1>4. CASE RotationNext /\ ~FinishOldest
  BY <1>2, <1>4 DEF RotationNext, WaitForLock, LockForRotation, AppendEpoch,
     RemoveFinalizationRuntime, RemoveGenerationMetadata, DeleteGeneration,
     StoreWindow, storeVars
<1>5. CASE GeneratorNext
  BY <1>2, <1>5 DEF GeneratorNext, WakeGenerator, GeneratorEnsures,
     ReadApprovedIndex, GetGenerationMetadata, WriteBlock, storeVars
<1>6. CASE SharerNext
  BY <1>2, <1>6 DEF SharerNext, WakeSharer, BeginRound, RoundFinalizes,
     RoundFails, storeVars
<1>7. ASSUME NEW e \in Epochs, BeginProof(e) \/ FinishProof(e)
      PROVE  NoProofAfterFinish'
  BY <1>1, <1>7 DEF BeginProof, FinishProof, storeVars,
     SignalAboutEpochRotationExists
<1>8. CASE Restart
  BY <1>8 DEF Restart, Started
<1> QED  BY <1>2, <1>3, <1>4, <1>5, <1>6, <1>7, <1>8
         DEF Next, vars, storeVars, threadVars

-----------------------------------------------------------------------------
(***************************************************************************)
(* The threads.                                                            *)
(***************************************************************************)
LEMMA NextEpochPlace ==
    ASSUME NEW t, t \in Generator \/ t \in Sharer
    PROVE  /\ NextEpoch(t).pc \in {"ensure", Idle}
           /\ NextEpoch(t).last = t.last
           /\ NextEpoch(t).pc # Idle => NextEpoch(t).epoch <= t.last
<1>1. t.epoch \in Int /\ t.last \in Int
  BY DEF Generator, Sharer, Epochs
<1>2. CASE t.epoch < t.last
  <2>1. NextEpoch(t) = [t EXCEPT !.epoch = t.epoch + 1, !.pc = "ensure"]
    BY <1>2 DEF NextEpoch
  <2>2. t.epoch + 1 <= t.last
    BY <1>1, <1>2
  <2>3. /\ NextEpoch(t).pc = "ensure" /\ NextEpoch(t).last = t.last
        /\ NextEpoch(t).epoch = t.epoch + 1
    BY <2>1 DEF Generator, Sharer
  <2> QED  BY <2>2, <2>3
<1>3. CASE ~(t.epoch < t.last)
  <2>1. NextEpoch(t) = [t EXCEPT !.pc = Idle]
    BY <1>3 DEF NextEpoch
  <2> QED  BY <2>1 DEF Generator, Sharer
<1> QED  BY <1>2, <1>3

\* PointersHold, thread by thread.
GeneratorHolds ==
    /\ generator.pc # Idle =>
         generator.epoch <= generator.last /\ generator.last <= storedWindow.last
    /\ generator.pc = "approve" =>
         runtimes[generator.epoch][generator.runtime] # Absent
    /\ generator.pc = "write" =>
         /\ generation[generator.epoch][generator.metadata] \in Indices
         /\ generator.epoch \notin finished => generator.metadata = "first"

SharerHolds ==
    sharer.pc = "round" =>
      /\ runtimes[sharer.epoch][sharer.runtime] # Absent
      /\ sharer.epoch \notin finished => sharer.runtime = "first"

LEMMA PointersAre == PointersHold <=> GeneratorHolds /\ SharerHolds
BY DEF PointersHold, GeneratorHolds, SharerHolds

LEMMA GeneratorHoldsStep == WindowInv /\ [Next]_vars => GeneratorHolds'
<1> SUFFICES ASSUME WindowInv, [Next]_vars PROVE GeneratorHolds'
  OBVIOUS
<1> USE DEF GeneratorHolds
<1>1. /\ GeneratorHolds /\ WindowFollowsRotation /\ TypeOK /\ EndedInOrder
      /\ generator \in Generator /\ sharer \in Sharer
  BY PointersAre DEF WindowInv, TypeOK
<1>2. /\ generator.epoch \in Epochs /\ generator.runtime \in Objects
      /\ generator.metadata \in Objects /\ sharer.epoch \in Epochs
      /\ sharer.runtime \in Objects
  BY <1>1 DEF Generator, Sharer
<1>3. /\ generator.last \in Int /\ storedWindow.last \in Int
      /\ window.first \in Int /\ window.last \in Int
  BY <1>1 DEF Generator, TypeOK, Window, Epochs
<1>4. CASE /\ UNCHANGED <<generator, generation, runtimes>>
           /\ finished \subseteq finished'
           /\ storedWindow'.last >= storedWindow.last
           /\ storedWindow'.last \in Int
  BY <1>1, <1>3, <1>4
<1>5. CASE FinishOldest
  BY <1>3, <1>4, <1>5 DEF FinishOldest, objectVars
<1>6. CASE StoreWindow
  <2>1. storedWindow'.last >= storedWindow.last /\ storedWindow'.last \in Int
    BY <1>1, <1>3, <1>6 DEF StoreWindow, WindowFollowsRotation, Slid, Grown,
       Idle
  <2> QED  BY <1>4, <1>6, <2>1 DEF StoreWindow, objectVars
<1>7. CASE RotationNext /\ ~FinishOldest /\ ~StoreWindow
  BY <1>3, <1>4, <1>7 DEF RotationNext, WaitForLock, LockForRotation,
     AppendEpoch, RemoveFinalizationRuntime, RemoveGenerationMetadata,
     DeleteGeneration, storeVars, objectVars
<1>8. CASE WakeGenerator
  <2>1. /\ generator'.pc = "ensure" /\ generator'.epoch = window.first
        /\ generator'.last = window.last
    BY <1>1, <1>8 DEF WakeGenerator, CopyWindow, Generator
  <2>2. window = storedWindow /\ storedWindow.first <= storedWindow.last
    BY <1>1, <1>8 DEF WakeGenerator, WindowFollowsRotation
  <2> QED  BY <1>3, <1>8, <2>1, <2>2 DEF WakeGenerator, storeVars, Idle
<1>9. CASE GeneratorEnsures
  <2> DEFINE object == Current(generator.epoch, runtimeRemoved)
  <2>1. runtimes'[generator.epoch][object] # Absent
    BY <1>1, <1>2, <1>9, EnsureType DEF GeneratorEnsures
  <2>2. /\ generator'.pc = "approve" /\ generator'.epoch = generator.epoch
        /\ generator'.last = generator.last /\ generator'.runtime = object
    BY <1>1, <1>9 DEF GeneratorEnsures, Generator
  <2> QED  BY <1>1, <1>9, <2>1, <2>2 DEF GeneratorEnsures, storeVars, Idle
<1>10. CASE ReadApprovedIndex
  <2>1. /\ generator'.pc = "metadata" /\ generator'.epoch = generator.epoch
        /\ generator'.last = generator.last
    BY <1>1, <1>10 DEF ReadApprovedIndex, Generator
  <2> QED  BY <1>1, <1>10, <2>1 DEF ReadApprovedIndex, storeVars, Idle
<1>11. CASE GetGenerationMetadata
  <2> DEFINE e == generator.epoch
             object == Current(e, metadataRemoved)
             next == NextIndex(generation[e][object])
  <2>1. object \in Objects /\ (e \notin finished => object = "first")
    BY <1>1, CurrentIsFirst DEF EndedInOrder, Current, Objects
  <2>2. next \in 0 .. MaxIndex + 1
    BY <1>1, <1>2, <2>1, NextIndexType DEF TypeOK
  <2>3. generation' = [generation EXCEPT ![e][object] = next]
        /\ finished' = finished /\ storedWindow' = storedWindow
        /\ generator.pc = "metadata"
    BY <1>11 DEF GetGenerationMetadata, storeVars
  <2>4. CASE generator' = NextEpoch(generator)
    <3>1. /\ generator'.pc \in {"ensure", Idle}
          /\ generator'.last = generator.last
          /\ generator'.pc # Idle => generator'.epoch <= generator.last
      BY <1>1, <2>4, NextEpochPlace
    <3> QED  BY <1>1, <2>3, <3>1 DEF Idle
  <2>5. CASE /\ next <= MaxIndex
             /\ generator' = [generator EXCEPT !.pc = "write",
                                               !.metadata = object]
    <3>1. next \in Indices
      BY <2>2, <2>5, ConstantTypes DEF Indices
    <3>2. generation'[e][object] = next
      <4>1. generation \in [Epochs -> [Objects -> 0 .. MaxIndex + 1
                                                    \cup {Absent}]]
        BY <1>1 DEF TypeOK
      <4> HIDE DEF object, next
      <4> QED  BY <1>2, <2>1, <2>3, <4>1
    <3>3. /\ generator'.pc = "write" /\ generator'.epoch = e
          /\ generator'.last = generator.last /\ generator'.metadata = object
      BY <1>1, <2>5 DEF Generator
    <3> QED  BY <1>1, <2>1, <2>3, <3>1, <3>2, <3>3 DEF Idle
  <2> QED  BY <1>11, <2>4, <2>5 DEF GetGenerationMetadata
<1>12. CASE WriteBlock
  <2>1. /\ generator'.pc \in {"ensure", Idle}
        /\ generator'.last = generator.last
        /\ generator'.pc # Idle => generator'.epoch <= generator.last
    BY <1>1, <1>12, NextEpochPlace DEF WriteBlock
  <2> QED  BY <1>1, <1>12, <2>1 DEF WriteBlock, Idle
<1>13. CASE BeginRound
  <2>1. \A d \in Epochs, o \in Objects :
          runtimes[d][o] # Absent => runtimes'[d][o] = runtimes[d][o]
    BY <1>1, <1>2, <1>13, EnsureType DEF BeginRound
  <2> QED  BY <1>1, <1>2, <1>13, <2>1 DEF BeginRound, storeVars
<1>14. CASE RoundFinalizes
  <2> DEFINE accepted == runtimes[sharer.epoch][sharer.runtime]
  <2>1. /\ accepted + 1 \in Indices
        /\ runtimes' = [runtimes EXCEPT
                          ![sharer.epoch][sharer.runtime] = accepted + 1]
    BY <1>14 DEF RoundFinalizes
  <2>2. accepted + 1 # Absent
    BY <2>1 DEF Indices, Absent
  <2>3. runtimes \in [Epochs -> [Objects -> Indices \cup {-1, Absent}]]
    BY <1>1 DEF TypeOK
  <2> HIDE DEF accepted
  <2>4. \A d \in Epochs, o \in Objects :
          runtimes[d][o] # Absent => runtimes'[d][o] # Absent
    BY <1>2, <2>1, <2>2, <2>3
  <2> QED  BY <1>1, <1>2, <1>14, <2>4 DEF RoundFinalizes
<1>15. CASE WakeSharer \/ RoundFails
  BY <1>3, <1>4, <1>15 DEF WakeSharer, RoundFails, storeVars, objectVars
<1>16. ASSUME NEW e \in Epochs, BeginProof(e) \/ FinishProof(e)
       PROVE  GeneratorHolds'
  BY <1>3, <1>4, <1>16 DEF BeginProof, FinishProof, storeVars, objectVars
<1>17. CASE Restart
  BY <1>1, <1>17 DEF Restart, Started, Generator, Idle
<1>18. CASE UNCHANGED vars
  BY <1>3, <1>4, <1>18 DEF vars, storeVars, objectVars, threadVars
<1> QED  BY <1>5, <1>6, <1>7, <1>8, <1>9, <1>10, <1>11, <1>12, <1>13, <1>14,
            <1>15, <1>16, <1>17, <1>18
         DEF Next, GeneratorNext, SharerNext

LEMMA SharerHoldsStep == WindowInv /\ [Next]_vars => SharerHolds'
<1> SUFFICES ASSUME WindowInv, [Next]_vars PROVE SharerHolds'
  OBVIOUS
<1> USE DEF SharerHolds
<1>1. /\ SharerHolds /\ TypeOK /\ EndedInOrder
      /\ generator \in Generator /\ sharer \in Sharer
  BY PointersAre DEF WindowInv, TypeOK
<1>2. /\ generator.epoch \in Epochs /\ sharer.epoch \in Epochs
      /\ sharer.runtime \in Objects
  BY <1>1 DEF Generator, Sharer
<1>3. CASE UNCHANGED <<sharer, runtimes>> /\ finished \subseteq finished'
  BY <1>1, <1>3
<1>4. CASE RotationNext
  BY <1>3, <1>4 DEF RotationNext, WaitForLock, LockForRotation, AppendEpoch,
     FinishOldest, RemoveFinalizationRuntime, RemoveGenerationMetadata,
     DeleteGeneration, StoreWindow, storeVars, objectVars
<1>5. CASE GeneratorEnsures
  <2>1. \A d \in Epochs, o \in Objects :
          runtimes[d][o] # Absent => runtimes'[d][o] = runtimes[d][o]
    BY <1>1, <1>2, <1>5, EnsureType DEF GeneratorEnsures
  <2> QED  BY <1>1, <1>2, <1>5, <2>1 DEF GeneratorEnsures, storeVars
<1>6. CASE GeneratorNext /\ ~GeneratorEnsures
  BY <1>3, <1>6 DEF GeneratorNext, WakeGenerator, ReadApprovedIndex,
     GetGenerationMetadata, WriteBlock, storeVars, objectVars
<1>7. CASE WakeSharer
  BY <1>1, <1>7 DEF WakeSharer, CopyWindow, Sharer
<1>8. CASE BeginRound
  <2> DEFINE object == Current(sharer.epoch, runtimeRemoved)
  <2>1. runtimes'[sharer.epoch][object] # Absent
    BY <1>1, <1>2, <1>8, EnsureType DEF BeginRound
  <2>2. sharer.epoch \notin finished => object = "first"
    BY <1>1, CurrentIsFirst DEF EndedInOrder
  <2>3. sharer'.epoch = sharer.epoch /\ sharer'.runtime = object
    BY <1>1, <1>8 DEF BeginRound, Sharer
  <2> QED  BY <1>8, <2>1, <2>2, <2>3 DEF BeginRound, storeVars
<1>9. CASE RoundFinalizes \/ RoundFails
  <2>1. sharer' = NextEpoch(sharer)
    BY <1>9 DEF RoundFinalizes, RoundFails
  <2>2. sharer'.pc \in {"ensure", Idle}
    BY <1>1, <2>1, NextEpochPlace
  <2> QED  BY <2>2 DEF Idle
<1>10. ASSUME NEW e \in Epochs, BeginProof(e) \/ FinishProof(e)
       PROVE  SharerHolds'
  BY <1>3, <1>10 DEF BeginProof, FinishProof, storeVars, objectVars
<1>11. CASE Restart
  BY <1>1, <1>11 DEF Restart, Started, Sharer, Idle
<1>12. CASE UNCHANGED vars
  BY <1>3, <1>12 DEF vars, storeVars, objectVars, threadVars
<1> QED  BY <1>4, <1>5, <1>6, <1>7, <1>8, <1>9, <1>10, <1>11, <1>12
         DEF Next, SharerNext

\* What the generation thread knows of an epoch that is not finished stays
\* true: only the share thread changes the accepted index, and upwards.
LEMMA FollowsTipStep == WindowInv /\ [Next]_vars => GeneratorFollowsTip'
<1> SUFFICES ASSUME WindowInv, [Next]_vars PROVE GeneratorFollowsTip'
  OBVIOUS
<1> USE DEF GeneratorFollowsTip
<1>1. /\ GeneratorFollowsTip /\ GeneratorHolds /\ TypeOK /\ EndedInOrder
      /\ generator \in Generator /\ sharer \in Sharer
      /\ runtimes \in [Epochs -> [Objects -> Indices \cup {-1, Absent}]]
  BY PointersAre DEF WindowInv, TypeOK
<1>2. /\ generator.epoch \in Epochs /\ generator.runtime \in Objects
      /\ sharer.epoch \in Epochs /\ sharer.runtime \in Objects
      /\ "first" \in Objects /\ generator.accepted \in Int
  BY <1>1, ConstantTypes DEF Generator, Sharer, Objects, Indices
<1>3. CASE /\ UNCHANGED <<generator, generation, runtimes>>
           /\ finished \subseteq finished'
  BY <1>1, <1>3
<1>4. CASE RotationNext
  BY <1>3, <1>4 DEF RotationNext, WaitForLock, LockForRotation, AppendEpoch,
     FinishOldest, RemoveFinalizationRuntime, RemoveGenerationMetadata,
     DeleteGeneration, StoreWindow, storeVars, objectVars
<1>5. CASE WakeGenerator
  BY <1>1, <1>5 DEF WakeGenerator, CopyWindow, Generator
<1>6. CASE GeneratorEnsures
  <2>1. /\ generator'.pc = "approve" /\ generator'.epoch = generator.epoch
        /\ generator'.runtime = Current(generator.epoch, runtimeRemoved)
    BY <1>1, <1>6 DEF GeneratorEnsures, Generator
  <2>2. generator.epoch \notin finished =>
          Current(generator.epoch, runtimeRemoved) = "first"
    BY <1>1, CurrentIsFirst DEF EndedInOrder
  <2> QED  BY <1>6, <2>1, <2>2 DEF GeneratorEnsures, storeVars
<1>7. CASE ReadApprovedIndex
  <2>1. /\ generator.pc = "approve"
        /\ generator'.pc = "metadata" /\ generator'.epoch = generator.epoch
        /\ generator'.runtime = generator.runtime
        /\ generator'.accepted = runtimes[generator.epoch][generator.runtime]
        /\ runtimes' = runtimes /\ finished' = finished
    BY <1>1, <1>7
       DEF ReadApprovedIndex, Generator, storeVars, objectVars
  <2>2. runtimes[generator.epoch][generator.runtime] # Absent
    BY <1>1, <2>1 DEF GeneratorHolds
  <2>3. runtimes[generator.epoch][generator.runtime] \in Int
    BY <1>1, <1>2 DEF Indices, Absent
  <2> QED  BY <1>1, <2>1, <2>2, <2>3
<1>8. CASE GetGenerationMetadata
  <2> DEFINE e == generator.epoch
             object == Current(e, metadataRemoved)
             next == NextIndex(generation[e][object])
  <2>1. CASE generator' = NextEpoch(generator)
    <3>1. generator'.pc \in {"ensure", Idle}
      BY <1>1, <2>1, NextEpochPlace
    <3> QED  BY <3>1 DEF Idle
  <2>2. CASE /\ MayGenerate(next)
             /\ generator' = [generator EXCEPT !.pc = "write",
                                               !.metadata = object]
    <3>1. /\ generator.pc = "metadata" /\ next <= generator.accepted + 1
          /\ generator'.epoch = e /\ generator'.runtime = generator.runtime
          /\ generator'.accepted = generator.accepted
          /\ runtimes' = runtimes /\ finished' = finished
          /\ generation' = [generation EXCEPT ![e][object] = next]
      BY <1>1, <1>8, <2>2
         DEF GetGenerationMetadata, MayGenerate, Generator, storeVars
    <3>2. ASSUME e \notin finished PROVE generation'[e]["first"] = next
      <4>1. object = "first"
        BY <1>1, <3>2, CurrentIsFirst DEF EndedInOrder
      <4>2. generation \in [Epochs -> [Objects -> 0 .. MaxIndex + 1
                                                    \cup {Absent}]]
        BY <1>1 DEF TypeOK
      <4> HIDE DEF object, next
      <4> QED  BY <1>2, <3>1, <4>1, <4>2
    <3> QED  BY <1>1, <3>1, <3>2
  <2> QED  BY <1>8, <2>1, <2>2 DEF GetGenerationMetadata
<1>9. CASE WriteBlock
  <2>1. generator'.pc \in {"ensure", Idle}
    BY <1>1, <1>9, NextEpochPlace DEF WriteBlock
  <2> QED  BY <2>1 DEF Idle
<1>10. CASE BeginRound
  <2>1. \A d \in Epochs, o \in Objects :
          runtimes[d][o] # Absent => runtimes'[d][o] = runtimes[d][o]
    BY <1>1, <1>2, <1>10, EnsureType DEF BeginRound
  <2> QED  BY <1>1, <1>2, <1>10, <2>1 DEF BeginRound, storeVars
<1>11. CASE RoundFinalizes
  <2> DEFINE accepted == runtimes[sharer.epoch][sharer.runtime]
  <2>1. /\ accepted + 1 \in Indices
        /\ runtimes' = [runtimes EXCEPT
                          ![sharer.epoch][sharer.runtime] = accepted + 1]
        /\ UNCHANGED <<finished, generator, generation>>
    BY <1>11 DEF RoundFinalizes
  <2>2. accepted \in Int /\ accepted + 1 # Absent
    BY <1>1, <1>2, <2>1, ConstantTypes DEF Indices, Absent
  <2>3. accepted = runtimes[sharer.epoch][sharer.runtime]
    OBVIOUS
  <2> HIDE DEF accepted
  <2>4. \A d \in Epochs, o \in Objects :
          \/ runtimes'[d][o] = runtimes[d][o]
          \/ runtimes[d][o] = accepted /\ runtimes'[d][o] = accepted + 1
    BY <1>1, <1>2, <2>1, <2>3
  <2>5. \/ runtimes'[generator.epoch]["first"]
             = runtimes[generator.epoch]["first"]
        \/ /\ runtimes[generator.epoch]["first"] = accepted
           /\ runtimes'[generator.epoch]["first"] = accepted + 1
    BY <1>2, <2>4
  <2> QED  BY <1>1, <1>2, <2>1, <2>2, <2>5
<1>12. CASE WakeSharer \/ RoundFails
  BY <1>3, <1>12 DEF WakeSharer, RoundFails, storeVars, objectVars
<1>13. ASSUME NEW e \in Epochs, BeginProof(e) \/ FinishProof(e)
       PROVE  GeneratorFollowsTip'
  BY <1>3, <1>13 DEF BeginProof, FinishProof, storeVars, objectVars
<1>14. CASE Restart
  BY <1>1, <1>14 DEF Restart, Started, Generator, Idle
<1>15. CASE UNCHANGED vars
  BY <1>3, <1>15 DEF vars, storeVars, objectVars, threadVars
<1> QED  BY <1>4, <1>5, <1>6, <1>7, <1>8, <1>9, <1>10, <1>11, <1>12, <1>13,
            <1>14, <1>15
         DEF Next, GeneratorNext, SharerNext

-----------------------------------------------------------------------------
(***************************************************************************)
(* The blocks.                                                             *)
(***************************************************************************)
\* What the steps that touch blocks and generation metadata do, epoch by
\* epoch.
LEMMA WriteBlockEffect ==
    ASSUME WindowInv, WriteBlock
    PROVE  \E e \in Epochs, next \in Indices :
             /\ e <= storedWindow.last
             /\ e \notin finished =>
                  /\ generation[e]["first"] = next
                  /\ generation'[e]["first"] = next + 1
             /\ \A d \in Epochs : d # e =>
                  /\ generation'[d] = generation[d]
                  /\ storedGeneration'[d] = storedGeneration[d]
                  /\ BLOCKS'[d] = BLOCKS[d]
             /\ storedGeneration'[e] = next + 1
             /\ \A i \in Indices : i # next => BLOCKS'[e][i] = BLOCKS[e][i]
             /\ BLOCKS'[e][next] = IF BLOCKS[e][next] = "none"
                                   THEN "once" ELSE "again"
<1> DEFINE e == generator.epoch
           next == generation[e][generator.metadata]
<1>1. /\ TypeOK /\ generator \in Generator
      /\ PointersHold
      /\ generator.pc = "write"
  BY DEF WindowInv, TypeOK, WriteBlock
<1>2. e \in Epochs /\ generator.metadata \in Objects /\ next \in Indices
  BY <1>1 DEF PointersHold, Generator
<1>3. e <= storedWindow.last
  BY <1>1 DEF PointersHold, Generator, TypeOK, Window, Epochs, Idle
<1>4. e \notin finished => generator.metadata = "first"
  BY <1>1 DEF PointersHold
<1>5. /\ generation' = [generation EXCEPT ![e][generator.metadata] = next + 1]
      /\ storedGeneration' = [storedGeneration EXCEPT ![e] = next + 1]
      /\ BLOCKS' = [BLOCKS EXCEPT ![e][next] =
                      IF @ = "none" THEN "once" ELSE "again"]
  BY DEF WriteBlock
<1>6. /\ generation \in [Epochs -> [Objects -> 0 .. MaxIndex + 1
                                                 \cup {Absent}]]
      /\ storedGeneration \in [Epochs -> 0 .. MaxIndex + 1 \cup {Absent}]
      /\ BLOCKS \in [Epochs -> [Indices -> {"none", "once", "again"}]]
  BY <1>1 DEF TypeOK
<1>7. e \notin finished => generation[e]["first"] = next
  BY <1>4
<1> HIDE DEF e, next
<1>8. e \notin finished => generation'[e]["first"] = next + 1
  BY <1>2, <1>4, <1>5, <1>6
<1>9. \A d \in Epochs : d # e =>
        /\ generation'[d] = generation[d]
        /\ storedGeneration'[d] = storedGeneration[d]
        /\ BLOCKS'[d] = BLOCKS[d]
  BY <1>2, <1>5, <1>6
<1>10. storedGeneration'[e] = next + 1
  BY <1>2, <1>5, <1>6
<1>11. /\ \A i \in Indices : i # next => BLOCKS'[e][i] = BLOCKS[e][i]
       /\ BLOCKS'[e][next] = IF BLOCKS[e][next] = "none"
                             THEN "once" ELSE "again"
  BY <1>2, <1>5, <1>6
<1> QED  BY <1>2, <1>3, <1>7, <1>8, <1>9, <1>10, <1>11

LEMMA MetadataEffect ==
    ASSUME TypeOK, GetGenerationMetadata
    PROVE  \A d \in Epochs : NextIndex(generation'[d]["first"])
                               = NextIndex(generation[d]["first"])
<1> DEFINE e == generator.epoch
           object == Current(e, metadataRemoved)
           next == NextIndex(generation[e][object])
<1>1. e \in Epochs /\ object \in Objects /\ "first" \in Objects
  BY DEF TypeOK, Generator, Current, Objects
<1>2. NextIndex(next) = next
  BY <1>1, NextIndexType DEF TypeOK
<1>3. generation' = [generation EXCEPT ![e][object] = next]
  BY DEF GetGenerationMetadata
<1>4. generation \in [Epochs -> [Objects -> 0 .. MaxIndex + 1 \cup {Absent}]]
  BY DEF TypeOK
<1>5. next = NextIndex(generation[e][object])
  OBVIOUS
<1> HIDE DEF e, object, next
<1>6. ASSUME NEW d \in Epochs
      PROVE  NextIndex(generation'[d]["first"])
               = NextIndex(generation[d]["first"])
  <2>1. CASE d = e /\ object = "first"
    <3>1. generation'[d]["first"] = next
      BY <1>1, <1>3, <1>4, <2>1
    <3> QED  BY <1>2, <1>5, <2>1, <3>1
  <2>2. CASE ~(d = e /\ object = "first")
    <3>1. generation'[d]["first"] = generation[d]["first"]
      BY <1>1, <1>3, <1>4, <2>2
    <3> QED  BY <3>1
  <2> QED  BY <2>1, <2>2
<1> QED  BY <1>6

LEMMA DeleteEffect ==
    ASSUME WindowInv, DeleteGeneration
    PROVE  \A d \in Epochs \ finished :
             storedGeneration'[d] = storedGeneration[d]
BY DroppedIsFinished DEF DeleteGeneration, WindowInv, TypeOK

\* What is loaded for an epoch that is not finished: its GT key, or where an
\* epoch without one starts.
LEMMA LoadEffect ==
    ASSUME WindowInv, Restart
    PROVE  \A d \in Epochs \ finished :
             /\ NextIndex(generation'[d]["first"]) >= StoredIndex(d)
             /\ LegacyIndex = 0 =>
                  NextIndex(generation'[d]["first"])
                    = NextIndex(storedGeneration[d])
<1>1. /\ TypeOK /\ WindowFollowsRotation /\ EndedInOrder
      /\ storedGeneration \in [Epochs -> 0 .. MaxIndex + 1 \cup {Absent}]
      /\ storedWindow.first \in Int /\ storedWindow.last \in Int
  BY DEF WindowInv, TypeOK, Window, Epochs
<1> SUFFICES ASSUME NEW d \in Epochs, d \notin finished
             PROVE  /\ NextIndex(generation'[d]["first"]) >= StoredIndex(d)
                    /\ LegacyIndex = 0 =>
                         NextIndex(generation'[d]["first"])
                           = NextIndex(storedGeneration[d])
  OBVIOUS
<1> DEFINE loaded == LoadGeneration(storedWindow, storedGeneration)[d]
<1>2. generation'[d]["first"] = loaded
  <2>1. generation' = [c \in Epochs |-> [NoObjects EXCEPT !["first"] =
          LoadGeneration(storedWindow, storedGeneration)[c]]]
    BY <1>1, TypeRestart
  <2> QED  BY <2>1 DEF NoObjects, Objects
<1>3. d >= storedWindow.first /\ d \in Nat
  BY <1>1 DEF EndedInOrder, Epochs
<1>4. CASE d > storedWindow.last
  <2>1. loaded = Absent
    BY <1>1, <1>4, <1>3 DEF LoadGeneration, InWindow
  <2>2. storedGeneration[d] = Absent
    BY <1>4 DEF WindowInv, BlocksEndAtIndex
  <2>3. d # 0
    BY <1>1, <1>3, <1>4 DEF TypeOK, Window, Epochs
  <2> QED  BY <1>2, <2>1, <2>2, <2>3 DEF NextIndex, StoredIndex, StartIndex
<1>5. CASE ~(d > storedWindow.last) /\ storedGeneration[d] # Absent
  <2>1. loaded = storedGeneration[d]
    BY <1>1, <1>3, <1>5 DEF LoadGeneration, InWindow
  <2> QED  BY <1>1, <1>2, <1>5, <2>1 DEF NextIndex, StoredIndex
<1>6. CASE ~(d > storedWindow.last) /\ storedGeneration[d] = Absent
  <2>1. loaded \in {LegacyIndex, 0} /\ (d = 0 => loaded = LegacyIndex)
    BY <1>1, <1>3, <1>6 DEF LoadGeneration, InWindow, Epochs
  <2>2. NextIndex(loaded) = loaded /\ loaded \in Nat
    BY <2>1, ConstantTypes DEF NextIndex, Absent
  <2> QED  BY <1>2, <1>6, <2>1, <2>2, ConstantTypes
           DEF NextIndex, StoredIndex, StartIndex
<1> QED  BY <1>4, <1>5, <1>6

LEMMA BlocksStep ==
    WindowInv /\ [Next]_vars => BlocksEndAtIndex' /\ OnlyFinishedRewritten'
<1> SUFFICES ASSUME WindowInv, [Next]_vars
             PROVE  BlocksEndAtIndex' /\ OnlyFinishedRewritten'
  OBVIOUS
<1> USE DEF BlocksEndAtIndex, OnlyFinishedRewritten, StoredIndex, StartIndex
<1>1. /\ BlocksEndAtIndex /\ OnlyFinishedRewritten /\ TypeOK
      /\ storedWindow.last \in Int
      /\ finished \subseteq Epochs /\ Epochs \subseteq Int
      /\ Indices \subseteq Int
  BY DEF WindowInv, TypeOK, Window, Epochs, Indices
<1>2. CASE /\ UNCHANGED <<storedGeneration, generation, BLOCKS>>
           /\ finished \subseteq finished'
           /\ storedWindow'.last >= storedWindow.last
           /\ storedWindow'.last \in Int
  <2>1. \A d \in Epochs : d > storedWindow'.last => d > storedWindow.last
    BY <1>1, <1>2
  <2>2. \A d \in Epochs \ finished' : d \in Epochs \ finished
    BY <1>2
  <2>3. \A d \in Epochs : StoredIndex(d)' = StoredIndex(d)
    BY <1>2
  <2> HIDE DEF StoredIndex
  <2> QED  BY <1>1, <1>2, <2>1, <2>2, <2>3
<1>3. CASE StoreWindow
  <2>1. storedWindow'.last >= storedWindow.last /\ storedWindow'.last \in Int
    BY <1>1, <1>3 DEF StoreWindow, WindowInv, WindowFollowsRotation, Slid,
       Grown, Idle
  <2> QED  BY <1>2, <1>3, <2>1 DEF StoreWindow, objectVars
<1>4. CASE DeleteGeneration
  <2>1. \A d \in Epochs \ finished :
          storedGeneration'[d] = storedGeneration[d]
    BY <1>4, DeleteEffect
  <2>2. \A d \in Epochs : storedGeneration[d] = Absent =>
          storedGeneration'[d] = Absent
    BY <1>1, <1>4 DEF DeleteGeneration, TypeOK
  <2> QED  BY <1>1, <1>4, <2>1, <2>2 DEF DeleteGeneration, objectVars
<1>5. CASE FinishOldest
  BY <1>1, <1>2, <1>5 DEF FinishOldest, objectVars
<1>6. CASE RotationNext /\ ~StoreWindow /\ ~DeleteGeneration /\ ~FinishOldest
  BY <1>1, <1>2, <1>6 DEF RotationNext, WaitForLock, LockForRotation,
     AppendEpoch, RemoveFinalizationRuntime, RemoveGenerationMetadata,
     storeVars, objectVars
<1>7. CASE GetGenerationMetadata
  <2>1. \A d \in Epochs : NextIndex(generation'[d]["first"])
                            = NextIndex(generation[d]["first"])
    BY <1>1, <1>7, MetadataEffect
  <2> QED  BY <1>1, <1>7, <2>1 DEF GetGenerationMetadata, storeVars
<1>8. CASE WriteBlock
  <2>1. /\ finished' = finished /\ storedWindow' = storedWindow
    BY <1>8 DEF WriteBlock
  <2>2. PICK e \in Epochs, next \in Indices :
          /\ e <= storedWindow.last
          /\ e \notin finished =>
               /\ generation[e]["first"] = next
               /\ generation'[e]["first"] = next + 1
          /\ \A d \in Epochs : d # e =>
               /\ generation'[d] = generation[d]
               /\ storedGeneration'[d] = storedGeneration[d]
               /\ BLOCKS'[d] = BLOCKS[d]
          /\ storedGeneration'[e] = next + 1
          /\ \A i \in Indices : i # next => BLOCKS'[e][i] = BLOCKS[e][i]
          /\ BLOCKS'[e][next] = IF BLOCKS[e][next] = "none"
                                THEN "once" ELSE "again"
    BY <1>8, WriteBlockEffect
  <2>3. next \in Nat /\ next + 1 # Absent /\ next # Absent
    BY <2>2 DEF Indices, Absent
  <2>4. ASSUME e \notin finished
        PROVE  /\ StoredIndex(e) <= next /\ StoredIndex(e) \in Int
               /\ BLOCKS[e][next] = "none"
               /\ StoredIndex(e)' = next + 1
    <3>1. StoredIndex(e) \in Int
      BY <1>1, ConstantTypes DEF TypeOK, StartIndex
    <3>2. NextIndex(generation[e]["first"]) = next
      BY <2>2, <2>3, <2>4 DEF NextIndex
    <3>3. StoredIndex(e) <= next
      BY <1>1, <2>2, <2>4, <3>1, <3>2
    <3> QED  BY <1>1, <2>2, <2>3, <2>4, <3>1, <3>3
  <2>5. ASSUME e \notin finished
        PROVE  /\ \A i \in Indices : i >= StoredIndex(e)' =>
                    BLOCKS'[e][i] = "none"
               /\ NextIndex(generation'[e]["first"]) >= StoredIndex(e)'
               /\ \A i \in Indices : BLOCKS'[e][i] = "again" =>
                    BLOCKS[e][i] = "again"
    <3> HIDE DEF StoredIndex
    <3>1. NextIndex(generation'[e]["first"]) = next + 1
      BY <2>2, <2>3, <2>5 DEF NextIndex
    <3>2. \A i \in Indices : i >= next + 1 => i # next /\ i >= StoredIndex(e)
      BY <2>3, <2>4, <2>5 DEF Indices
    <3>3. /\ \A i \in Indices : i >= StoredIndex(e) => BLOCKS[e][i] = "none"
          /\ BLOCKS[e][next] = "none"
          /\ StoredIndex(e)' = next + 1
      BY <1>1, <2>4, <2>5
    <3>4. NextIndex(generation'[e]["first"]) >= StoredIndex(e)'
      BY <2>3, <3>1, <3>3
    <3>5. \A i \in Indices : i # next => BLOCKS'[e][i] = BLOCKS[e][i]
      BY <2>2
    <3>6. BLOCKS'[e][next] = "once"
      BY <2>2, <3>3
    <3>7. \A i \in Indices : i >= StoredIndex(e)' => BLOCKS'[e][i] = "none"
      BY <3>2, <3>3, <3>5
    <3> QED  BY <3>4, <3>5, <3>6, <3>7
  <2>6. \A d \in Epochs : d # e => StoredIndex(d)' = StoredIndex(d)
    BY <2>2 DEF StartIndex
  <2>7. \A d \in Epochs : d > storedWindow.last =>
          storedGeneration'[d] = Absent
    BY <1>1, <2>2
  <2>8. ASSUME NEW d \in Epochs \ finished
        PROVE  /\ \A i \in Indices : i >= StoredIndex(d)' =>
                    BLOCKS'[d][i] = "none"
               /\ NextIndex(generation'[d]["first"]) >= StoredIndex(d)'
               /\ \A i \in Indices : BLOCKS'[d][i] # "again"
    <3>1. CASE d = e
      BY <1>1, <2>5, <3>1
    <3>2. CASE d # e
      <4>1. /\ BLOCKS'[d] = BLOCKS[d] /\ generation'[d] = generation[d]
            /\ StoredIndex(d)' = StoredIndex(d)
        BY <2>2, <2>6, <3>2
      <4> HIDE DEF StoredIndex
      <4>2. /\ \A i \in Indices : i >= StoredIndex(d) => BLOCKS[d][i] = "none"
            /\ NextIndex(generation[d]["first"]) >= StoredIndex(d)
            /\ \A i \in Indices : BLOCKS[d][i] # "again"
        BY <1>1
      <4> QED  BY <4>1, <4>2
    <3> QED  BY <3>1, <3>2
  <2> HIDE DEF StoredIndex
  <2> QED  BY <2>1, <2>7, <2>8
<1>9. CASE GeneratorNext /\ ~GetGenerationMetadata /\ ~WriteBlock
  BY <1>1, <1>2, <1>9 DEF GeneratorNext, WakeGenerator, GeneratorEnsures,
     ReadApprovedIndex, storeVars, objectVars
<1>10. CASE SharerNext
  BY <1>1, <1>2, <1>10 DEF SharerNext, WakeSharer, BeginRound,
     RoundFinalizes, RoundFails, storeVars, objectVars
<1>11. ASSUME NEW e \in Epochs, BeginProof(e) \/ FinishProof(e)
       PROVE  BlocksEndAtIndex' /\ OnlyFinishedRewritten'
  BY <1>1, <1>2, <1>11 DEF BeginProof, FinishProof, storeVars, objectVars
<1>12. CASE Restart
  <2>1. finished' = finished /\ storedGeneration' = storedGeneration
    BY <1>1, <1>12, TypeRestart DEF WindowInv
  <2>2. \A d \in Epochs \ finished :
          NextIndex(generation'[d]["first"]) >= StoredIndex(d)
    BY <1>12, LoadEffect
  <2> QED  BY <1>1, <1>12, <2>1, <2>2 DEF Restart
<1>13. CASE UNCHANGED vars
  BY <1>1, <1>2, <1>13 DEF vars, storeVars, objectVars, threadVars
<1> QED  BY <1>3, <1>4, <1>5, <1>6, <1>7, <1>8, <1>9, <1>10, <1>11, <1>12,
            <1>13
         DEF Next

\* GenerationIntact, epoch by epoch.
IntactEpoch(e) ==
    LET next == NextIndex(storedGeneration[e])
    IN  /\ \A i \in Indices :
             BLOCKS[e][i] = IF i < next THEN "once" ELSE "none"
        /\ NextIndex(generation[e]["first"]) = next
        /\ storedGrabber[e] < next
        /\ runtimes[e]["first"] # Absent =>
             /\ runtimes[e]["first"] < next
             /\ storedGrabber[e] <= runtimes[e]["first"]
             /\ runtimes[e]["first"] <= storedGrabber[e] + 1

LEMMA IntactStep == WindowInv /\ [Next]_vars => GenerationIntact'
<1> SUFFICES ASSUME WindowInv, [Next]_vars, LegacyIndex = 0,
                    NEW d \in Epochs \ finished'
             PROVE  IntactEpoch(d)'
  BY DEF GenerationIntact, IntactEpoch
<1>1. /\ TypeOK /\ EndedInOrder /\ d \in Epochs
      /\ storedGrabber \in [Epochs -> Indices \cup {-1}]
      /\ BLOCKS \in [Epochs -> [Indices -> {"none", "once", "again"}]]
      /\ runtimes \in [Epochs -> [Objects -> Indices \cup {-1, Absent}]]
      /\ generator.epoch \in Epochs /\ sharer.epoch \in Epochs
      /\ sharer.runtime \in Objects /\ "first" \in Objects
  BY DEF WindowInv, TypeOK, Generator, Sharer, Objects
<1>2. ASSUME d \notin finished PROVE IntactEpoch(d)
  BY <1>1, <1>2 DEF WindowInv, GenerationIntact, IntactEpoch
<1>3. CASE /\ d \notin finished
           /\ UNCHANGED <<storedGeneration, storedGrabber, BLOCKS, generation,
                          runtimes>>
  BY <1>2, <1>3 DEF IntactEpoch
\* A runtime that is created has the accepted index of the stored grabber.
<1>4. ASSUME d \notin finished, NEW e \in Epochs, EnsureFinalizationRuntime(e),
             UNCHANGED <<storeVars, generation>>
      PROVE  IntactEpoch(d)'
  <2>1. \/ runtimes'[d]["first"] = runtimes[d]["first"]
        \/ /\ runtimes[d]["first"] = Absent
           /\ runtimes'[d]["first"] = storedGrabber[d]
    BY <1>1, <1>4, EnsureType
  <2>2. storedGrabber[d] \in Int
    BY <1>1 DEF Indices
  <2> QED  BY <1>2, <1>4, <2>1, <2>2 DEF IntactEpoch, storeVars
<1>5. CASE DeleteGeneration
  <2>1. d \notin finished
    BY <1>5 DEF DeleteGeneration
  <2>2. storedGeneration'[d] = storedGeneration[d]
    BY <1>1, <1>5, <2>1, DeleteEffect
  <2> QED  BY <1>2, <1>5, <2>1, <2>2 DEF DeleteGeneration, IntactEpoch,
           objectVars
<1>6. CASE RotationNext /\ ~DeleteGeneration
  BY <1>3, <1>6 DEF RotationNext, WaitForLock, LockForRotation, AppendEpoch,
     FinishOldest, RemoveFinalizationRuntime, RemoveGenerationMetadata,
     StoreWindow, storeVars, objectVars
<1>7. CASE GeneratorEnsures
  BY <1>1, <1>4, <1>7 DEF GeneratorEnsures, storeVars
<1>8. CASE GetGenerationMetadata
  <2>1. d \notin finished
    BY <1>8 DEF GetGenerationMetadata, storeVars
  <2>2. NextIndex(generation'[d]["first"]) = NextIndex(generation[d]["first"])
    BY <1>1, <1>8, MetadataEffect
  <2> QED  BY <1>2, <1>8, <2>1, <2>2 DEF GetGenerationMetadata, IntactEpoch,
           storeVars
<1>9. CASE WriteBlock
  <2>1. /\ finished' = finished /\ storedGrabber' = storedGrabber
        /\ runtimes' = runtimes
    BY <1>9 DEF WriteBlock
  <2>2. PICK e \in Epochs, next \in Indices :
          /\ e \notin finished =>
               /\ generation[e]["first"] = next
               /\ generation'[e]["first"] = next + 1
          /\ \A c \in Epochs : c # e =>
               /\ generation'[c] = generation[c]
               /\ storedGeneration'[c] = storedGeneration[c]
               /\ BLOCKS'[c] = BLOCKS[c]
          /\ storedGeneration'[e] = next + 1
          /\ \A i \in Indices : i # next => BLOCKS'[e][i] = BLOCKS[e][i]
          /\ BLOCKS'[e][next] = IF BLOCKS[e][next] = "none"
                                THEN "once" ELSE "again"
    BY <1>9, WriteBlockEffect
  <2>3. next \in Nat /\ NextIndex(next) = next /\ NextIndex(next + 1) = next + 1
    BY <2>2 DEF Indices, Absent, NextIndex
  <2>4. CASE d # e
    BY <1>1, <1>2, <2>1, <2>2, <2>4 DEF IntactEpoch
  <2>5. CASE d = e
    <3>1. IntactEpoch(e) /\ NextIndex(storedGeneration[e]) = next
      BY <1>2, <2>1, <2>2, <2>3, <2>5 DEF IntactEpoch
    <3>2. \A i \in Indices :
            BLOCKS'[e][i] = IF i < next + 1 THEN "once" ELSE "none"
      <4>1. BLOCKS'[e][next] = "once"
        BY <2>2, <2>3, <3>1 DEF IntactEpoch
      <4>2. \A i \in Indices : i # next => (i < next + 1 <=> i < next)
        BY <2>3 DEF Indices
      <4>3. \A i \in Indices : i # next =>
              BLOCKS'[e][i] = IF i < next THEN "once" ELSE "none"
        BY <2>2, <3>1 DEF IntactEpoch
      <4> QED  BY <2>3, <4>1, <4>2, <4>3
    <3>3. /\ NextIndex(storedGeneration'[e]) = next + 1
          /\ NextIndex(generation'[e]["first"]) = next + 1
      BY <2>1, <2>2, <2>3, <2>5
    <3>4. storedGrabber[e] < next + 1
      BY <1>1, <2>3, <2>5, <3>1 DEF IntactEpoch, Indices
    <3>5. runtimes[e]["first"] # Absent => runtimes[e]["first"] < next + 1
      BY <1>1, <2>3, <2>5, <3>1 DEF IntactEpoch, Indices, Absent
    <3> QED  BY <2>1, <2>5, <3>1, <3>2, <3>3, <3>4, <3>5 DEF IntactEpoch
  <2> QED  BY <2>4, <2>5
<1>10. CASE WakeGenerator \/ ReadApprovedIndex
  BY <1>3, <1>10 DEF WakeGenerator, ReadApprovedIndex, storeVars, objectVars
<1>11. CASE BeginRound
  BY <1>1, <1>4, <1>11 DEF BeginRound, storeVars
\* The runtime of an epoch that is not finished advances by a block that is
\* there, and leaves the stored grabber one behind.
<1>12. CASE RoundFinalizes
  <2> DEFINE e == sharer.epoch
             accepted == runtimes[e][sharer.runtime]
  <2>1. /\ finished' = finished /\ storedGeneration' = storedGeneration
        /\ generation' = generation /\ BLOCKS' = BLOCKS
        /\ accepted + 1 \in Indices /\ BLOCKS[e][accepted + 1] # "none"
        /\ storedGrabber' = [storedGrabber EXCEPT ![e] = accepted]
        /\ runtimes' = [runtimes EXCEPT ![e][sharer.runtime] = accepted + 1]
    BY <1>12 DEF RoundFinalizes
  <2>2. /\ accepted \in Indices \cup {-1}
        /\ e \notin finished => sharer.runtime = "first"
    BY <1>1, <1>12 DEF RoundFinalizes, WindowInv, PointersHold
  <2>3. e \in Epochs /\ d \notin finished
    BY <1>1, <2>1
  <2>4. CASE d # e
    <3> HIDE DEF e, accepted
    <3>1. runtimes'[d] = runtimes[d] /\ storedGrabber'[d] = storedGrabber[d]
      BY <1>1, <2>1, <2>3, <2>4
    <3> QED  BY <1>2, <2>1, <2>3, <3>1 DEF IntactEpoch
  <2>5. CASE d = e
    <3>1. sharer.runtime = "first"
      BY <2>2, <2>3, <2>5
    <3>2. /\ IntactEpoch(d) /\ BLOCKS[d][accepted + 1] # "none"
      BY <1>2, <2>1, <2>3, <2>5
    <3>3. accepted + 1 < NextIndex(storedGeneration[d])
      BY <2>1, <3>2 DEF IntactEpoch
    <3> HIDE DEF e, accepted
    <3>4. runtimes'[d]["first"] = accepted + 1 /\ storedGrabber'[d] = accepted
      BY <1>1, <2>1, <2>3, <2>5, <3>1
    <3>5. NextIndex(storedGeneration[d]) \in Int
      <4>1. storedGeneration[d] \in 0 .. MaxIndex + 1 \cup {Absent}
        BY <1>1 DEF TypeOK
      <4>2. NextIndex(storedGeneration[d]) \in 0 .. MaxIndex + 1
        BY <4>1, NextIndexType
      <4> QED  BY <4>2
    <3>6. accepted < NextIndex(storedGeneration[d]) /\ accepted \in Int
      BY <2>2, <3>3, <3>5 DEF Indices
    <3> QED  BY <2>1, <3>2, <3>3, <3>4, <3>6 DEF IntactEpoch
  <2> QED  BY <2>4, <2>5
<1>13. CASE WakeSharer \/ RoundFails
  BY <1>3, <1>13 DEF WakeSharer, RoundFails, storeVars, objectVars
<1>14. ASSUME NEW e \in Epochs, BeginProof(e) \/ FinishProof(e)
       PROVE  IntactEpoch(d)'
  BY <1>3, <1>14 DEF BeginProof, FinishProof, storeVars, objectVars
<1>15. CASE Restart
  <2>1. finished' = finished /\ storedGeneration' = storedGeneration
    BY <1>1, <1>15, TypeRestart DEF WindowInv
  <2>2. NextIndex(generation'[d]["first"]) = NextIndex(storedGeneration[d])
    BY <1>15, <2>1, LoadEffect
  <2>3. runtimes'[d]["first"] = Absent
    BY <1>1, <1>15 DEF Restart, Started, NoObjects
  <2> QED  BY <1>2, <1>15, <2>1, <2>2, <2>3 DEF Restart, IntactEpoch
<1>16. CASE UNCHANGED vars
  BY <1>3, <1>16 DEF vars, storeVars, objectVars, threadVars
<1> QED  BY <1>5, <1>6, <1>7, <1>8, <1>9, <1>10, <1>11, <1>12, <1>13, <1>14,
            <1>15, <1>16
         DEF Next, GeneratorNext, SharerNext

-----------------------------------------------------------------------------
(***************************************************************************)
(* The theorems.                                                           *)
(***************************************************************************)
LEMMA WindowInvInit == Init => WindowInv
<1> SUFFICES ASSUME Init PROVE WindowInv
  OBVIOUS
<1>1. TypeOK
  BY TypeInit
<1>2. /\ storedWindow = [first |-> 0, last |-> 0] /\ window = storedWindow
      /\ finished = {} /\ rotation = Idle /\ proving = {}
      /\ runtimeRemoved = {} /\ metadataRemoved = {}
      /\ generator.pc = Idle /\ sharer.pc = Idle
  BY DEF Init
<1>3. WindowFollowsRotation
  BY <1>2, ConstantTypes DEF WindowFollowsRotation, Idle
<1>4. EndedInOrder
  BY <1>2 DEF EndedInOrder, Epochs
<1>5. PointersHold /\ GeneratorFollowsTip
  BY <1>2 DEF PointersHold, GeneratorFollowsTip, Idle
<1>6. ASSUME NEW e \in Epochs
      PROVE  /\ storedGeneration[e] = Absent /\ storedGrabber[e] = -1
             /\ \A i \in Indices :
                  BLOCKS[e][i] = IF e = 0 /\ i < LegacyIndex
                                 THEN "once" ELSE "none"
             /\ NextIndex(generation[e]["first"]) = StartIndex(e)
             /\ runtimes[e]["first"] = Absent
  <2>1. generation[e]["first"] = LoadGeneration(window, storedGeneration)[e]
    BY <1>6 DEF Init, NoObjects, Objects
  <2>2. /\ storedGeneration[e] = Absent /\ storedGrabber[e] = -1
        /\ runtimes[e]["first"] = Absent
        /\ \A i \in Indices : BLOCKS[e][i] = IF e = 0 /\ i < LegacyIndex
                                            THEN "once" ELSE "none"
    BY <1>6 DEF Init, NoObjects, Objects
  <2>3. CASE e = 0
    <3>1. InWindow(e, window) /\ \A c \in Epochs : ~(c < e)
      BY <1>2, <2>3 DEF InWindow, Epochs
    <3>2. generation[e]["first"] = LegacyIndex
      BY <1>6, <2>1, <2>2, <3>1 DEF LoadGeneration
    <3>3. NextIndex(LegacyIndex) = LegacyIndex
      BY ConstantTypes DEF NextIndex, Absent
    <3> QED  BY <2>2, <2>3, <3>2, <3>3 DEF StartIndex
  <2>4. CASE e # 0
    <3>1. ~InWindow(e, window)
      BY <1>2, <1>6, <2>4 DEF InWindow, Epochs
    <3>2. generation[e]["first"] = Absent
      BY <1>6, <2>1, <3>1 DEF LoadGeneration
    <3> QED  BY <2>2, <2>4, <3>2 DEF NextIndex, StartIndex
  <2> QED  BY <2>3, <2>4
<1>7. LegacyIndex \in Int /\ Indices \subseteq Int
  BY ConstantTypes DEF Indices
<1>8. BlocksEndAtIndex
  <2>1. \A e \in Epochs : StoredIndex(e) = StartIndex(e)
                           /\ StartIndex(e) \in Int
    BY <1>6, <1>7 DEF StoredIndex, StartIndex
  <2>2. \A e \in Epochs, i \in Indices :
          i >= StartIndex(e) => BLOCKS[e][i] = "none"
    BY <1>6, <1>7 DEF StartIndex
  <2> QED  BY <1>6, <2>1, <2>2 DEF BlocksEndAtIndex
<1>9. OnlyFinishedRewritten /\ NoProofAfterFinish
  BY <1>2, <1>6 DEF OnlyFinishedRewritten, NoProofAfterFinish
<1>10. GenerationIntact
  BY <1>6, <1>7 DEF GenerationIntact, NextIndex, StartIndex, Indices
<1> QED  BY <1>1, <1>3, <1>4, <1>5, <1>8, <1>9, <1>10 DEF WindowInv

LEMMA WindowInvStep == WindowInv /\ [Next]_vars => WindowInv'
<1> SUFFICES ASSUME WindowInv, [Next]_vars PROVE WindowInv'
  OBVIOUS
<1>1. PointersHold'
  BY PointersAre, GeneratorHoldsStep, SharerHoldsStep
     DEF PointersHold, GeneratorHolds, SharerHolds
<1> QED  BY <1>1, TypeStep, WindowFollowsRotationStep, EndedInOrderStep,
            NoProofStep, FollowsTipStep, BlocksStep, IntactStep
         DEF WindowInv

\* The inductive invariant of the window, the threads and the blocks
\* (EpochRotationThread, BlocksGenerationThread, ShareBlockAndGetProofsThread
\* and the start of the node) holds in every reachable state.
THEOREM WindowInvariant == Spec => []WindowInv
BY WindowInvInit, WindowInvStep, PTL DEF Spec

\* Every variable of the epoch window has its type.
THEOREM WindowTypeCorrect == Spec => []TypeOK
<1>1. WindowInv => TypeOK
  BY DEF WindowInv
<1> QED  BY <1>1, WindowInvariant, PTL

\* generateBlock writes over a stored block only in an epoch that is marked
\* as finished, in spite of the copies of the window and of crashes.
THEOREM Rewriting == Spec => []OnlyFinishedRewritten
<1>1. WindowInv => OnlyFinishedRewritten
  BY DEF WindowInv
<1> QED  BY <1>1, WindowInvariant, PTL

\* GetFinalizationProof signs nothing for an epoch that is marked as
\* finished, not even after a crash that brings the old window back.
THEOREM NoLateProof == Spec => []NoProofAfterFinish
<1>1. WindowInv => NoProofAfterFinish
  BY DEF WindowInv
<1> QED  BY <1>1, WindowInvariant, PTL

\* Wherever the rotation is interrupted, epochs outside the stored window
\* are marked and archived, and at most the oldest one inside is marked.
THEOREM DurableWindow == Spec => []WindowIsDurable
<1>1. ASSUME WindowInv PROVE WindowIsDurable
  <2>1. /\ EndedInOrder /\ WindowFollowsRotation
        /\ storedWindow.first \in Int /\ storedWindow.last \in Int
        /\ Epochs \subseteq Int
    BY <1>1 DEF WindowInv, TypeOK, Window, Epochs
  <2>2. \/ window.last = storedWindow.last
        \/ /\ window.last = storedWindow.last + 1
           /\ storedWindow.last \in archived
    <3>1. rotation \in {Idle, "waiting", "locked", "marked", "runtime",
                        "metadata", "store"}
      BY <1>1 DEF WindowInv, TypeOK
    <3> QED  BY <2>1, <3>1 DEF WindowFollowsRotation, Slid, Grown, Idle
  <2>3. \A e \in Epochs : e < window.last => e \in archived
    BY <2>1, <2>2 DEF EndedInOrder
  <2>4. \A e \in Epochs : e < storedWindow.first => e \in archived
    BY <2>1 DEF EndedInOrder, WindowFollowsRotation
  <2> QED  BY <2>1, <2>3, <2>4 DEF WindowIsDurable, EndedInOrder,
           WindowFollowsRotation
<1> QED  BY <1>1, WindowInvariant, PTL

\* The generation metadata in memory and on disk, the blocks and the grabber
\* of an epoch that is not finished agree.
THEOREM IntactGeneration == Spec => []GenerationIntact
<1>1. WindowInv => GenerationIntact
  BY DEF WindowInv
<1> QED  BY <1>1, WindowInvariant, PTL

-----------------------------------------------------------------------------
(***************************************************************************)
(* The contract with BlockFinalization.                                    *)
(***************************************************************************)
LEMMA ChainsBegin ==
    ASSUME Init
    PROVE  \A e \in Epochs : Chain(e)!Init
<1> SUFFICES ASSUME NEW e \in Epochs PROVE Chain(e)!Init
  OBVIOUS
<1> DEFINE n == IF e = 0 THEN LegacyIndex ELSE 0
<1>1. n \in 0 .. MaxIndex + 1 /\ MaxIndex \in Nat
  BY ConstantTypes
<1>2. \A i \in Indices : Chain(e)!Written(i) <=> i < n
  BY <1>1 DEF Init, Chain!Written, Indices
<1>4. Tip(e) = -1 /\ storedGrabber[e] = -1 /\ e \notin finished
  BY DEF Init, Tip, NoObjects, Objects
<1> HIDE DEF n
<1> QED  BY <1>1, <1>2, <1>4 DEF Chain!Init, Chain!Indices, Indices

\* A step that leaves an epoch's stores and first runtime alone, or only
\* creates that runtime, is none of its chain; one that marks it ends it.
LEMMA ChainStutters ==
    ASSUME NEW d \in Epochs, d \notin finished,
           BLOCKS'[d] = BLOCKS[d], storedGrabber'[d] = storedGrabber[d],
           Tip(d)' = Tip(d)
    PROVE  [Chain(d)!Next]_(Chain(d)!epochVars)
<1>1. CASE d \notin finished'
  BY <1>1 DEF Chain!epochVars
<1>2. CASE d \in finished'
  BY <1>2 DEF Chain!Next, Chain!Close
<1> QED  BY <1>1, <1>2

LEMMA TipWhenEnsured ==
    ASSUME TypeOK, NEW e \in Epochs, EnsureFinalizationRuntime(e),
           storedGrabber' = storedGrabber, NEW d \in Epochs
    PROVE  Tip(d)' = Tip(d)
<1>1. "first" \in Objects
  BY DEF Objects
<1>2. \/ runtimes'[d]["first"] = runtimes[d]["first"]
      \/ /\ runtimes[d]["first"] = Absent
         /\ runtimes'[d]["first"] = storedGrabber[d]
  BY <1>1, EnsureType
<1> QED  BY <1>2 DEF Tip

\* Between the generation thread's read of the accepted index and its write
\* of a block nothing happens that could make the block one too many.
LEMMA WriteBlockIsWrite ==
    ASSUME WindowInv, WriteBlock, NEW d \in Epochs, d \notin finished
    PROVE  [Chain(d)!Next]_(Chain(d)!epochVars)
<1> DEFINE next == generation[d]["first"]
<1>1. /\ storedGrabber' = storedGrabber /\ finished' = finished
      /\ runtimes' = runtimes
      /\ generator.pc = "write"
      /\ BLOCKS' = [BLOCKS EXCEPT
           ![generator.epoch][generation[generator.epoch][generator.metadata]] =
               IF @ = "none" THEN "once" ELSE "again"]
  BY DEF WriteBlock
<1>2. BLOCKS \in [Epochs -> [Indices -> {"none", "once", "again"}]]
  BY DEF WindowInv, TypeOK
<1>3. Tip(d)' = Tip(d)
  BY <1>1 DEF Tip
<1>4. CASE d # generator.epoch
  <2>1. BLOCKS'[d] = BLOCKS[d]
    BY <1>1, <1>2, <1>4
  <2> QED  BY <1>1, <1>3, <2>1, ChainStutters
<1>5. CASE d = generator.epoch
  <2>1. /\ generator.metadata = "first" /\ next \in Indices
        /\ runtimes[d]["first"] # Absent
        /\ generator.accepted <= runtimes[d]["first"]
        /\ next <= generator.accepted + 1
    BY <1>1, <1>5 DEF WindowInv, PointersHold, GeneratorFollowsTip
  <2>2. /\ generator.accepted \in Int /\ runtimes[d]["first"] \in Int
        /\ next \in Int
    BY <2>1, ConstantTypes
       DEF WindowInv, TypeOK, Generator, Indices, Objects, Absent
  <2>3. next <= Tip(d) + 1
    BY <2>1, <2>2 DEF Tip
  <2>4. BLOCKS[d][next] = "none"
    <3>1. NextIndex(next) = next
      BY <2>1, ConstantTypes DEF NextIndex, Indices, Absent
    <3> QED  BY <2>1, <3>1 DEF WindowInv, BlocksEndAtIndex
  <2> HIDE DEF next
  <2>5. BLOCKS'[d] = [BLOCKS[d] EXCEPT ![next] = "once"]
    BY <1>1, <1>2, <1>5, <2>1, <2>4 DEF next
  <2>6. BLOCKS'[d][next] = "once"
    BY <1>2, <2>1, <2>5
  <2>7. Chain(d)!Write(next)
    BY <1>1, <1>3, <2>3, <2>4, <2>5, <2>6 DEF Chain!Write, Chain!Written
  <2> QED  BY <2>1, <2>7 DEF Chain!Next, Chain!Indices, Indices
<1> QED  BY <1>4, <1>5

LEMMA RoundIsAdvance ==
    ASSUME WindowInv, RoundFinalizes, NEW d \in Epochs, d \notin finished
    PROVE  [Chain(d)!Next]_(Chain(d)!epochVars)
<1> DEFINE e == sharer.epoch
           accepted == runtimes[e][sharer.runtime]
<1>1. /\ finished' = finished /\ BLOCKS' = BLOCKS
      /\ accepted + 1 \in Indices /\ BLOCKS[e][accepted + 1] # "none"
      /\ storedGrabber' = [storedGrabber EXCEPT ![e] = accepted]
      /\ runtimes' = [runtimes EXCEPT ![e][sharer.runtime] = accepted + 1]
      /\ sharer.pc = "round"
  BY DEF RoundFinalizes
<1>2. /\ accepted # Absent
      /\ e \notin finished => sharer.runtime = "first"
  BY <1>1 DEF WindowInv, PointersHold
<1>3. /\ storedGrabber \in [Epochs -> Indices \cup {-1}]
      /\ runtimes \in [Epochs -> [Objects -> Indices \cup {-1, Absent}]]
      /\ e \in Epochs /\ sharer.runtime \in Objects /\ "first" \in Objects
  BY DEF WindowInv, TypeOK, Sharer, Objects
<1>4. accepted = runtimes[e][sharer.runtime]
  OBVIOUS
<1> HIDE DEF e, accepted
<1>5. CASE d # e
  <2>1. runtimes'[d] = runtimes[d] /\ storedGrabber'[d] = storedGrabber[d]
    BY <1>1, <1>3, <1>5
  <2>2. Tip(d)' = Tip(d)
    BY <2>1 DEF Tip
  <2> QED  BY <1>1, <2>1, <2>2, ChainStutters
<1>6. CASE d = e
  <2>1. sharer.runtime = "first" /\ runtimes[d]["first"] = accepted
    BY <1>2, <1>4, <1>6
  <2>2. runtimes'[d]["first"] = accepted + 1 /\ storedGrabber'[d] = accepted
    BY <1>1, <1>3, <1>6, <2>1
  <2>3. accepted + 1 # Absent
    BY <1>1 DEF Indices, Absent
  <2>4. Tip(d) = accepted /\ Tip(d)' = accepted + 1
    BY <1>2, <2>1, <2>2, <2>3 DEF Tip
  <2>5. Chain(d)!Advance
    BY <1>1, <1>6, <2>2, <2>4
       DEF Chain!Advance, Chain!Written, Chain!Indices, Indices
  <2> QED  BY <2>5 DEF Chain!Next
<1> QED  BY <1>5, <1>6

LEMMA ChainStep ==
    ASSUME WindowInv, [Next]_vars, NEW d \in Epochs
    PROVE  [Chain(d)!Next]_(Chain(d)!epochVars)
<1>1. TypeOK /\ generator.epoch \in Epochs /\ sharer.epoch \in Epochs
  BY DEF WindowInv, TypeOK, Generator, Sharer
<1>2. CASE d \in finished
  <2>1. finished \subseteq finished'
    BY <1>1, TypeRestart
       DEF WindowInv, Next, RotationNext, WaitForLock, LockForRotation,
       AppendEpoch, FinishOldest, RemoveFinalizationRuntime,
       RemoveGenerationMetadata, DeleteGeneration, StoreWindow, GeneratorNext,
       WakeGenerator, GeneratorEnsures, ReadApprovedIndex,
       GetGenerationMetadata, WriteBlock, SharerNext, WakeSharer, BeginRound,
       RoundFinalizes, RoundFails, BeginProof, FinishProof, vars, storeVars
  <2> QED  BY <1>2, <2>1 DEF Chain!Next, Chain!AfterClose
<1>3. CASE d \notin finished
  <2> USE <1>3
  <2>1. CASE WriteBlock
    BY <2>1, WriteBlockIsWrite
  <2>2. CASE RoundFinalizes
    BY <2>2, RoundIsAdvance
  <2>3. CASE GeneratorEnsures \/ BeginRound
    <3>1. BLOCKS' = BLOCKS /\ storedGrabber' = storedGrabber
      BY <2>3 DEF GeneratorEnsures, BeginRound, storeVars
    <3>2. Tip(d)' = Tip(d)
      BY <1>1, <2>3, <3>1, TipWhenEnsured DEF GeneratorEnsures, BeginRound
    <3> QED  BY <3>1, <3>2, ChainStutters
  <2>4. CASE Restart
    <3>1. /\ finished' = finished /\ BLOCKS' = BLOCKS
          /\ storedGrabber' = storedGrabber
      BY <1>1, <2>4, TypeRestart DEF WindowInv, Restart
    <3>2. Tip(d)' = storedGrabber[d]
      BY <2>4, <3>1 DEF Restart, Started, NoObjects, Objects, Tip
    <3>3. Chain(d)!Recover
      BY <3>1, <3>2 DEF Chain!Recover
    <3> QED  BY <3>3 DEF Chain!Next
  <2>5. CASE UNCHANGED <<BLOCKS, storedGrabber, runtimes>>
    <3>1. Tip(d)' = Tip(d)
      BY <2>5 DEF Tip
    <3> QED  BY <2>5, <3>1, ChainStutters
  <2>6. \/ WriteBlock \/ RoundFinalizes
        \/ GeneratorEnsures \/ BeginRound \/ Restart
        \/ UNCHANGED <<BLOCKS, storedGrabber, runtimes>>
    BY DEF Next, RotationNext, WaitForLock, LockForRotation, AppendEpoch,
       FinishOldest, RemoveFinalizationRuntime, RemoveGenerationMetadata,
       DeleteGeneration, StoreWindow, GeneratorNext, WakeGenerator,
       ReadApprovedIndex, GetGenerationMetadata, SharerNext, WakeSharer,
       RoundFails, BeginProof, FinishProof, vars, storeVars, objectVars
  <2> QED  BY <2>1, <2>2, <2>3, <2>4, <2>5, <2>6
<1> QED  BY <1>2, <1>3

\* Whatever the rotation, the copies of the window and crashes do between
\* the steps of the generation and share threads, the chain of every epoch
\* that is not finished follows the contract: no block is written twice or
\* above one that is not final, the grabber on disk is one behind.
THEOREM WindowKeepsEpochChain == Spec => ImplementsEpochChain
<1>1. Init => \A e \in Epochs : Chain(e)!Init
  BY ChainsBegin
<1>2. WindowInv /\ [Next]_vars
        => [\A e \in Epochs : [Chain(e)!Next]_(Chain(e)!epochVars)]_vars
  BY ChainStep
<1> QED  BY <1>1, <1>2, WindowInvariant, PTL DEF Spec, ImplementsEpochChain
=============================================================================
