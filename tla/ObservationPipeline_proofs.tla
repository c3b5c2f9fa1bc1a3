---------------------- MODULE ObservationPipeline_proofs ----------------------
(***************************************************************************)
(* Proofs about ObservationPipeline, for every capacity, every set of      *)
(* callbacks and every bound.                                              *)
(*                                                                         *)
(* Three inductive invariants, each proved on top of TypeOK: what the      *)
(* queue holds, where the gap evidence is, and how the files, the counter  *)
(* and the numbers on the wire relate.                                     *)
(***************************************************************************)
EXTENDS ObservationPipeline, SequenceTheorems, TLAPS

(* What offer() leaves in the queue: a full ring gives up its head. *)
LEMMA OfferedQueue ==
  ASSUME slots \in Seq(Evidence), Len(slots) <= Capacity, NEW e \in Evidence, Offer(e)
  PROVE  /\ slots' \in Seq(Evidence)
         /\ Len(slots') = IF Full THEN Len(slots) ELSE Len(slots) + 1
         /\ Len(slots') <= Capacity
         /\ slots'[Len(slots')] = e
         /\ \A i \in 1..(Len(slots') - 1) : slots'[i] = IF Full THEN slots[i + 1] ELSE slots[i]
<1>1. CASE Full
  <2> DEFINE kept == Tail(slots)
  <2>1. slots # <<>>
    BY <1>1, CapacityAssumption DEF Full
  <2>2. /\ kept \in Seq(Evidence)
        /\ Len(kept) = Len(slots) - 1
        /\ \A i \in 1..Len(kept) : kept[i] = slots[i + 1]
    BY <2>1, HeadTailProperties
  <2>3. slots' = Append(kept, e)
    BY <1>1 DEF Offer
  <2>4. /\ slots' \in Seq(Evidence)
        /\ Len(slots') = Len(kept) + 1
        /\ \A i \in 1..Len(kept) : slots'[i] = kept[i]
        /\ slots'[Len(kept) + 1] = e
    <3> HIDE DEF kept
    <3> QED  BY <2>2, <2>3, AppendProperties
  <2>5. Len(slots) \in Nat
    BY LenProperties
  <2> HIDE DEF kept
  <2> QED  BY <1>1, <2>2, <2>4, <2>5
<1>2. CASE ~Full
  <2>1. slots' = Append(slots, e)
    BY <1>2 DEF Offer
  <2>2. Len(slots) \in Nat /\ Len(slots) < Capacity
    BY <1>2, LenProperties, CapacityAssumption DEF Full
  <2>3. /\ slots' \in Seq(Evidence)
        /\ Len(slots') = Len(slots) + 1
        /\ \A i \in 1..Len(slots) : slots'[i] = slots[i]
        /\ slots'[Len(slots) + 1] = e
    BY <2>1, AppendProperties
  <2> QED  BY <1>2, <2>2, <2>3, CapacityAssumption
<1> QED  BY <1>1, <1>2

(* What take() leaves: everything but the head, in order. *)
LEMMA TakenQueue ==
  ASSUME slots \in Seq(Evidence), Len(slots) <= Capacity, Take
  PROVE  /\ Len(slots) \in Nat \ {0}
         /\ Head(slots) \in Evidence
         /\ Head(slots) = slots[1]
         /\ slots' \in Seq(Evidence)
         /\ Len(slots') = Len(slots) - 1
         /\ Len(slots') <= Capacity
         /\ \A i \in 1..Len(slots') : slots'[i] = slots[i + 1]
<1>1. slots # <<>> /\ slots' = Tail(slots)
  BY DEF Take
<1>2. Len(slots) \in Nat /\ Len(slots) # 0
  BY <1>1, LenProperties, EmptySeq
<1> QED  BY <1>1, <1>2, HeadTailProperties, CapacityAssumption

(* Type correctness is inductive by itself. *)
THEOREM TypeCorrect == Spec => []TypeOK
<1>1. Init => TypeOK
  <2> SUFFICES ASSUME Init PROVE TypeOK
    OBVIOUS
  <2>1. slots \in Seq(Evidence) /\ Len(slots) <= Capacity
    BY CapacityAssumption DEF Init, HandoffInit
  <2>2. stopRequested \in BOOLEAN /\ playlistEnded \in BOOLEAN /\ endOwed \in BOOLEAN
    BY Zenon DEF Init
  <2> QED
    BY <2>1, <2>2 DEF Init, TypeOK, HandoffInit, FilesInit, File, WorkerStates, Actions,
       NoObservation
<1>2. TypeOK /\ [Next]_vars => TypeOK'
  <2> SUFFICES ASSUME TypeOK, [Next]_vars
               PROVE  TypeOK'
    OBVIOUS
  <2> USE CapacityAssumption, CallbackAssumption, BoundAssumption
  <2>1. CASE ObserveCallback
    <3>1. PICK callback \in Callbacks :
             Offer([n |-> offered + 1, action |-> callback[1], entry |-> callback[2]])
      BY <2>1 DEF ObserveCallback
    <3>2. [n |-> offered + 1, action |-> callback[1], entry |-> callback[2]] \in Evidence
      BY DEF TypeOK, Evidence
    <3>3. slots' \in Seq(Evidence) /\ Len(slots') <= Capacity
      BY <3>1, <3>2, OfferedQueue DEF TypeOK
    <3> QED
      BY <2>1, <3>1, <3>3 DEF TypeOK, ObserveCallback, Offer, fileVars, workerVars, faultVars
  <2>2. CASE DropRepeatedEnd
    <3>1. Take
      BY <2>2 DEF DropRepeatedEnd, TakeNext
    <3>2. slots' \in Seq(Evidence) /\ Len(slots') <= Capacity /\ Head(slots) \in Evidence
      BY <3>1, TakenQueue DEF TypeOK
    <3> QED
      BY <2>2, <3>2 DEF TypeOK, DropRepeatedEnd, TakeNext, Take, CarriedGap, Evidence,
         fileVars, faultVars
  <2>3. CASE DrainRunEnd
    <3>1. Take
      BY <2>3 DEF DrainRunEnd, TakeNext
    <3>2. slots' \in Seq(Evidence) /\ Len(slots') <= Capacity /\ Head(slots) \in Evidence
      BY <3>1, TakenQueue DEF TypeOK
    <3>3. Head(slots).n \in Nat
      BY <3>2 DEF Evidence
    <3>4. stopRequested' \in BOOLEAN /\ playlistEnded' \in BOOLEAN /\ endOwed' \in BOOLEAN
      BY <2>3, Zenon DEF TypeOK, DrainRunEnd, TakeNext
    <3>5. observation' \in [number : Nat, action : Actions, entry : Entries \union {NoEntry},
                            gap : Nat]
      BY <2>3 DEF TypeOK, DrainRunEnd, Mint, CarriedGap, Actions
    <3> QED
      BY <2>3, <3>2, <3>3, <3>4, <3>5 DEF TypeOK, DrainRunEnd, TakeNext, Take, Mint, CarriedGap,
         WorkerStates, fileVars, faultVars
  <2>4. ASSUME NEW identified \in BOOLEAN, DrainEvidence(identified)
        PROVE  TypeOK'
    <3>1. Take
      BY <2>4 DEF DrainEvidence, TakeNext
    <3>2. slots' \in Seq(Evidence) /\ Len(slots') <= Capacity /\ Head(slots) \in Evidence
      BY <3>1, TakenQueue DEF TypeOK
    <3>3. /\ Head(slots).n \in Nat
          /\ Head(slots).action \in Actions
          /\ Head(slots).entry \in Entries \union {NoEntry}
      BY <3>2 DEF Evidence
    <3>4. observation' \in [number : Nat, action : Actions, entry : Entries \union {NoEntry},
                            gap : Nat]
      BY <2>4, <3>3 DEF TypeOK, DrainEvidence, Mint, CarriedGap
    <3>5. stopRequested' \in BOOLEAN /\ playlistEnded' \in BOOLEAN /\ endOwed' \in BOOLEAN
      BY <2>4, Zenon DEF TypeOK, DrainEvidence, TakeNext, Reopen
    <3> QED
      BY <2>4, <3>2, <3>3, <3>4, <3>5 DEF TypeOK, DrainEvidence, TakeNext, Take, Mint, CarriedGap,
         WorkerStates, fileVars, faultVars
  <2>5. CASE RotateFiles
    <3>1. primary' \in File /\ backup' \in File
      BY <2>5 DEF TypeOK, RotateFiles, Rotate, RotationFails, File, fileVars
    <3>2. stopRequested' \in BOOLEAN /\ playlistEnded' \in BOOLEAN /\ endOwed' \in BOOLEAN
      BY <2>5, Zenon DEF TypeOK, RotateFiles, lifeVars
    <3>3. pc' \in WorkerStates
      BY <2>5 DEF RotateFiles, WorkerStates
    <3>4. failures' \in Nat
      <4>1. failures \in Nat
        BY DEF TypeOK
      <4> QED  BY <2>5, <4>1 DEF RotateFiles
    <3>5. UNCHANGED <<slots, coalesced, offered, sequence, unacknowledged, lastPlaying,
                      observation, lastTaken, dropped, acknowledged, posted,
                      floor, crashes, corruptions>>
      BY <2>5 DEF RotateFiles, handoffVars, lifeVars
    <3> QED
      BY <3>1, <3>2, <3>3, <3>4, <3>5 DEF TypeOK
  <2>6. CASE WriteCompletes
    <3>1. primary' \in File /\ backup' \in File
      BY <2>6 DEF TypeOK, WriteCompletes, WritePrimary, File
    <3>2. pc' \in WorkerStates
      BY <2>6 DEF WriteCompletes, AfterStore, WorkerStates
    <3> QED
      BY <2>6, <3>1, <3>2 DEF TypeOK, WriteCompletes, handoffVars, lifeVars, faultVars
  <2>7. CASE WriteFails
    <3>1. pc' \in WorkerStates
      BY <2>7 DEF WriteFails, AfterStore, WorkerStates
    <3>2. failures' \in Nat
      <4>1. failures \in Nat
        BY DEF TypeOK
      <4> QED  BY <2>7, <4>1 DEF WriteFails
    <3>3. UNCHANGED <<handoffVars, fileVars, stopRequested, sequence, unacknowledged, lastPlaying,
                   playlistEnded, observation, lifeVars, posted, floor, crashes, corruptions>>
      BY <2>7 DEF WriteFails
    <3> QED
      BY <3>1, <3>2, <3>3 DEF TypeOK, handoffVars, fileVars, lifeVars
  <2>8. CASE PostAccepted
    BY <2>8 DEF TypeOK, PostAccepted, PostEnds, OnTheWire, NoObservation, Actions,
       WorkerStates, handoffVars, fileVars, faultVars
  <2>9. CASE PostNotAccepted
    BY <2>9 DEF TypeOK, PostNotAccepted, GapAfterRefusal, PostEnds, OnTheWire, NoObservation,
       Actions, WorkerStates, handoffVars, fileVars, faultVars
  <2>10. CASE PostSkipped
    BY <2>10 DEF TypeOK, PostSkipped, GapAfterRefusal, PostEnds, NoObservation, Actions,
       WorkerStates, handoffVars, fileVars, faultVars
  <2>11. CASE WorkerJoined
    BY <2>11 DEF TypeOK, WorkerJoined, WorkerStates, handoffVars, fileVars, lifeVars, faultVars
  <2>12. CASE StopRequested
    <3>1. stopRequested' \in BOOLEAN /\ playlistEnded' \in BOOLEAN /\ endOwed' \in BOOLEAN
      BY <2>12, Zenon DEF TypeOK, StopRequested, lifeVars
    <3> QED
      BY <2>12, <3>1 DEF TypeOK, StopRequested, handoffVars, fileVars, lifeVars
  <2>13. CASE Crash
    <3>1. stopRequested' \in BOOLEAN /\ playlistEnded' \in BOOLEAN /\ endOwed' \in BOOLEAN
      BY <2>13, Zenon DEF TypeOK, Crash, lifeVars
    <3> QED
      BY <2>13, <3>1 DEF TypeOK, Crash, WorkerStates, handoffVars, fileVars, lifeVars
  <2>14. CASE Restart
    <3>1. stopRequested' \in BOOLEAN /\ playlistEnded' \in BOOLEAN /\ endOwed' \in BOOLEAN
      BY <2>14, Zenon DEF Restart
    <3>2. slots' \in Seq(Evidence) /\ Len(slots') <= Capacity
      BY <2>14 DEF Restart, HandoffReset
    <3>3. Resumed \in Nat
      BY DEF TypeOK, Resumed, Load, Height, Valid, File
    <3>4. observation' \in [number : Nat, action : Actions, entry : Entries \union {NoEntry},
                            gap : Nat]
      BY <2>14 DEF Restart, NoObservation, Actions
    <3> QED
      BY <2>14, <3>1, <3>2, <3>3, <3>4 DEF TypeOK, Restart, HandoffReset, WorkerStates,
         fileVars, faultVars
  <2>15. CASE Corrupt
    BY <2>15 DEF TypeOK, Corrupt, CorruptPrimary, CorruptBackup, File, handoffVars, workerVars,
       lifeVars
  <2>16. CASE UNCHANGED vars
    BY <2>16 DEF TypeOK, vars, handoffVars, fileVars, workerVars, lifeVars, faultVars
  <2> QED
    BY <2>1, <2>2, <2>3, <2>4, <2>5, <2>6, <2>7, <2>8, <2>9, <2>10, <2>11, <2>12, <2>13,
       <2>14, <2>15, <2>16 DEF Next, Worker
<1> QED
  BY <1>1, <1>2, PTL DEF Spec
-----------------------------------------------------------------------------
(* The queue.  Every callback of this process is pending, or was counted   *)
(* as dropped since the last take, or comes no later than the last taken;  *)
(* with the queue being the newest run this fixes the number at its head.  *)
QueueInv ==
    /\ PendingIsTheNewestRun
    /\ offered = lastTaken + coalesced + Len(slots)

LEMMA QueueInvSuffices ==
  ASSUME TypeOK, QueueInv
  PROVE  GapIsBeforeTheHead
<1> SUFFICES ASSUME slots # <<>>
             PROVE  Head(slots).n = lastTaken + coalesced + 1
  BY DEF GapIsBeforeTheHead
<1>1. /\ Len(slots) \in Nat \ {0}
      /\ Head(slots) = slots[1]
      /\ 1 \in DOMAIN slots
  BY EmptySeq, LenProperties, HeadTailProperties DEF TypeOK
<1>2. Head(slots).n = offered - Len(slots) + 1
  BY <1>1 DEF QueueInv, PendingIsTheNewestRun
<1> QED  BY <1>1, <1>2 DEF QueueInv, TypeOK

LEMMA TakeKeepsQueueInv ==
  ASSUME TypeOK, QueueInv, TakeNext
  PROVE  QueueInv'
<1>1. /\ Take
      /\ offered' = offered
      /\ coalesced' = 0
      /\ lastTaken' = Head(slots).n
  BY DEF TakeNext, Take
<1>2. /\ Len(slots) \in Nat \ {0}
      /\ Head(slots) = slots[1]
      /\ slots' \in Seq(Evidence)
      /\ Len(slots') = Len(slots) - 1
      /\ \A i \in 1..Len(slots') : slots'[i] = slots[i + 1]
  BY <1>1, TakenQueue DEF TypeOK
<1>3. DOMAIN slots = 1..Len(slots) /\ DOMAIN slots' = 1..Len(slots')
  BY <1>2, LenProperties DEF TypeOK
<1>4. \A i \in DOMAIN slots : slots[i].n = offered - Len(slots) + i
  BY DEF QueueInv, PendingIsTheNewestRun
<1>5. \A i \in 1..Len(slots') : slots'[i].n = offered' - Len(slots') + i
  <2> SUFFICES ASSUME NEW i \in 1..Len(slots')
               PROVE  slots'[i].n = offered' - Len(slots') + i
    OBVIOUS
  <2>1. i + 1 \in DOMAIN slots
    BY <1>2, <1>3
  <2>2. slots[i + 1].n = offered - Len(slots) + (i + 1)
    BY <1>4, <2>1
  <2> QED  BY <1>1, <1>2, <2>2 DEF TypeOK
<1>6. Head(slots).n = offered - Len(slots) + 1
  BY <1>2, <1>3, <1>4
<1>7. offered' = lastTaken' + coalesced' + Len(slots')
  BY <1>1, <1>2, <1>6 DEF TypeOK
<1> QED  BY <1>3, <1>5, <1>7 DEF QueueInv, PendingIsTheNewestRun

LEMMA OfferKeepsQueueInv ==
  ASSUME TypeOK, QueueInv, ObserveCallback
  PROVE  QueueInv'
<1>1. PICK callback \in Callbacks :
         Offer([n |-> offered + 1, action |-> callback[1], entry |-> callback[2]])
  BY DEF ObserveCallback
<1> DEFINE e == [n |-> offered + 1, action |-> callback[1], entry |-> callback[2]]
<1>2. e \in Evidence /\ e.n = offered + 1
  BY CallbackAssumption DEF TypeOK, Evidence
<1>3. Offer(e)
  BY <1>1
<1> HIDE DEF e
<1>4. /\ slots' \in Seq(Evidence)
      /\ Len(slots') = IF Full THEN Len(slots) ELSE Len(slots) + 1
      /\ slots'[Len(slots')] = e
      /\ \A i \in 1..(Len(slots') - 1) : slots'[i] = IF Full THEN slots[i + 1] ELSE slots[i]
  BY <1>2, <1>3, OfferedQueue DEF TypeOK
<1>5. DOMAIN slots = 1..Len(slots) /\ DOMAIN slots' = 1..Len(slots')
  BY <1>4, LenProperties DEF TypeOK
<1>10. Len(slots) \in Nat /\ Len(slots') \in Nat
  BY <1>4, LenProperties DEF TypeOK
<1>6. /\ offered' = offered + 1
      /\ coalesced' = IF Full THEN coalesced + 1 ELSE coalesced
      /\ lastTaken' = lastTaken
  BY <1>3 DEF Offer, ObserveCallback
<1>7. \A i \in DOMAIN slots : slots[i].n = offered - Len(slots) + i
  BY DEF QueueInv, PendingIsTheNewestRun
<1>8. \A i \in 1..Len(slots') : slots'[i].n = offered' - Len(slots') + i
  <2> SUFFICES ASSUME NEW i \in 1..Len(slots')
               PROVE  slots'[i].n = offered' - Len(slots') + i
    OBVIOUS
  <2>1. CASE i = Len(slots')
    <3>1. slots'[i].n = offered + 1
      BY <1>2, <1>4, <2>1
    <3> QED  BY <1>6, <1>10, <2>1, <3>1 DEF TypeOK
  <2>2. CASE i # Len(slots') /\ Full
    <3>1. Len(slots') = Len(slots) /\ slots'[i] = slots[i + 1] /\ i + 1 \in DOMAIN slots
      <4>1. Len(slots') = Len(slots)
        BY <1>4, <2>2
      <4>2. i \in 1..(Len(slots') - 1) /\ i + 1 \in 1..Len(slots)
        BY <1>10, <2>2, <4>1
      <4>3. slots'[i] = slots[i + 1]
        BY <1>4, <2>2, <4>2, Zenon
      <4> QED  BY <1>5, <4>1, <4>2, <4>3
    <3>2. slots[i + 1].n = offered - Len(slots) + (i + 1)
      BY <1>7, <3>1
    <3>3. slots'[i].n = offered - Len(slots') + (i + 1)
      BY <3>1, <3>2
    <3> QED  BY <1>6, <1>10, <3>3 DEF TypeOK
  <2>3. CASE i # Len(slots') /\ ~Full
    <3>1. Len(slots') = Len(slots) + 1 /\ slots'[i] = slots[i] /\ i \in DOMAIN slots
      <4>1. Len(slots') = Len(slots) + 1
        BY <1>4, <2>3
      <4>2. i \in 1..(Len(slots') - 1) /\ i \in 1..Len(slots)
        BY <1>10, <2>3, <4>1
      <4> QED  BY <1>4, <1>5, <2>3, <4>1, <4>2
    <3>2. slots[i].n = offered - Len(slots) + i
      BY <1>7, <3>1
    <3>3. slots'[i].n = offered - (Len(slots') - 1) + i
      BY <1>10, <3>1, <3>2
    <3> QED  BY <1>6, <1>10, <3>3 DEF TypeOK
  <2> QED  BY <2>1, <2>2, <2>3
<1>9. offered' = lastTaken' + coalesced' + Len(slots')
  BY <1>4, <1>6, <1>10 DEF QueueInv, TypeOK
<1> QED  BY <1>5, <1>8, <1>9 DEF QueueInv, PendingIsTheNewestRun

(* Whatever the callbacks and the capacity: what is pending is the newest  *)
(* run of callbacks, and the count handed over with an observation is the  *)
(* number missing immediately before it.                                   *)
THEOREM QueueCorrect == Spec => [](PendingIsTheNewestRun /\ GapIsBeforeTheHead)
<1>1. Init => QueueInv
  BY DEF Init, HandoffInit, QueueInv, PendingIsTheNewestRun
<1>2. TypeOK /\ QueueInv /\ [Next]_vars => QueueInv'
  <2> SUFFICES ASSUME TypeOK, QueueInv, [Next]_vars
               PROVE  QueueInv'
    OBVIOUS
  <2>1. CASE ObserveCallback
    BY <2>1, OfferKeepsQueueInv
  <2>2. CASE TakeNext
    BY <2>2, TakeKeepsQueueInv
  <2>3. CASE UNCHANGED <<slots, coalesced, offered, lastTaken>>
    BY <2>3 DEF QueueInv, PendingIsTheNewestRun
  <2>4. CASE Restart
    BY <2>4 DEF Restart, HandoffReset, QueueInv, PendingIsTheNewestRun
  <2>5. CASE DropRepeatedEnd
    BY <2>2, <2>5 DEF DropRepeatedEnd
  <2>6. CASE DrainRunEnd
    BY <2>2, <2>6 DEF DrainRunEnd
  <2>7. ASSUME NEW identified \in BOOLEAN, DrainEvidence(identified)
        PROVE  QueueInv'
    BY <2>2, <2>7 DEF DrainEvidence
  <2>8. CASE RotateFiles
    BY <2>3, <2>8 DEF RotateFiles, handoffVars, lifeVars
  <2>9. CASE WriteCompletes \/ WriteFails
    BY <2>3, <2>9 DEF WriteCompletes, WriteFails, handoffVars, lifeVars
  <2>10. CASE PostAccepted
    BY <2>3, <2>10 DEF PostAccepted, PostEnds, handoffVars
  <2>11. CASE PostNotAccepted
    BY <2>3, <2>11 DEF PostNotAccepted, PostEnds, handoffVars
  <2>12. CASE PostSkipped
    BY <2>3, <2>12 DEF PostSkipped, PostEnds, handoffVars
  <2>13. CASE WorkerJoined
    BY <2>3, <2>13 DEF WorkerJoined, handoffVars, lifeVars
  <2>14. CASE StopRequested \/ Crash
    BY <2>3, <2>14 DEF StopRequested, Crash, handoffVars, lifeVars
  <2>15. CASE Corrupt
    BY <2>3, <2>15 DEF Corrupt, handoffVars, lifeVars
  <2>16. CASE UNCHANGED vars
    BY <2>3, <2>16 DEF vars, handoffVars, lifeVars
  <2> QED
    BY <2>1, <2>4, <2>5, <2>6, <2>7, <2>8, <2>9, <2>10, <2>11, <2>12, <2>13, <2>14, <2>15,
       <2>16 DEF Next, Worker
<1>3. TypeOK /\ QueueInv => PendingIsTheNewestRun /\ GapIsBeforeTheHead
  BY QueueInvSuffices DEF QueueInv
<1> QED
  BY <1>1, <1>2, <1>3, TypeCorrect, PTL DEF Spec
-----------------------------------------------------------------------------
(* The gap evidence.  While an observation is being delivered it carries   *)
(* what the worker still owes, so an accepted one settles the whole debt.  *)
GapInv ==
    /\ GapEvidenceConserved
    /\ pc \in {"rotate", "write", "post"} => observation.gap = unacknowledged

(* No dropped callback falls out of the accounts, whichever posts the      *)
(* coordinator accepts and however full the queue gets.                    *)
THEOREM GapsAccounted == Spec => []GapEvidenceConserved
<1>1. Init => GapInv
  BY DEF Init, HandoffInit, GapInv, GapEvidenceConserved
<1>2. TypeOK /\ GapInv /\ [Next]_vars => GapInv'
  <2> SUFFICES ASSUME TypeOK, GapInv, [Next]_vars
               PROVE  GapInv'
    OBVIOUS
  <2> USE DEF GapInv, GapEvidenceConserved
  <2>0. /\ coalesced \in Nat
        /\ dropped \in Nat
        /\ unacknowledged \in Nat
        /\ acknowledged \in Nat
    BY DEF TypeOK
  <2>1. CASE ObserveCallback
    <3>1. /\ coalesced' = IF Full THEN coalesced + 1 ELSE coalesced
          /\ dropped' = IF Full THEN dropped + 1 ELSE dropped
          /\ UNCHANGED <<pc, observation, unacknowledged, acknowledged>>
      BY <2>1 DEF ObserveCallback, Offer, workerVars
    <3> QED  BY <2>0, <3>1
  <2>2. ASSUME TakeNext, unacknowledged' = CarriedGap,
               (UNCHANGED pc) \/ (pc' = "rotate" /\ observation'.gap = CarriedGap)
        PROVE  GapInv'
    BY <2>0, <2>2 DEF TakeNext, Take, CarriedGap
  <2>3. CASE DropRepeatedEnd
    BY <2>2, <2>3 DEF DropRepeatedEnd
  <2>4. CASE DrainRunEnd
    BY <2>2, <2>4 DEF DrainRunEnd, Mint
  <2>5. ASSUME NEW identified \in BOOLEAN, DrainEvidence(identified)
        PROVE  GapInv'
    BY <2>2, <2>5 DEF DrainEvidence, Mint
  <2>6. CASE RotateFiles
    BY <2>6 DEF RotateFiles, handoffVars, lifeVars
  <2>7. CASE WriteCompletes
    BY <2>7 DEF WriteCompletes, AfterStore, handoffVars, lifeVars
  <2>8. CASE WriteFails
    BY <2>8 DEF WriteFails, AfterStore, handoffVars, lifeVars
  <2>9. CASE PostAccepted
    BY <2>0, <2>9 DEF PostAccepted, PostEnds, handoffVars
  <2>10. CASE PostNotAccepted
    BY <2>10 DEF PostNotAccepted, GapAfterRefusal, PostEnds, handoffVars
  <2>11. CASE PostSkipped
    BY <2>11 DEF PostSkipped, GapAfterRefusal, PostEnds, handoffVars
  <2>12. CASE WorkerJoined
    BY <2>12 DEF WorkerJoined, handoffVars, lifeVars
  <2>13. CASE StopRequested
    BY <2>13 DEF StopRequested, handoffVars, lifeVars
  <2>14. CASE Crash
    BY <2>14 DEF Crash, handoffVars, lifeVars
  <2>15. CASE Restart
    BY <2>15 DEF Restart, HandoffReset
  <2>16. CASE Corrupt
    BY <2>16 DEF Corrupt, handoffVars, workerVars, lifeVars
  <2>17. CASE UNCHANGED vars
    BY <2>17 DEF vars, handoffVars, workerVars, lifeVars
  <2> QED
    BY <2>1, <2>3, <2>4, <2>5, <2>6, <2>7, <2>8, <2>9, <2>10, <2>11, <2>12, <2>13, <2>14,
       <2>15, <2>16, <2>17 DEF Next, Worker
<1>3. GapInv => GapEvidenceConserved
  BY DEF GapInv
<1> QED
  BY <1>1, <1>2, <1>3, TypeCorrect, PTL DEF Spec
-----------------------------------------------------------------------------
(* The run flags.  The worker believes a run has ended only while it owes  *)
(* no end: a named callback withdraws the belief as it creates the debt.   *)
RunEndInv == playlistEnded => ~endOwed

(* A callback that ends a run is swallowed only if that end was reported.  *)
THEOREM RunEndsReported == Spec => NoRunEndSwallowed
<1>1. Init => RunEndInv
  BY DEF Init, RunEndInv
<1>2. RunEndInv /\ [Next]_vars => RunEndInv'
  <2> SUFFICES ASSUME RunEndInv, [Next]_vars
               PROVE  RunEndInv'
    OBVIOUS
  <2> USE DEF RunEndInv
  <2>1. CASE DrainRunEnd
    BY <2>1, Zenon DEF DrainRunEnd
  <2>2. ASSUME NEW identified \in BOOLEAN, DrainEvidence(identified)
        PROVE  RunEndInv'
    BY <2>2, Zenon DEF DrainEvidence, Reopen, RunEnded
  <2>3. CASE UNCHANGED <<playlistEnded, endOwed>>
    BY <2>3, Zenon
  <2>4. CASE Restart
    BY <2>4, Zenon DEF Restart
  <2>5. CASE ObserveCallback
    BY <2>3, <2>5, Zenon DEF ObserveCallback, workerVars
  <2>6. CASE DropRepeatedEnd
    BY <2>3, <2>6, Zenon DEF DropRepeatedEnd
  <2>7. CASE RotateFiles
    BY <2>3, <2>7, Zenon DEF RotateFiles, lifeVars
  <2>8. CASE WriteCompletes
    BY <2>3, <2>8, Zenon DEF WriteCompletes, lifeVars
  <2>9. CASE WriteFails
    BY <2>3, <2>9, Zenon DEF WriteFails, lifeVars
  <2>10. CASE PostAccepted \/ PostNotAccepted \/ PostSkipped
    BY <2>3, <2>10, Zenon DEF PostAccepted, PostNotAccepted, PostSkipped, PostEnds
  <2>11. CASE WorkerJoined
    BY <2>3, <2>11, Zenon DEF WorkerJoined, lifeVars
  <2>12. CASE StopRequested \/ Crash
    BY <2>3, <2>12, Zenon DEF StopRequested, Crash, lifeVars
  <2>13. CASE Corrupt
    BY <2>3, <2>13, Zenon DEF Corrupt, workerVars, lifeVars
  <2>14. CASE UNCHANGED vars
    BY <2>3, <2>14, Zenon DEF vars, workerVars, lifeVars
  <2> QED
    BY <2>1, <2>2, <2>4, <2>5, <2>6, <2>7, <2>8, <2>9, <2>10, <2>11, <2>12, <2>13, <2>14
       DEF Next, Worker
<1>3. RunEndInv => (DropRepeatedEnd => ~endOwed)
  BY DEF RunEndInv, DropRepeatedEnd, EndAlreadyReported
<1> QED
  BY <1>1, <1>2, <1>3, PTL DEF Spec, NoRunEndSwallowed
-----------------------------------------------------------------------------
(* The files.  The backup never overtakes a valid primary, which is what   *)
(* makes the rotation harmless: it replaces the lower of two records.      *)
FilesOrdered == Valid(primary) /\ Valid(backup) => backup <= primary

LEMMA LoadedHeight ==
  ASSUME primary \in File, backup \in File
  PROVE  /\ Load \in Nat
         /\ Height(primary) \in Nat /\ Height(backup) \in Nat
         /\ Height(primary) <= Load /\ Height(backup) <= Load
         /\ Load = Height(primary) \/ Load = Height(backup)
  BY DEF Load, Height, Valid, File

(* A rotation, whole or failed, loses nothing that load() would find.      *)
LEMMA RotationKeepsLoad ==
  ASSUME primary \in File, backup \in File, FilesOrdered, Rotate \/ RotationFails
  PROVE  Load' = Load /\ FilesOrdered'
<1>1. CASE Rotate /\ Valid(primary)
  <2>1. primary \in Nat /\ backup' = primary /\ primary' = Absent
    BY <1>1 DEF Rotate, Valid
  <2>2. Load' = primary
    BY <2>1, FileAssumption DEF Load, Height, Valid
  <2>3. Load = primary
    BY <2>1 DEF Load, Height, Valid, FilesOrdered, File
  <2> QED  BY <2>1, <2>2, <2>3, FileAssumption DEF FilesOrdered, Valid
<1>2. CASE (Rotate /\ ~Valid(primary)) \/ RotationFails
  <2>1. primary' = primary /\ backup' = backup
    BY <1>2 DEF Rotate, RotationFails, fileVars
  <2> QED  BY <2>1 DEF Load, Height, Valid, FilesOrdered
<1> QED  BY <1>1, <1>2

LEMMA WriteRaisesLoad ==
  ASSUME primary \in File, backup \in File, NEW value \in Nat, Load <= value,
         WritePrimary(value)
  PROVE  Load' = value /\ FilesOrdered'
<1>1. primary' = value /\ backup' = backup
  BY DEF WritePrimary
<1>2. Height(backup) <= value
  BY LoadedHeight
<1> QED  BY <1>1, <1>2 DEF Load, Height, Valid, FilesOrdered, File

LEMMA CorruptionLowersLoad ==
  ASSUME primary \in File, backup \in File, FilesOrdered, CorruptPrimary \/ CorruptBackup
  PROVE  Load' <= Load /\ FilesOrdered'
  BY FileAssumption DEF CorruptPrimary, CorruptBackup, Load, Height, Valid, FilesOrdered, File

(* How the files, the counter and the wire relate.                         *)
StoreInv ==
    /\ FilesOrdered
    /\ CompletedStoreSurvives
    /\ MemoryNotBehindDisk
    /\ failures = 0 /\ corruptions = 0 => posted <= floor
    /\ failures = 0 /\ pc = "post" => floor = sequence
    /\ pc \in {"rotate", "write", "post"} => observation.number = sequence
    /\ NumberBeingDeliveredIsFresh

StoreTypes ==
    /\ primary \in File /\ backup \in File
    /\ Load \in Nat
    /\ sequence \in Nat /\ posted \in Nat /\ floor \in Nat
    /\ failures \in Nat /\ corruptions \in Nat

LEMMA TypesOfStore ==
  ASSUME TypeOK PROVE StoreTypes
  BY LoadedHeight DEF TypeOK, StoreTypes

(* Minting moves the counter alone: the new number is above the file, and  *)
(* with no failure and no corruption above everything that was posted.     *)
LEMMA MintKeepsStoreInv ==
  ASSUME TypeOK, StoreInv, pc = "idle",
         sequence' = sequence + 1, pc' = "rotate", observation'.number = sequence + 1,
         UNCHANGED <<fileVars, posted, floor, faultVars>>
  PROVE  StoreInv'
<1>1. StoreTypes
  BY TypesOfStore
<1>2. Load' = Load /\ FilesOrdered' /\ UNCHANGED <<posted, floor, failures, corruptions>>
  BY DEF StoreInv, FilesOrdered, Valid, Load, Height, fileVars, faultVars
<1>3. Load <= sequence
  BY DEF StoreInv, MemoryNotBehindDisk, Up
<1>4. corruptions = 0 => floor <= Load
  BY DEF StoreInv, CompletedStoreSurvives
<1>5. failures = 0 /\ corruptions = 0 => posted <= floor
  BY DEF StoreInv
<1>6. failures = 0 /\ corruptions = 0 => sequence + 1 > posted
  BY <1>1, <1>3, <1>4, <1>5 DEF StoreTypes
<1> QED
  BY <1>1, <1>2, <1>3, <1>4, <1>5, <1>6
  DEF StoreInv, StoreTypes, CompletedStoreSurvives, MemoryNotBehindDisk,
      NumberBeingDeliveredIsFresh, Up

(* A step that moves neither the files nor a number, and leaves the worker *)
(* in its place or takes it somewhere that claims nothing.                 *)
LEMMA QuietStepKeepsStoreInv ==
  ASSUME StoreInv, Load' = Load, FilesOrdered',
         UNCHANGED <<posted, floor, corruptions, sequence, failures>>,
         (UNCHANGED <<pc, observation>>) \/ (pc' \in {"idle", "flush_rotate"} /\ Up) \/ pc' = "down"
  PROVE  StoreInv'
  BY DEF StoreInv, CompletedStoreSurvives, MemoryNotBehindDisk, NumberBeingDeliveredIsFresh, Up

(* A number is put on the wire once it is durable, so with no failure what *)
(* was posted stays below what the files hold.                             *)
LEMMA PostKeepsStoreInv ==
  ASSUME TypeOK, StoreInv, PostEnds, OnTheWire
  PROVE  StoreInv'
<1>1. StoreTypes
  BY TypesOfStore
<1>2. Load' = Load /\ FilesOrdered'
  BY DEF StoreInv, FilesOrdered, Valid, Load, Height, PostEnds, fileVars
<1>3. /\ observation.number = sequence
      /\ failures = 0 => floor = sequence
      /\ failures = 0 /\ corruptions = 0 => posted <= floor
      /\ posted' = IF observation.number > posted THEN observation.number ELSE posted
      /\ UNCHANGED <<floor, failures, corruptions, sequence>>
      /\ pc = "post" /\ pc' = "idle"
  BY DEF StoreInv, PostEnds, OnTheWire, faultVars
<1>4. failures' = 0 /\ corruptions' = 0 => posted' <= floor'
  BY <1>1, <1>3 DEF StoreTypes
<1> QED
  BY <1>2, <1>3, <1>4 DEF StoreInv, CompletedStoreSurvives, MemoryNotBehindDisk,
     NumberBeingDeliveredIsFresh, Up

LEMMA RotateKeepsStoreInv ==
  ASSUME TypeOK, StoreInv, RotateFiles
  PROVE  StoreInv'
<1>1. StoreTypes
  BY TypesOfStore
<1>2. Load' = Load /\ FilesOrdered'
  BY <1>1, RotationKeepsLoad DEF StoreInv, StoreTypes, RotateFiles
<1>3. /\ UNCHANGED <<sequence, observation, posted, floor, corruptions>>
      /\ (pc = "rotate" /\ pc' = "write") \/ (pc = "flush_rotate" /\ pc' = "flush_write")
      /\ failures' = 0 => failures = 0
  <2>1. failures' = failures \/ failures' = failures + 1
    BY DEF RotateFiles
  <2>2. failures' = 0 => failures = 0
    BY <1>1, <2>1 DEF StoreTypes
  <2> QED  BY <2>2 DEF RotateFiles
<1> QED
  BY <1>2, <1>3 DEF StoreInv, CompletedStoreSurvives, MemoryNotBehindDisk,
     NumberBeingDeliveredIsFresh, Up

LEMMA WriteKeepsStoreInv ==
  ASSUME TypeOK, StoreInv, WriteCompletes
  PROVE  StoreInv'
<1>1. StoreTypes
  BY TypesOfStore
<1>2. Load <= sequence
  BY DEF StoreInv, MemoryNotBehindDisk, Up, WriteCompletes
<1>3. Load' = sequence /\ FilesOrdered'
  BY <1>1, <1>2, WriteRaisesLoad DEF StoreTypes, WriteCompletes
<1>4. failures = 0 /\ corruptions = 0 => posted <= sequence
  BY <1>1, <1>2 DEF StoreInv, StoreTypes, CompletedStoreSurvives
<1>5. /\ floor' = sequence
      /\ UNCHANGED <<sequence, observation, posted, failures, corruptions>>
      /\ (pc = "write" /\ pc' = "post") \/ pc' = "down"
  BY DEF WriteCompletes, AfterStore, faultVars
<1> QED
  BY <1>1, <1>2, <1>3, <1>4, <1>5 DEF StoreInv, StoreTypes, CompletedStoreSurvives,
     MemoryNotBehindDisk, NumberBeingDeliveredIsFresh, Up

LEMMA StoreInvInitially == Init => StoreInv
  BY FileAssumption DEF Init, FilesInit, StoreInv, FilesOrdered, CompletedStoreSurvives,
     MemoryNotBehindDisk, NumberBeingDeliveredIsFresh, Load, Height, Valid

(* Every step keeps it. *)
LEMMA StoreInvInductive == TypeOK /\ StoreInv /\ [Next]_vars => StoreInv'
<1> SUFFICES ASSUME TypeOK, StoreInv, [Next]_vars
             PROVE  StoreInv'
  OBVIOUS
<1>1. UNCHANGED fileVars => Load' = Load /\ FilesOrdered'
  BY DEF StoreInv, FilesOrdered, Valid, Load, Height, fileVars
<1>2. CASE ObserveCallback
  BY <1>1, <1>2, QuietStepKeepsStoreInv DEF ObserveCallback, workerVars, faultVars
<1>3. CASE DropRepeatedEnd
  BY <1>1, <1>3, QuietStepKeepsStoreInv DEF DropRepeatedEnd, TakeNext, faultVars
<1>4. CASE DrainRunEnd
  BY <1>4, MintKeepsStoreInv DEF DrainRunEnd, TakeNext, Mint
<1>5. ASSUME NEW identified \in BOOLEAN, DrainEvidence(identified)
      PROVE  StoreInv'
  BY <1>5, MintKeepsStoreInv DEF DrainEvidence, TakeNext, Mint
<1>6. CASE RotateFiles
  BY <1>6, RotateKeepsStoreInv
<1>7. CASE WriteCompletes
  BY <1>7, WriteKeepsStoreInv
<1>8. CASE WriteFails
  <2>1. StoreTypes
    BY TypesOfStore
  <2>2. /\ Load' = Load /\ FilesOrdered'
        /\ UNCHANGED <<sequence, observation, posted, floor, corruptions>>
        /\ failures' # 0
        /\ pc' \in {"post", "down"} /\ (pc' = "post" => pc = "write")
    BY <1>1, <1>8, <2>1 DEF WriteFails, AfterStore, StoreTypes
  <2> QED  BY <1>8, <2>2 DEF StoreInv, CompletedStoreSurvives, MemoryNotBehindDisk,
     NumberBeingDeliveredIsFresh, Up, WriteFails
<1>9. CASE PostAccepted
  BY <1>9, PostKeepsStoreInv DEF PostAccepted
<1>10. CASE PostNotAccepted
  BY <1>10, PostKeepsStoreInv DEF PostNotAccepted
<1>11. CASE PostSkipped
  BY <1>1, <1>11, QuietStepKeepsStoreInv DEF PostSkipped, PostEnds, faultVars, Up
<1>12. CASE WorkerJoined
  BY <1>1, <1>12, QuietStepKeepsStoreInv DEF WorkerJoined, faultVars, Up
<1>13. CASE StopRequested
  BY <1>1, <1>13, QuietStepKeepsStoreInv DEF StopRequested
<1>14. CASE Crash
  BY <1>1, <1>14, QuietStepKeepsStoreInv DEF Crash
<1>15. CASE Restart
  <2>1. StoreTypes
    BY TypesOfStore
  <2>2. /\ Load' = Load /\ FilesOrdered'
        /\ UNCHANGED <<posted, floor, failures, corruptions>>
        /\ sequence' = Load /\ pc' = "idle"
    BY <1>1, <1>15 DEF Restart, Resumed, faultVars
  <2> QED  BY <2>1, <2>2 DEF StoreInv, StoreTypes, CompletedStoreSurvives, MemoryNotBehindDisk,
     NumberBeingDeliveredIsFresh, Up
<1>16. CASE Corrupt
  <2>1. StoreTypes
    BY TypesOfStore
  <2>2. Load' <= Load /\ FilesOrdered'
    BY <1>16, <2>1, CorruptionLowersLoad DEF Corrupt, StoreInv, StoreTypes
  <2>3. Load' \in Nat
    BY <1>16, <2>1 DEF Corrupt, CorruptPrimary, CorruptBackup, Load, Height, Valid, StoreTypes,
       File
  <2>4. /\ corruptions' # 0
        /\ UNCHANGED <<pc, sequence, observation, posted, floor, failures>>
    BY <1>16, <2>1 DEF Corrupt, workerVars, StoreTypes
  <2>5. Load <= sequence \/ pc = "down"
    BY DEF StoreInv, MemoryNotBehindDisk, Up
  <2> QED  BY <2>1, <2>2, <2>3, <2>4, <2>5 DEF StoreInv, StoreTypes, CompletedStoreSurvives,
     MemoryNotBehindDisk, NumberBeingDeliveredIsFresh, Up
<1>17. CASE UNCHANGED vars
  BY <1>1, <1>17, QuietStepKeepsStoreInv DEF vars, workerVars, faultVars
<1> QED
  BY <1>2, <1>3, <1>4, <1>5, <1>6, <1>7, <1>8, <1>9, <1>10, <1>11, <1>12, <1>13, <1>14,
     <1>15, <1>16, <1>17 DEF Next, Worker

(* For every bound on failures, crashes and corruptions: without           *)
(* corruption the files never lose a completed store, the worker is never  *)
(* behind the file, and no number is delivered twice.                      *)
THEOREM StoreCorrect ==
  Spec => [](CompletedStoreSurvives /\ MemoryNotBehindDisk /\ NumberBeingDeliveredIsFresh)
<1>1. Init => StoreInv
  BY StoreInvInitially
<1>2. TypeOK /\ StoreInv /\ [Next]_vars => StoreInv'
  BY StoreInvInductive
<1>3. StoreInv => CompletedStoreSurvives /\ MemoryNotBehindDisk /\ NumberBeingDeliveredIsFresh
  BY DEF StoreInv
<1> QED
  BY <1>1, <1>2, <1>3, TypeCorrect, PTL DEF Spec
-----------------------------------------------------------------------------
(* What the teardown flush adds.  Between stores the file holds the        *)
(* counter, so the flush rotates that very number into the backup before   *)
(* it writes it again: after a clean stop both files hold it.              *)
FlushInv ==
    /\ failures = 0 /\ corruptions = 0 /\ pc \in {"idle", "post", "flush_rotate"}
          => Load = sequence
    /\ failures = 0 /\ corruptions = 0 /\ pc = "flush_write" => Height(backup) = sequence
    /\ failures = 0 /\ corruptions = 0 /\ pc = "down" /\ stopRequested
          => Height(primary) = floor /\ Height(backup) = floor
    /\ CleanStopSurvivesOneCorruption

(* A step that leaves the files alone and, unless it fails, does not bring *)
(* the worker to a place from which more is claimed.                       *)
LEMMA QuietStepKeepsFlushInv ==
  ASSUME FlushInv, UNCHANGED <<fileVars, floor, corruptions, failures, sequence>>,
         \/ UNCHANGED <<pc, stopRequested>>
         \/ pc \in {"idle", "post"} /\ pc' \in {"idle", "flush_rotate"}
         \/ pc' = "down" /\ stopRequested' = FALSE
         \/ pc # "down" /\ UNCHANGED pc
  PROVE  FlushInv'
<1>1. UNCHANGED <<Load, Height(primary), Height(backup), floor, corruptions, failures, sequence>>
  BY DEF Load, Height, Valid, fileVars
<1>2. CASE UNCHANGED <<pc, stopRequested>>
  BY <1>1, <1>2 DEF FlushInv, CleanStopSurvivesOneCorruption
<1>3. CASE pc \in {"idle", "post"} /\ pc' \in {"idle", "flush_rotate"}
  BY <1>1, <1>3 DEF FlushInv, CleanStopSurvivesOneCorruption
<1>4. CASE pc' = "down" /\ stopRequested' = FALSE
  BY <1>1, <1>4 DEF FlushInv, CleanStopSurvivesOneCorruption
<1>5. CASE pc # "down" /\ UNCHANGED pc
  BY <1>1, <1>5 DEF FlushInv, CleanStopSurvivesOneCorruption
<1> QED  BY <1>2, <1>3, <1>4, <1>5

LEMMA RotateKeepsFlushInv ==
  ASSUME TypeOK, StoreInv, FlushInv, RotateFiles
  PROVE  FlushInv'
<1>1. StoreTypes
  BY TypesOfStore
<1>2. CASE pc = "rotate"
  BY <1>2 DEF RotateFiles, FlushInv, CleanStopSurvivesOneCorruption
<1>3. CASE pc = "flush_rotate" /\ failures' # 0
  BY <1>3 DEF RotateFiles, FlushInv, CleanStopSurvivesOneCorruption
<1>4. CASE pc = "flush_rotate" /\ failures' = 0
  <2>1. Rotate /\ failures = 0
    BY <1>1, <1>4 DEF RotateFiles, StoreTypes
  <2>2. Height(backup') = Load
    <3>1. CASE Valid(primary)
      BY <1>1, <2>1, <3>1 DEF Rotate, Height, Load, Valid, StoreInv, FilesOrdered, StoreTypes, File
    <3>2. CASE ~Valid(primary)
      BY <1>1, <2>1, <3>2 DEF Rotate, Height, Load, Valid, StoreTypes, File
    <3> QED  BY <3>1, <3>2
  <2>3. Height(backup)' = Height(backup')
    BY DEF Height, Valid
  <2>4. pc' = "flush_write" /\ UNCHANGED <<sequence, corruptions>>
    BY <1>4 DEF RotateFiles
  <2>5. corruptions = 0 => Load = sequence
    BY <1>4, <2>1 DEF FlushInv
  <2> QED
    BY <2>2, <2>3, <2>4, <2>5 DEF FlushInv, CleanStopSurvivesOneCorruption
<1> QED  BY <1>2, <1>3, <1>4 DEF RotateFiles

LEMMA WriteKeepsFlushInv ==
  ASSUME TypeOK, StoreInv, FlushInv, WriteCompletes
  PROVE  FlushInv'
<1>1. StoreTypes
  BY TypesOfStore
<1>2. Load <= sequence
  BY DEF StoreInv, MemoryNotBehindDisk, Up, WriteCompletes
<1>3. Load' = sequence
  BY <1>1, <1>2, WriteRaisesLoad DEF StoreTypes, WriteCompletes
<1>4. Height(primary)' = sequence /\ Height(backup)' = Height(backup)
  BY <1>1 DEF WriteCompletes, WritePrimary, Height, Valid, StoreTypes
<1>5. /\ floor' = sequence
      /\ UNCHANGED <<sequence, failures, corruptions>>
      /\ (pc = "write" /\ pc' = "post") \/ (pc = "flush_write" /\ pc' = "down")
  BY DEF WriteCompletes, AfterStore, faultVars
<1> QED
  BY <1>1, <1>3, <1>4, <1>5 DEF FlushInv, StoreTypes, CleanStopSurvivesOneCorruption

LEMMA CorruptionKeepsFlushInv ==
  ASSUME TypeOK, StoreInv, FlushInv, Corrupt
  PROVE  FlushInv'
<1>1. StoreTypes
  BY TypesOfStore
<1>2. /\ corruptions' = corruptions + 1
      /\ UNCHANGED <<pc, stopRequested, failures, floor>>
  BY DEF Corrupt, workerVars
<1>3. corruptions' # 0 /\ (corruptions' <= 1 => corruptions = 0)
  BY <1>1, <1>2 DEF StoreTypes
<1>4. Load' >= Height(primary') /\ Load' >= Height(backup')
  BY <1>1 DEF Corrupt, CorruptPrimary, CorruptBackup, Load, Height, Valid, StoreTypes, File
<1>5. primary' = primary \/ backup' = backup
  BY DEF Corrupt, CorruptPrimary, CorruptBackup
<1>6. CASE pc = "down" /\ stopRequested /\ failures = 0 /\ corruptions = 0
  <2>1. Height(primary) = floor /\ Height(backup) = floor
    BY <1>6 DEF FlushInv
  <2>2. floor <= Load'
    BY <1>1, <1>4, <1>5, <2>1 DEF StoreTypes
  <2> QED  BY <1>2, <1>3, <2>2 DEF FlushInv, CleanStopSurvivesOneCorruption
<1>7. CASE ~(pc = "down" /\ stopRequested /\ failures = 0 /\ corruptions = 0)
  BY <1>2, <1>3, <1>7 DEF FlushInv, CleanStopSurvivesOneCorruption
<1> QED  BY <1>6, <1>7

(* A plugin stopped cleanly survives the corruption of either file.        *)
THEOREM CleanStopCorrect == Spec => []CleanStopSurvivesOneCorruption
<1>1. Init => StoreInv /\ FlushInv
  <2>1. Init => StoreInv
    BY StoreInvInitially
  <2>2. Init => FlushInv
    BY FileAssumption DEF Init, FilesInit, FlushInv, CleanStopSurvivesOneCorruption, Load, Height,
       Valid
  <2> QED  BY <2>1, <2>2
<1>2. TypeOK /\ StoreInv /\ FlushInv /\ [Next]_vars => FlushInv'
  <2> SUFFICES ASSUME TypeOK, StoreInv, FlushInv, [Next]_vars
               PROVE  FlushInv'
    OBVIOUS
  <2>1. CASE ObserveCallback
    BY <2>1, QuietStepKeepsFlushInv DEF ObserveCallback, workerVars, faultVars
  <2>2. CASE DropRepeatedEnd
    BY <2>2, QuietStepKeepsFlushInv DEF DropRepeatedEnd, TakeNext, faultVars
  <2>3. CASE DrainRunEnd
    BY <2>3 DEF DrainRunEnd, Mint, FlushInv, CleanStopSurvivesOneCorruption
  <2>4. ASSUME NEW identified \in BOOLEAN, DrainEvidence(identified)
        PROVE  FlushInv'
    BY <2>4 DEF DrainEvidence, Mint, FlushInv, CleanStopSurvivesOneCorruption
  <2>5. CASE RotateFiles
    BY <2>5, RotateKeepsFlushInv
  <2>6. CASE WriteCompletes
    BY <2>6, WriteKeepsFlushInv
  <2>7. CASE WriteFails
    <3>1. failures' # 0
      BY <2>7 DEF WriteFails, TypeOK
    <3> QED  BY <3>1 DEF FlushInv, CleanStopSurvivesOneCorruption
  <2>8. CASE PostAccepted
    BY <2>8, QuietStepKeepsFlushInv DEF PostAccepted, PostEnds, faultVars
  <2>9. CASE PostNotAccepted
    BY <2>9, QuietStepKeepsFlushInv DEF PostNotAccepted, PostEnds, faultVars
  <2>10. CASE PostSkipped
    BY <2>10, QuietStepKeepsFlushInv DEF PostSkipped, PostEnds, faultVars
  <2>11. CASE WorkerJoined
    BY <2>11, QuietStepKeepsFlushInv DEF WorkerJoined, faultVars
  <2>12. CASE StopRequested
    BY <2>12, QuietStepKeepsFlushInv DEF StopRequested, Up
  <2>13. CASE Crash
    BY <2>13, QuietStepKeepsFlushInv DEF Crash
  <2>14. CASE Restart
    <3>1. Load' = Load
      BY <2>14 DEF Restart, Load, Height, Valid, fileVars
    <3> QED
      BY <2>14, <3>1 DEF Restart, Resumed, FlushInv, CleanStopSurvivesOneCorruption
  <2>15. CASE Corrupt
    BY <2>15, CorruptionKeepsFlushInv
  <2>16. CASE UNCHANGED vars
    BY <2>16, QuietStepKeepsFlushInv DEF vars, workerVars, faultVars
  <2> QED
    BY <2>1, <2>2, <2>3, <2>4, <2>5, <2>6, <2>7, <2>8, <2>9, <2>10, <2>11, <2>12, <2>13, <2>14,
       <2>15, <2>16 DEF Next, Worker
<1>3. TypeOK /\ StoreInv /\ [Next]_vars => StoreInv'
  BY StoreInvInductive
<1>4. FlushInv => CleanStopSurvivesOneCorruption
  BY DEF FlushInv
<1> QED
  BY <1>1, <1>2, <1>3, <1>4, TypeCorrect, PTL DEF Spec
=============================================================================
