----------------------- MODULE PolicyActivationProofs -----------------------
(***************************************************************************)
(* Proofs about PolicyActivation, for every set of epochs, either backend, *)
(* with or without a legacy epoch and any number of faults.                *)
(***************************************************************************)
EXTENDS PolicyActivation, TLAPS

USE NoneAssumption, BackendAssumption, LegacyAssumption, LimitsAssumption,
    BoundsAssumption

\* The initial states, fresh or upgraded, satisfy the inductive invariant.
LEMMA InitInv == Init => ActivationInv
<1> SUFFICES ASSUME NEW old \in {None, Legacy}, InitAt(old) PROVE ActivationInv
  BY DEF Init
<1>1. PICK l \in Limits :
        /\ limits = [e \in Epochs |-> IF e = old THEN l ELSE NoLimits]
        /\ config = IF old = None THEN NoLimits ELSE l
  BY DEF InitAt
<1>2. TypeOK
  BY <1>1 DEF InitAt, TypeOK, Artifacts, Steps
<1>3. RunningInv
  BY DEF InitAt, RunningInv, Steps
<1>4. ActiveWasAccepted
  BY <1>1 DEF InitAt, ActiveWasAccepted
<1>5. QED
  BY <1>2, <1>3, <1>4 DEF InitAt, ActivationInv, SupersededStaysRetired,
     AcceptedIsStaged

\* Every step of the ceremony, the activation and the chain preserves it.
LEMMA NextInv == ActivationInv /\ [Next]_vars => ActivationInv'
<1> SUFFICES ASSUME ActivationInv, [Next]_vars PROVE ActivationInv'
  OBVIOUS
<1> USE DEF ActivationInv, TypeOK, RunningInv, SupersededStaysRetired,
            ActiveWasAccepted, AcceptedIsStaged, Artifacts, Steps,
            chainVars, ceremonyVars, fileVars, procVars
<1>1. ASSUME NEW e \in Epochs, NEW l \in Limits, Propose(e, l)
      PROVE  ActivationInv'
  BY <1>1 DEF Propose
<1>2. ASSUME NEW e \in Epochs, Approve(e) PROVE ActivationInv'
  BY <1>2 DEF Approve
<1>3. ASSUME NEW e \in Epochs, LosePackage(e) PROVE ActivationInv'
  BY <1>3 DEF LosePackage
<1>4. ASSUME NEW e \in Epochs, Start(e) PROVE ActivationInv'
  BY <1>4 DEF Start, CanOpen, Superseded
<1>5. CASE StageArtifact
  BY <1>5 DEF StageArtifact
<1>6. CASE StagingDone
  BY <1>6 DEF StagingDone
<1>7. CASE BroadcastAccepted
  BY <1>7 DEF BroadcastAccepted
<1>8. CASE BroadcastRejected
  BY <1>8 DEF BroadcastRejected, Return
<1>9. CASE BroadcastAnswerLost
  BY <1>9 DEF BroadcastAnswerLost, Return
<1>10. CASE ArchivePrevious
  BY <1>10 DEF ArchivePrevious
<1>11. CASE WritePointer
  BY <1>11 DEF WritePointer
<1>12. CASE SaveLimits
  BY <1>12 DEF SaveLimits
<1>13. CASE MarkActivated
  BY <1>13 DEF MarkActivated, Return
<1>14. CASE Crash
  BY <1>14 DEF Crash, Return
<1>15. CASE ConfirmRollover
  BY <1>15 DEF ConfirmRollover
<1>16. CASE OtherEnters
  BY <1>16 DEF OtherEnters
<1>17. CASE ConfirmOther
  BY <1>17 DEF ConfirmOther
<1>18. CASE Evict
  BY <1>18 DEF Evict
<1>19. CASE UNCHANGED vars
  BY <1>19 DEF vars
<1>20. QED
  BY <1>1, <1>2, <1>3, <1>4, <1>5, <1>6, <1>7, <1>8, <1>9, <1>10, <1>11,
     <1>12, <1>13, <1>14, <1>15, <1>16, <1>17, <1>18, <1>19
     DEF Next, ActivationStep

\* The inductive invariant holds throughout, for any number of epochs, crashes,
\* lost answers and retries.
THEOREM ActivationInvariant == Spec => []ActivationInv
  BY InitInv, NextInv, PTL DEF Spec

\* The state of an activation, its files and the chain always have their types.
THEOREM TypeCorrect == Spec => []TypeOK
<1>1. ActivationInv => TypeOK
  BY DEF ActivationInv
<1>2. QED
  BY <1>1, InitInv, NextInv, PTL DEF Spec

\* However activations crash, are retried, replayed or raced by other spenders,
\* the pointer of the phone never returns to an epoch it has left.
THEOREM NoWayBack == Spec => []SupersededStaysRetired
<1>1. ActivationInv => SupersededStaysRetired
  BY DEF ActivationInv
<1>2. QED
  BY <1>1, InitInv, NextInv, PTL DEF Spec

\* A rollover no backend accepted never becomes the active policy, and its
\* limits never reach the config.
THEOREM RejectedIsHarmless == Spec => []ActiveWasAccepted
<1>1. ActivationInv => ActiveWasAccepted
  BY DEF ActivationInv
<1>2. QED
  BY <1>1, InitInv, NextInv, PTL DEF Spec

\* Every rollover the network may confirm can be retried and acted upon from
\* what is on the phone's disk.
THEOREM RetryMaterialKept == Spec => []AcceptedIsStaged
<1>1. ActivationInv => AcceptedIsStaged
  BY DEF ActivationInv
<1>2. QED
  BY <1>1, InitInv, NextInv, PTL DEF Spec

\* A step of the detailed specification is a switch, an acceptance or nothing
\* to a reader of the pointer.
LEMMA StepRefines == ActivationInv /\ [Next]_vars => [AP!Next]_(AP!vars)
<1> SUFFICES ASSUME ActivationInv, [Next]_vars PROVE [AP!Next]_(AP!vars)
  OBVIOUS
<1> USE DEF AP!Next, AP!vars, AP!Accept, AP!Switch
<1>1. CASE BroadcastAccepted
  BY <1>1 DEF BroadcastAccepted, fileVars, ActivationInv, TypeOK
<1>2. CASE BroadcastAnswerLost
  BY <1>2 DEF BroadcastAnswerLost, fileVars, ActivationInv, TypeOK
<1>3. CASE WritePointer
  <2>1. cur \in accepted \ retired /\ cur \in Epochs
    BY <1>3 DEF WritePointer, ActivationInv, TypeOK, RunningInv
  <2>2. CASE cur = schedule
    BY <1>3, <2>2 DEF WritePointer
  <2>3. CASE cur # schedule
    BY <1>3, <2>1, <2>3 DEF WritePointer
  <2>4. QED
    BY <2>2, <2>3
<1>4. CASE UNCHANGED <<schedule, accepted, retired>>
  BY <1>4
<1>5. QED
  <2>1. CASE \E e \in Epochs, l \in Limits : Propose(e, l)
    BY <1>4, <2>1 DEF Propose, fileVars
  <2>2. CASE \E e \in Epochs : Approve(e) \/ LosePackage(e) \/ Start(e)
    BY <1>4, <2>2 DEF Approve, LosePackage, Start, fileVars
  <2>3. CASE ActivationStep
    BY <1>1, <1>3, <1>4, <2>3 DEF ActivationStep, StageArtifact, StagingDone,
       BroadcastRejected, ArchivePrevious, SaveLimits, MarkActivated, fileVars
  <2>4. CASE Crash \/ ConfirmRollover \/ OtherEnters \/ ConfirmOther \/ Evict
    BY <1>4, <2>4 DEF Crash, ConfirmRollover, OtherEnters, ConfirmOther,
       Evict, fileVars
  <2>5. CASE UNCHANGED vars
    BY <1>4, <2>5 DEF vars
  <2>6. QED
    BY <1>2, <2>1, <2>2, <2>3, <2>4, <2>5 DEF Next

\* Activation implements the abstract pointer: what its callers may rely on is
\* ActivePolicy, whatever happens between the writes.
THEOREM Refinement == Spec => ImplementsActivePolicy
<1>1. Init => AP!Init
  BY DEF Init, InitAt, AP!Init
<1>2. QED
  BY <1>1, InitInv, NextInv, StepRefines, PTL
     DEF Spec, ImplementsActivePolicy, AP!Spec
=============================================================================
