------------------------ MODULE IndexReconcileProofs ------------------------
(***************************************************************************)
(* Theorems about IndexReconcile, for any number of instances, retentions  *)
(* and deaths, and any lag of the secondary.                               *)
(***************************************************************************)
EXTENDS IndexReconcile, TLAPS

\* A reading is an index; what is done about it is a stage.
LEMMA ReconcileGivesStage ==
  ASSUME NEW existing, NEW c
  PROVE  /\ Reconcile(existing, c) \in Stages
         /\ Reconcile(existing, c) = "dropping" => existing = Foreign
         /\ Reconcile(existing, c) # "up"
BY DEF Reconcile, Stages

\* Before the first boot, types hold.
LEMMA InitTypes == Init => TypeOK
BY IndexAssumption DEF Init, TypeOK, Index, Stages

\* No step of a boot leaves the types.
LEMMA StepTypes == TypeOK /\ [Next]_vars => TypeOK'
<1> SUFFICES ASSUME TypeOK, [Next]_vars
             PROVE  TypeOK'
  OBVIOUS
<1> USE DEF TypeOK
<1>1. CASE Replicate
  BY <1>1 DEF Replicate
<1>2. ASSUME NEW i \in Instances, NEW c \in Retentions, Boot(i, c)
      PROVE  TypeOK'
  BY <1>2 DEF Boot, At, Stages
<1>3. ASSUME NEW i \in Instances, Compare(i)
      PROVE  TypeOK'
  BY <1>3, ReconcileGivesStage DEF Compare, At
<1>4. ASSUME NEW i \in Instances, DropIndex(i)
      PROVE  TypeOK'
  BY <1>4 DEF DropIndex, At, Stages, Index
<1>5. ASSUME NEW i \in Instances, CollMod(i)
      PROVE  TypeOK'
  BY <1>5 DEF CollMod, At, Stages, Index
<1>6. ASSUME NEW i \in Instances, CreateIndexes(i)
      PROVE  TypeOK'
  BY <1>6 DEF CreateIndexes, At, Stages, Index
<1>7. ASSUME NEW i \in Instances, Die(i)
      PROVE  TypeOK'
  BY <1>7, IndexAssumption DEF Die, At, Stages
<1>8. CASE UNCHANGED vars
  BY <1>8 DEF vars
<1> QED
  BY <1>1, <1>2, <1>3, <1>4, <1>5, <1>6, <1>7, <1>8 DEF Next, BootStep

\* Types are kept.
THEOREM TypeCorrect == Spec => []TypeOK
<1> QED BY InitTypes, StepTypes, PTL DEF Spec

-----------------------------------------------------------------------------

\* The instance that completes a deployment is the one whose createIndexes
\* just succeeded, and MongoDB accepts that only for its own retention.
LEMMA StepApplies == TypeOK /\ DeploymentIsApplied /\ [Next]_vars => DeploymentIsApplied'
<1> SUFFICES ASSUME TypeOK, DeploymentIsApplied, [Next]_vars, AllUp', OneRetention'
             PROVE  (\A j \in Instances : index = config[j])'
  BY DEF DeploymentIsApplied
<1> USE DEF TypeOK, AllUp, OneRetention
<1>1. CASE Replicate
  BY <1>1 DEF Replicate, DeploymentIsApplied
<1>2. ASSUME NEW i \in Instances, stage'[i] # "up"
      PROVE  FALSE
  BY <1>2
<1>3. ASSUME NEW i \in Instances, BootStep(i)
      PROVE  CreateIndexes(i) /\ index' = config'[i]
  <2>1. stage'[i] = "up"
    BY <1>2
  <2>2. ASSUME NEW c \in Retentions, Boot(i, c)
        PROVE  FALSE
    BY <2>1, <2>2 DEF Boot, At
  <2>3. ~Compare(i)
    BY <2>1, ReconcileGivesStage DEF Compare, At
  <2>4. ~DropIndex(i) /\ ~CollMod(i)
    BY <2>1 DEF DropIndex, CollMod, At
  <2>5. CreateIndexes(i)
    BY <1>3, <2>2, <2>3, <2>4 DEF BootStep
  <2> QED
    BY <2>1, <2>5 DEF CreateIndexes, At
<1>4. ASSUME NEW i \in Instances, Die(i)
      PROVE  FALSE
  BY <1>2, <1>4 DEF Die, At
<1>5. CASE UNCHANGED vars
  BY <1>5 DEF vars, DeploymentIsApplied
<1>6. CASE \E i \in Instances : BootStep(i)
  BY <1>3, <1>6
<1> QED
  BY <1>1, <1>4, <1>5, <1>6 DEF Next

\* A deployment that is complete has the index with its own retention, however
\* many instances booted, died or had to try again.
THEOREM CompleteDeploymentHasIndex == Spec => []DeploymentIsApplied
<1>1. Init => DeploymentIsApplied
  BY DEF Init, DeploymentIsApplied, AllUp
<1> QED
  BY <1>1, InitTypes, StepTypes, StepApplies, PTL DEF Spec

-----------------------------------------------------------------------------

\* Whatever an instance does while the index is ours leaves it ours.
LEMMA StepKeepsIndex == TypeOK /\ [Next]_vars => [Ours => Ours']_vars
<1> SUFFICES ASSUME TypeOK, Next, Ours
             PROVE  Ours'
  BY DEF vars, Ours
<1> USE DEF TypeOK, Ours
<1>1. Existing # Foreign
  BY IndexAssumption DEF Existing
<1>2. CASE Replicate
  BY <1>2, IndexAssumption DEF Replicate
<1>3. ASSUME NEW i \in Instances, NEW c \in Retentions, Boot(i, c)
      PROVE  Ours'
  BY <1>3 DEF Boot, At
<1>4. ASSUME NEW i \in Instances, Compare(i)
      PROVE  Ours'
  BY <1>1, <1>4, ReconcileGivesStage DEF Compare, At
<1>5. ASSUME NEW i \in Instances
      PROVE  ~DropIndex(i)
  BY DEF DropIndex
<1>6. ASSUME NEW i \in Instances, CollMod(i)
      PROVE  Ours'
  BY <1>6 DEF CollMod, At
<1>7. ASSUME NEW i \in Instances, CreateIndexes(i)
      PROVE  Ours'
  BY <1>7 DEF CreateIndexes, At
<1>8. ASSUME NEW i \in Instances, Die(i)
      PROVE  Ours'
  BY <1>8 DEF Die, At
<1> QED
  BY <1>2, <1>3, <1>4, <1>5, <1>6, <1>7, <1>8 DEF Next, BootStep

\* No change of retention ever takes the index away.
THEOREM IndexIsNeverLost == Spec => IndexStays
BY InitTypes, StepTypes, StepKeepsIndex, PTL DEF Spec, IndexStays

=============================================================================
