----------------------- MODULE ProcessControllerProofs -----------------------
(***************************************************************************)
(* Proofs about the process controller.  ControllerStages says what the    *)
(* stages of Activate have achieved so far; it is kept by every action, so *)
(* other modules that take these actions cite the lemmas, not the theorem. *)
(***************************************************************************)
EXTENDS ProcessController, TLAPS

\* The order of Activate: the flag first, then the observer, the listener and
\* the extension.
ControllerStages ==
    /\ stage # "idle" => activated
    /\ stage \in {"listener", "extension"} => callObserver
    /\ stage = "extension" => screenListener

ControllerInv == ControllerTypeOK /\ ControllerStages /\ LockdownComplete

\* A removal leaves a Boolean flag a Boolean.
LEMMA RemovedIsBoolean ==
    ASSUME NEW flag \in BOOLEAN, NEW removal
    PROVE  Removed(flag, removal) \subseteq BOOLEAN
BY DEF Removed

LEMMA RestoredIsState ==
    ASSUME NEW applied \in SUBSET ExtensionStates
    PROVE  Restored(applied) \subseteq ExtensionStates
BY DEF Restored, ExtensionStates

\* Activate needs no more than the stages to be in order.
LEMMA ActivateKeepsInv ==
    ASSUME ControllerInv, Activate
    PROVE  ControllerInv'
BY DEF ControllerInv, ControllerTypeOK, ControllerStages, LockdownComplete, Activate, Stages

\* A rollback from any stage ends with a controller that is not activated.
LEMMA RollbackKeepsInv ==
    ASSUME ControllerInv, NEW done, RollbackActivate(done)
    PROVE  ControllerInv' /\ ~activated' /\ stage' = "idle"
<1>1. ControllerTypeOK'
  <2>1. Restored({extension, "partial"}) \subseteq ExtensionStates
    BY RestoredIsState DEF ControllerInv, ControllerTypeOK, ExtensionStates
  <2>2. QED
    BY <2>1, RemovedIsBoolean
       DEF ControllerInv, ControllerTypeOK, RollbackActivate, Stages
<1>2. ~activated' /\ stage' = "idle"
  BY DEF RollbackActivate
<1>3. QED
  BY <1>1, <1>2 DEF ControllerInv, ControllerStages, LockdownComplete

\* Each stage of Activate keeps the invariant, whatever it ends with.
LEMMA StageKeepsInv ==
    ASSUME ControllerInv, ActivateStage
    PROVE  ControllerInv'
<1>1. CASE RegisterCallObserver
  <2>1. CASE RollbackActivate({})
    BY <2>1, RollbackKeepsInv
  <2>2. CASE ~RollbackActivate({})
    BY <1>1, <2>2 DEF RegisterCallObserver, ControllerInv, ControllerTypeOK,
       ControllerStages, LockdownComplete, Stages
  <2>3. QED
    BY <2>1, <2>2
<1>2. CASE RegisterScreenListener
  <2>1. CASE RollbackActivate({"observer"})
    BY <2>1, RollbackKeepsInv
  <2>2. CASE ~RollbackActivate({"observer"})
    BY <1>2, <2>2 DEF RegisterScreenListener, ControllerInv, ControllerTypeOK,
       ControllerStages, LockdownComplete, Stages
  <2>3. QED
    BY <2>1, <2>2
<1>3. CASE ActivateExtension
  <2>1. CASE RollbackActivate({"observer", "listener", "extension"})
    BY <2>1, RollbackKeepsInv
  <2>2. CASE ~RollbackActivate({"observer", "listener", "extension"})
    BY <1>3, <2>2 DEF ActivateExtension, ControllerInv, ControllerTypeOK,
       ControllerStages, LockdownComplete, Stages, ExtensionStates
  <2>3. QED
    BY <2>1, <2>2
<1>4. QED
  BY <1>1, <1>2, <1>3 DEF ActivateStage

\* Deactivate, called between activations, ends with one that is not activated.
LEMMA DeactivateKeepsInv ==
    ASSUME ControllerInv, stage = "idle", Deactivate
    PROVE  ControllerInv' /\ ~activated' /\ stage' = "idle"
<1>1. CASE activated
  <2>1. ControllerTypeOK'
    <3>1. Restored({extension}) \subseteq ExtensionStates
      BY RestoredIsState DEF ControllerInv, ControllerTypeOK
    <3>2. QED
      BY <1>1, <3>1, RemovedIsBoolean
         DEF ControllerInv, ControllerTypeOK, Deactivate
  <2>2. ~activated' /\ stage' = "idle"
    BY <1>1 DEF Deactivate
  <2>3. QED
    BY <2>1, <2>2 DEF ControllerInv, ControllerStages, LockdownComplete
<1>2. CASE ~activated
  BY <1>2 DEF Deactivate, controllerVars, ControllerInv, ControllerTypeOK,
     ControllerStages, LockdownComplete
<1>3. QED
  BY <1>1, <1>2

LEMMA StutterKeepsInv ==
    ASSUME ControllerInv, UNCHANGED controllerVars
    PROVE  ControllerInv'
BY DEF controllerVars, ControllerInv, ControllerTypeOK, ControllerStages, LockdownComplete

LEMMA InitMakesInv == ControllerInit => ControllerInv
BY DEF ControllerInit, ControllerInv, ControllerTypeOK, ControllerStages,
   LockdownComplete, Stages, ExtensionStates

\* The controller by itself: whatever failed in earlier activations, rollbacks
\* and deactivations, an activation that succeeds applies every restriction
\* (process_controller.h:111-113: "Every sub-item is fatal").
THEOREM LockdownIsComplete == ControllerSpec => []LockdownComplete
<1>1. ControllerInv /\ [ControllerNext]_controllerVars => ControllerInv'
  <2> SUFFICES ASSUME ControllerInv, [ControllerNext]_controllerVars
               PROVE  ControllerInv'
    OBVIOUS
  <2>1. CASE Activate
    BY <2>1, ActivateKeepsInv
  <2>2. CASE ActivateStage
    BY <2>2, StageKeepsInv
  <2>3. CASE stage = "idle" /\ Deactivate
    BY <2>3, DeactivateKeepsInv
  <2>4. CASE UNCHANGED controllerVars
    BY <2>4, StutterKeepsInv
  <2>5. QED
    BY <2>1, <2>2, <2>3, <2>4 DEF ControllerNext
<1>2. ControllerInv => LockdownComplete
  BY DEF ControllerInv
<1>3. QED
  BY InitMakesInv, <1>1, <1>2, PTL DEF ControllerSpec
=============================================================================
