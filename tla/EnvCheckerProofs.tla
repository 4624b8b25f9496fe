--------------------------- MODULE EnvCheckerProofs ---------------------------
(***************************************************************************)
(* Proofs about the checks of the environment and what takes over from     *)
(* them: for any screens, any number of callbacks under way and any of the *)
(* failures the theorems do not exclude.                                   *)
(*                                                                         *)
(* First the calls that come in while the controller is set up and torn    *)
(* down (IncomingCalls): as long as an observer is removed when it is      *)
(* asked to be, the observer stage always registers a new one, and a new   *)
(* observer is told of a call that rings already.                          *)
(*                                                                         *)
(* Then every condition that CheckAll has passed is accounted for: it is   *)
(* known to be unattended, or a notice of it is pending with the            *)
(* controller.  The steps of telephony and controller are those of         *)
(* IncomingCalls, whose theorems hold here as well.                        *)
(***************************************************************************)
EXTENDS EnvChecker, ProcessControllerProofs, FiniteSetTheorems

\* No observer is left over from an earlier activation.
NoLeftoverObserver == ~activated \/ stage = "observer" => ~callObserver

CallInv ==
    /\ ControllerInv /\ CallTypeOK
    /\ NoLeftoverObserver
    /\ NoCallLetThrough

\* The callbacks in progress are within the bound.
CallbacksBounded ==
    /\ told \in 0..MaxCallbacks /\ rejecting \in 0..MaxCallbacks
    /\ told + rejecting <= MaxCallbacks

\* An action of the telephony service or of one of its callbacks moves at most
\* one callback, and within the bound.
LEMMA CallbacksStayBounded ==
    ASSUME CallbacksBounded, CallRings \/ CallHangsUp \/ OnCallStateUpdated \/ RejectCall
    PROVE  CallbacksBounded'
<1> USE CallAssumption DEF CallbacksBounded
<1>1. CASE CallRings
  <2>1. (told' = told \/ told' = told + 1) /\ rejecting' = rejecting
        /\ told + rejecting + 1 < MaxCallbacks
    BY <1>1, Zenon DEF CallRings
  <2>2. QED
    BY <2>1
<1>2. CASE CallHangsUp
  BY <1>2, Zenon DEF CallHangsUp
<1>3. CASE OnCallStateUpdated
  <2>1. told > 0 /\ told' = told - 1
        /\ (rejecting' = rejecting \/ rejecting' = rejecting + 1)
    BY <1>3, Zenon DEF OnCallStateUpdated
  <2>2. QED
    BY <2>1
<1>4. CASE RejectCall
  <2>1. rejecting > 0 /\ rejecting' = rejecting - 1 /\ told' = told
    BY <1>4, Zenon DEF RejectCall
  <2>2. QED
    BY <2>1
<1>5. QED
  BY <1>1, <1>2, <1>3, <1>4

LEMMA CallTypesInitially == CallInit => ControllerInv /\ CallTypeOK
<1> SUFFICES ASSUME CallInit PROVE ControllerInv /\ CallTypeOK
  OBVIOUS
<1>1. ControllerInv /\ ringing \in BOOLEAN /\ told = 0 /\ rejecting = 0
  BY InitMakesInv, Zenon DEF CallInit
<1>2. CallbacksBounded
  BY <1>1, CallAssumption DEF CallbacksBounded
<1>3. QED
  BY <1>1, <1>2, Zenon DEF CallTypeOK, CallbacksBounded, ControllerInv

\* The bound on the callbacks, and the types, by themselves.
THEOREM CallsTypeCorrect == CallSpec => [](ControllerInv /\ CallTypeOK)
<1>1. ControllerInv /\ CallTypeOK /\ [CallNext]_allVars => ControllerInv' /\ CallTypeOK'
  <2> SUFFICES ASSUME ControllerInv, CallTypeOK, [CallNext]_allVars
               PROVE  ControllerInv' /\ CallTypeOK'
    OBVIOUS
  <2> USE CallAssumption
  <2>1. CASE CallRings \/ CallHangsUp \/ OnCallStateUpdated \/ RejectCall
    <3>1. ControllerInv'
      BY <2>1, StutterKeepsInv DEF CallRings, CallHangsUp, OnCallStateUpdated, RejectCall
    <3>2. ringing' \in BOOLEAN
      BY <2>1, Zenon DEF CallRings, CallHangsUp, OnCallStateUpdated, RejectCall, CallTypeOK
    <3>3. CallbacksBounded'
      BY <2>1, CallbacksStayBounded, Zenon DEF CallTypeOK, CallbacksBounded
    <3>4. QED
      BY <3>1, <3>2, <3>3, Zenon DEF CallTypeOK, CallbacksBounded, ControllerInv
  <2>2. CASE ObserveCalls
    <3>1. ControllerInv'
      BY <2>2, StageKeepsInv DEF ObserveCalls, ActivateStage
    <3>2. (ringing \in BOOLEAN)' /\ (told \in 0..MaxCallbacks)' /\ (rejecting \in 0..MaxCallbacks)'
          /\ (told + rejecting <= MaxCallbacks)'
      BY <2>2 DEF ObserveCalls, CallTypeOK
    <3>3. QED
      BY <3>1, <3>2 DEF CallTypeOK, ControllerInv
  <2>3. CASE ControllerStep \/ UNCHANGED allVars
    <3>1. ControllerInv'
      BY <2>3, ActivateKeepsInv, StageKeepsInv, DeactivateKeepsInv, StutterKeepsInv
         DEF ControllerStep, ActivateStage, allVars
    <3>2. UNCHANGED callVars
      BY <2>3 DEF ControllerStep, allVars, callVars
    <3>3. QED
      BY <3>1, <3>2 DEF CallTypeOK, ControllerInv, callVars
  <2>4. QED
    BY <2>1, <2>2, <2>3 DEF CallNext
<1>2. QED
  BY CallTypesInitially, <1>1, PTL DEF CallSpec

\* Every step keeps a telephony service that loses no observer and rejects
\* what it is asked to from leaving a call unnoticed.
LEMMA CallStepKeepsInv ==
    ASSUME "removeObserver" \notin MayFail, "rejectCall" \notin MayFail,
           CallInv, ControllerInv', CallTypeOK', [CallNext]_allVars
    PROVE  CallInv'
<1>1. CASE CallRings \/ CallHangsUp \/ OnCallStateUpdated \/ RejectCall
  <2>1. UNCHANGED controllerVars
    BY <1>1 DEF CallRings, CallHangsUp, OnCallStateUpdated, RejectCall
  <2>2. NoLeftoverObserver'
    BY <2>1 DEF controllerVars, CallInv, NoLeftoverObserver
  <2>3. NoCallLetThrough'
    <3>1. CASE CallRings \/ CallHangsUp \/ OnCallStateUpdated
      <4> SUFFICES ASSUME activated', stage' # "observer", ringing'
                   PROVE  told' + rejecting' > 0
        BY DEF NoCallLetThrough
      <4>1. activated /\ stage # "observer" /\ callObserver
        BY <2>1 DEF controllerVars, CallInv, ControllerInv, ControllerTypeOK, Stages,
           ControllerStages, LockdownComplete
      <4>2. ringing => told + rejecting > 0
        BY <4>1, Zenon DEF CallInv, NoCallLetThrough
      <4>3. \/ told' = told + 1 /\ rejecting' = rejecting
            \/ ringing /\ told > 0 /\ told' = told - 1 /\ rejecting' = rejecting + 1
        BY <3>1, <4>1, Zenon DEF CallRings, CallHangsUp, OnCallStateUpdated
      <4>4. told \in Nat /\ rejecting \in Nat
        BY CallAssumption DEF CallInv, CallTypeOK
      <4>5. QED
        BY <4>2, <4>3, <4>4
    <3>2. CASE RejectCall
      BY <2>1, <3>2 DEF controllerVars, RejectCall, NoCallLetThrough
    <3>3. QED
      BY <1>1, <3>1, <3>2
  <2>4. QED
    BY <2>2, <2>3 DEF CallInv
<1>2. CASE ObserveCalls
  <2>1. CASE RollbackActivate({})
    <3>1. ~activated' /\ callObserver' = callObserver
      BY <2>1 DEF RollbackActivate
    <3>2. stage = "observer" /\ ~callObserver
      BY <1>2 DEF ObserveCalls, RegisterCallObserver, CallInv, NoLeftoverObserver
    <3>3. QED
      BY <3>1, <3>2 DEF CallInv, NoLeftoverObserver, NoCallLetThrough
  <2>2. CASE ~RollbackActivate({})
    <3>1. stage = "observer" /\ stage' = "listener" /\ activated' = activated /\ callObserver'
      BY <1>2, <2>2 DEF ObserveCalls, RegisterCallObserver
    <3>2. activated /\ ~callObserver
      BY <3>1 DEF CallInv, ControllerInv, ControllerStages, NoLeftoverObserver
    <3>3. NoLeftoverObserver'
      BY <3>1, <3>2 DEF NoLeftoverObserver
    <3>4. ringing' => told' + rejecting' > 0
      BY <1>2, <3>1, <3>2 DEF ObserveCalls, CallInv, CallTypeOK
    <3>5. QED
      BY <3>3, <3>4 DEF CallInv, NoCallLetThrough
  <2>3. QED
    BY <2>1, <2>2
<1>3. CASE ControllerStep
  <2> USE <1>3 DEF ControllerStep
  <2>1. CASE ~activated /\ Activate
    <3>1. activated' /\ stage' = "observer" /\ callObserver' = callObserver
      BY <2>1 DEF Activate
    <3>2. ~callObserver
      BY <2>1 DEF CallInv, NoLeftoverObserver
    <3>3. QED
      BY <3>1, <3>2 DEF CallInv, NoLeftoverObserver, NoCallLetThrough
  <2>2. CASE RegisterScreenListener \/ ActivateExtension
    <3>1. CASE \E done \in {{"observer"}, {"observer", "listener", "extension"}} :
                 RollbackActivate(done)
      BY <3>1 DEF RollbackActivate, Removed, CallInv, NoLeftoverObserver, NoCallLetThrough
    <3>2. CASE ~\E done \in {{"observer"}, {"observer", "listener", "extension"}} :
                 RollbackActivate(done)
      BY <2>2, <3>2 DEF RegisterScreenListener, ActivateExtension, callVars, CallInv,
         ControllerInv, ControllerStages, NoLeftoverObserver, NoCallLetThrough
    <3>3. QED
      BY <3>1, <3>2
  <2>3. CASE stage = "idle" /\ Deactivate
    <3>1. ~activated' /\ stage' = "idle"
      BY <2>3, DeactivateKeepsInv DEF CallInv
    <3>2. ~callObserver'
      BY <2>3 DEF Deactivate, Removed, controllerVars, CallInv, NoLeftoverObserver
    <3>3. QED
      BY <3>1, <3>2 DEF CallInv, NoLeftoverObserver, NoCallLetThrough
  <2>4. QED
    BY <2>1, <2>2, <2>3
<1>4. CASE UNCHANGED allVars
  BY <1>4 DEF allVars, controllerVars, callVars, CallInv, NoLeftoverObserver, NoCallLetThrough
<1>5. QED
  BY <1>1, <1>2, <1>3, <1>4 DEF CallNext

\* As long as the telephony service removes observers and rejects calls when it
\* is asked to, no call is let through once the observer stage is over, for any
\* number of callbacks in progress and whatever else fails.
THEOREM CallsAreRejected ==
    ASSUME "removeObserver" \notin MayFail, "rejectCall" \notin MayFail
    PROVE  CallSpec => []NoCallLetThrough
<1>1. CallInit => CallInv
  BY CallTypesInitially
     DEF CallInit, ControllerInit, CallInv, NoLeftoverObserver, NoCallLetThrough
<1>2. CallInv /\ ControllerInv' /\ CallTypeOK' /\ [CallNext]_allVars => CallInv'
  BY CallStepKeepsInv
<1>3. CallInv => NoCallLetThrough
  BY DEF CallInv
<1>4. QED
  BY <1>1, <1>2, <1>3, CallsTypeCorrect, PTL DEF CallSpec

-----------------------------------------------------------------------------

LEMMA EnvStepIsCallStep == [EnvNext]_<<allVars, envVars>> => [CallNext]_allVars
<1> SUFFICES ASSUME [EnvNext]_<<allVars, envVars>> PROVE [CallNext]_allVars
  OBVIOUS
<1>1. CASE Control
  BY <1>1, Zenon DEF Control, CallNext, ControllerStep
<1>2. CASE ControlCalls
  BY <1>2, Zenon DEF ControlCalls, CallNext
<1>3. CASE OnExternalScreenConnected
  BY <1>3, Zenon DEF OnExternalScreenConnected, CallNext, ControllerStep, allVars
<1>4. CASE CallComes \/ CallAnswered \/ CallHandled
  BY <1>4, Zenon DEF CallComes, CallAnswered, CallHandled, CallNext
<1>5. CASE CallEnds
  BY <1>5, Zenon DEF CallEnds, CallNext
<1>6. CASE StartCheck \/ MakeCheck
  BY <1>6, Zenon DEF StartCheck, MakeCheck
<1>7. ASSUME NEW c \in Conditions, ConditionComes(c) \/ ConditionGoes(c) PROVE UNCHANGED allVars
  BY <1>7, Zenon DEF ConditionComes, ConditionGoes
<1>8. ASSUME NEW s \in Screens, ScreenConnects(s) \/ ScreenDisconnects(s) PROVE UNCHANGED allVars
  BY <1>8, Zenon DEF ScreenConnects, ScreenDisconnects
<1>9. QED
  BY <1>1, <1>2, <1>3, <1>4, <1>5, <1>6, <1>7, <1>8, Zenon DEF EnvNext

\* The telephony observer registers, is told and rejects around the stages of
\* the controller; with the calls left out, the controller is the one of
\* ProcessController.
THEOREM CallsRefineController == CallSpec => ControllerSpec
<1>1. CallInit => ControllerInit
  BY DEF CallInit
<1>2. [CallNext]_allVars => [ControllerNext]_controllerVars
  <2>1. CallRings \/ CallHangsUp \/ OnCallStateUpdated \/ RejectCall => UNCHANGED controllerVars
    BY Zenon DEF CallRings, CallHangsUp, OnCallStateUpdated, RejectCall
  <2>2. ObserveCalls \/ ControllerStep => ControllerNext
    BY Zenon DEF ObserveCalls, ControllerStep, ControllerNext, ActivateStage
  <2>3. UNCHANGED allVars => UNCHANGED controllerVars
    BY Zenon DEF allVars
  <2>4. QED
    BY <2>1, <2>2, <2>3, Zenon DEF CallNext
<1>3. QED
  BY <1>1, <1>2, PTL DEF CallSpec, ControllerSpec

\* The checks leave telephony and controller as they are: what is proved of
\* these two holds with the checks in front of them.
THEOREM EnvRefinesCalls == EnvSpec => CallSpec
<1>1. EnvInit => CallInit
  BY DEF EnvInit
<1>2. QED
  BY <1>1, EnvStepIsCallStep, PTL DEF EnvSpec, CallSpec

\* Whatever the checks, the device and the calls do between the stages of
\* Activate and Deactivate, a controller past its last stage has every
\* restriction in force (ProcessController::Activate, RollbackActivate).
THEOREM LockdownAmidCalls == EnvSpec => []LockdownComplete
BY EnvRefinesCalls, CallsRefineController, LockdownIsComplete, PTL

-----------------------------------------------------------------------------

Subjects == Conditions \cup {"screens", "call"}

LEMMA ChecksAre ==
    /\ Len(Checks) = 6 /\ Passed = 7
    /\ \A i \in 1..6 : Checks[i] \in Subjects
BY DEF Checks, Passed, Subjects, Conditions

\* The next check is one more that is past.
LEMMA PastGrows ==
    ASSUME check \in 1..6, check' = check + 1, NEW c, Past(c)'
    PROVE  Past(c) \/ c = Checks[check]
<1>1. PICK i \in 1..6 : Checks[i] = c /\ i < check + 1
  BY ChecksAre DEF Past
<1>2. CASE i = check
  BY <1>1, <1>2
<1>3. CASE i < check
  BY <1>1, <1>3, ChecksAre DEF Past
<1>4. QED
  BY <1>1, <1>2, <1>3

LEMMA NothingPast ==
    ASSUME check \in {0, 1}, NEW c PROVE ~Past(c)
BY ChecksAre DEF Past

LEMMA AllPast ==
    ASSUME check = Passed, NEW c \in Subjects PROVE Past(c)
<1>1. \E i \in 1..6 : Checks[i] = c
  BY DEF Checks, Subjects, Conditions
<1>2. QED
  BY <1>1, ChecksAre DEF Past

LEMMA PastSame ==
    ASSUME UNCHANGED check, NEW c PROVE Past(c)' <=> Past(c)
BY DEF Past

\* Types, and the time an activated controller has.
DeviceOK ==
    /\ check \in 0..Passed
    /\ screens \in SUBSET Screens /\ screenNotices \in 0..MaxNotices
    /\ talking \in BOOLEAN
    /\ activated => check = Passed

LEMMA DeviceKept ==
    ASSUME DeviceOK, ControllerInv, [EnvNext]_<<allVars, envVars>> PROVE DeviceOK'
<1> USE EnvAssumption, ChecksAre DEF DeviceOK
<1>1. CASE StartCheck
  BY <1>1 DEF StartCheck, allVars, controllerVars
<1>2. CASE MakeCheck
  <2>1. check \in 1..6 /\ check' \in {0, check + 1} /\ UNCHANGED <<screens, screenNotices, activated>>
    BY <1>2 DEF MakeCheck, allVars, controllerVars
  <2>2. ~activated
    BY <2>1
  <2>3. talking' \in BOOLEAN
    BY <1>2, Zenon DEF MakeCheck
  <2>4. QED
    BY <2>1, <2>2, <2>3
<1>3. CASE Control \/ ControlCalls
  <2>1. UNCHANGED <<screens, screenNotices>> /\ check' = IF activated' THEN check ELSE 0
    BY <1>3, Zenon DEF Control, ControlCalls, Kept
  <2>2. talking' \in BOOLEAN
    BY <1>3, Zenon DEF Control, ControlCalls
  <2>3. activated' => check = Passed
    <3>1. CASE activated
      BY <3>1
    <3>2. CASE ~activated
      BY <1>3, <3>2 DEF Control, ControlCalls, ObserveCalls, RegisterCallObserver,
         RegisterScreenListener, ActivateExtension, Deactivate, ControllerInv, ControllerStages
    <3>3. QED
      BY <3>1, <3>2
  <2>4. QED
    BY <2>1, <2>2, <2>3
<1>4. CASE OnExternalScreenConnected
  <2>1. screenNotices > 0 /\ screenNotices' = screenNotices - 1 /\ UNCHANGED screens
    BY <1>4, Zenon DEF OnExternalScreenConnected
  <2>2. talking' \in BOOLEAN
    BY <1>4, Zenon DEF OnExternalScreenConnected
  <2>3. check' \in {check, 0} /\ (activated' => activated /\ check' = check)
    BY <1>4 DEF OnExternalScreenConnected, Kept, Deactivate, controllerVars
  <2>4. QED
    BY <2>1, <2>2, <2>3
<1>5. ASSUME NEW c \in Conditions, ConditionComes(c) \/ ConditionGoes(c) PROVE DeviceOK'
  <2>1. UNCHANGED <<activated, check, screens, talking, screenNotices>>
    BY <1>5, Zenon DEF ConditionComes, ConditionGoes, allVars, controllerVars
  <2>2. QED
    BY <2>1
<1>6. ASSUME NEW s \in Screens, ScreenConnects(s) PROVE DeviceOK'
  <2>1. UNCHANGED <<activated, check, talking>> /\ screens' = screens \cup {s}
        /\ (Noticed => screenNotices < MaxNotices)
        /\ screenNotices' = IF Noticed THEN screenNotices + 1 ELSE screenNotices
    BY <1>6, Zenon DEF ScreenConnects, allVars, controllerVars
  <2>2. QED
    BY <2>1
<1>7. ASSUME NEW s \in Screens, ScreenDisconnects(s) PROVE DeviceOK'
  <2>1. UNCHANGED <<activated, check, talking, screenNotices>> /\ screens' = screens \ {s}
    BY <1>7, Zenon DEF ScreenDisconnects, allVars, controllerVars
  <2>2. QED
    BY <2>1
<1>8. CASE CallComes \/ CallAnswered \/ CallEnds \/ CallHandled
  <2>1. UNCHANGED <<activated, check, screens, screenNotices>>
    BY <1>8, Zenon DEF CallComes, CallAnswered, CallEnds, CallHandled, CallRings, CallHangsUp,
       OnCallStateUpdated, RejectCall, allVars, controllerVars
  <2>2. talking' \in BOOLEAN
    BY <1>8, Zenon DEF CallComes, CallAnswered, CallEnds, CallHandled
  <2>3. QED
    BY <2>1, <2>2
<1>9. CASE UNCHANGED <<allVars, envVars>>
  BY <1>9 DEF allVars, controllerVars, envVars
<1>10. QED
  BY <1>1, <1>2, <1>3, <1>4, <1>5, <1>6, <1>7, <1>8, <1>9, Zenon DEF EnvNext

-----------------------------------------------------------------------------

\* A notice of the condition is with the controller, or will be.
Pending(c) ==
    /\ activated
    /\ \/ c = "screens" /\ stage \in {"extension", "idle"} /\ screenNotices > 0
       \/ c = "call" /\ ~talking /\ stage # "observer"

Accounted(c) == Past(c) /\ Holds(c) => c \in unattended \/ Pending(c)
AllAccounted == \A c \in Subjects : Accounted(c)

EnvInv == DeviceOK /\ CallInv /\ AllAccounted

\* A condition of the device is none of the other two.
LEMMA SubjectsApart ==
    /\ "screens" \notin Conditions /\ "call" \notin Conditions /\ "screens" # "call"
    /\ \A c \in Subjects : c = "screens" \/ c = "call" \/ c \in Conditions
    /\ "screens" \in Subjects /\ "call" \in Subjects
BY DEF Subjects, Conditions

LEMMA HoldsIs ==
    /\ Holds("screens") <=> IsMultiScreen(screens)
    /\ Holds("call") <=> IsInCall
    /\ \A c \in Conditions : Holds(c) <=> c \in present
BY SubjectsApart DEF Holds

LEMMA HoldsNextIs ==
    /\ Holds("screens")' <=> IsMultiScreen(screens')
    /\ Holds("call")' <=> IsInCall'
BY SubjectsApart DEF Holds

\* What holds depends on the screens, the calls and the conditions.
LEMMA HoldsSame ==
    ASSUME UNCHANGED <<present, screens, talking, ringing>>, NEW c \in Subjects
    PROVE  Holds(c)' <=> Holds(c)
BY DEF Holds, IsInCall, IsMultiScreen

\* With one screen less, none that was not there becomes external.
LEMMA FewerScreens ==
    ASSUME DeviceOK, NEW s, IsMultiScreen(screens \ {s}) PROVE IsMultiScreen(screens)
<1>1. IsFiniteSet(screens)
  BY EnvAssumption, FS_Subset DEF DeviceOK
<1>2. Cardinality(screens) \in Nat /\ Cardinality(screens \ {s}) <= Cardinality(screens)
  <2>1. Cardinality(screens) \in Nat
    BY <1>1, FS_CardinalityType
  <2>2. Cardinality(screens \ {s}) = IF s \in screens THEN Cardinality(screens) - 1
                                                     ELSE Cardinality(screens)
    BY <1>1, FS_RemoveElement
  <2>3. QED
    BY <2>1, <2>2
<1>3. Cardinality(screens \ {s}) > 1 /\ ~(screens \ {s} \subseteq BuiltIn)
  BY DEF IsMultiScreen
<1>4. Cardinality(screens \ {s}) \in Nat
  BY <1>1, FS_RemoveElement, FS_CardinalityType
<1>5. Cardinality(screens) > 1
  BY <1>2, <1>3, <1>4
<1>6. ~(screens \subseteq BuiltIn)
  BY <1>3
<1>7. QED
  BY <1>5, <1>6 DEF IsMultiScreen

\* The checks and the controller's steps.
LEMMA StepsOfCodeAccount ==
    ASSUME EnvInv, DeviceOK', StartCheck \/ MakeCheck \/ Control \/ ControlCalls \/ OnExternalScreenConnected
    PROVE  AllAccounted'
<1> USE DEF EnvInv, AllAccounted, Accounted
<1> SUFFICES ASSUME NEW c \in Subjects, Past(c)', Holds(c)' PROVE c \in unattended' \/ Pending(c)'
  OBVIOUS
<1>1. check' \notin {0, 1} /\ ~StartCheck
  <2>1. check' \notin {0, 1}
    BY ChecksAre DEF Past
  <2>2. QED
    BY <2>1 DEF StartCheck
<1>2. Holds(c)
  <2>1. UNCHANGED <<present, screens, talking, ringing>>
    BY <1>1, Zenon DEF MakeCheck, Control, ControlCalls, ObserveCalls, OnExternalScreenConnected,
       callVars, allVars
  <2>2. QED
    BY <2>1, HoldsSame
<1>3. CASE MakeCheck
  <2>1. check \in 1..6 /\ check' = check + 1
        /\ unattended' = IF Holds(Checks[check]) THEN unattended \cup {Checks[check]} ELSE unattended
    BY <1>1, <1>3, ChecksAre DEF MakeCheck
  <2>2. UNCHANGED <<activated, stage, screenNotices, talking>>
    BY <1>3, Zenon DEF MakeCheck, allVars, controllerVars
  <2>3. Past(c) \/ c = Checks[check]
    BY <2>1, PastGrows
  <2>4. ~activated
    BY <2>1, ChecksAre DEF DeviceOK
  <2>5. QED
    BY <1>2, <2>1, <2>3, <2>4 DEF Pending
<1>4. CASE Control
  <2>1. activated' /\ check' = check /\ unattended' = unattended
        /\ UNCHANGED <<screenNotices, talking>>
    BY <1>1, <1>4, Zenon DEF Control, Kept
  <2>2. c \in unattended \/ Pending(c)
    BY <1>2, <2>1, PastSame
  <2>3. CASE ~activated
    BY <2>1, <2>2, <2>3 DEF Pending
  <2>4. CASE activated
    <3>1. (~Deactivate /\ ~Activate) \/ c \in unattended
      BY <2>1, <2>4, <1>4, <2>2 DEF Deactivate, Control, RegisterScreenListener, ActivateExtension,
         RollbackActivate, Activate, Pending
    <3>2. QED
      BY <1>4, <2>1, <2>2, <2>4, <3>1
         DEF Control, RegisterScreenListener, ActivateExtension, RollbackActivate, Pending,
             Deactivate
  <2>5. QED
    BY <2>3, <2>4
<1>5. CASE ControlCalls
  <2>1. activated' /\ check' = check /\ UNCHANGED talking
        /\ unattended' = IF told' > told /\ ~talking THEN unattended \ {"call"} ELSE unattended
    BY <1>1, <1>5, Zenon DEF ControlCalls, Kept
  <2>2. c \in unattended \/ Pending(c)
    BY <1>2, <2>1, PastSame
  <2>3. stage = "observer" /\ stage' = "listener"
    BY <1>5, <2>1 DEF ControlCalls, ObserveCalls, RegisterCallObserver, RollbackActivate
  <2>4. c \in unattended
    BY <2>2, <2>3 DEF Pending
  <2>5. QED
    BY <2>1, <2>3, <2>4 DEF Pending
<1>6. CASE OnExternalScreenConnected
  <2>1. CASE activated
    <3>1. ~Deactivate
      <4>1. Deactivate => ~activated'
        BY <2>1, Zenon DEF Deactivate
      <4>2. Kept({}) \/ UNCHANGED controllerVars
        BY <1>6, <2>1, Zenon DEF OnExternalScreenConnected
      <4>3. Kept({}) /\ ~activated' => check' = 0
        BY Zenon DEF Kept
      <4>4. UNCHANGED controllerVars => activated'
        BY <2>1 DEF controllerVars
      <4>5. QED
        BY <1>1, <4>1, <4>2, <4>3, <4>4
    <3>2. UNCHANGED <<controllerVars, check, talking>>
          /\ unattended' = IF Holds("screens") THEN unattended \cup {"screens"} ELSE unattended
      BY <1>6, <2>1, <3>1, Zenon DEF OnExternalScreenConnected
    <3>3. c \in unattended \/ Pending(c)
      BY <1>2, <3>2, PastSame
    <3>4. CASE c = "screens"
      BY <1>2, <3>2, <3>4
    <3>5. CASE c # "screens"
      BY <3>2, <3>3, <3>5 DEF Pending, controllerVars
    <3>6. QED
      BY <3>4, <3>5
  <2>2. CASE ~activated
    <3>1. UNCHANGED <<check, unattended>>
      BY <1>6, <2>2 DEF OnExternalScreenConnected
    <3>2. QED
      BY <1>2, <2>2, <3>1, PastSame DEF Pending
  <2>3. QED
    BY <2>1, <2>2
<1>7. QED
  BY <1>1, <1>3, <1>4, <1>5, <1>6

\* The steps of the device.
LEMMA StepsOfDeviceAccount ==
    ASSUME EnvInv, DeviceOK',
           \/ \E c \in Conditions : ConditionComes(c) \/ ConditionGoes(c)
           \/ \E s \in Screens : ScreenConnects(s) \/ ScreenDisconnects(s)
    PROVE  AllAccounted'
<1> USE DEF EnvInv, AllAccounted, Accounted
<1> SUFFICES ASSUME NEW c \in Subjects, Past(c)', Holds(c)' PROVE c \in unattended' \/ Pending(c)'
  OBVIOUS
<1>1. UNCHANGED <<check, activated, stage, talking, ringing, screenListener>>
  BY Zenon DEF ConditionComes, ConditionGoes, ScreenConnects, ScreenDisconnects, allVars,
     controllerVars, callVars
<1>2. Past(c) /\ (Holds(c) => c \in unattended \/ Pending(c))
  BY <1>1, PastSame
<1>3. ASSUME NEW d \in Conditions, ConditionComes(d) PROVE c \in unattended' \/ Pending(c)'
  <2>1. present' = present \cup {d} /\ UNCHANGED <<screens, screenNotices>>
        /\ unattended' = IF InWindow(d) THEN unattended \cup {d} ELSE unattended
    BY <1>3, Zenon DEF ConditionComes
  <2>2. CASE c = d
    BY <1>2, <2>1, <2>2, SubjectsApart DEF InWindow
  <2>3. CASE c # d
    <3>1. Holds(c)
      BY <1>1, <2>1, <2>3, SubjectsApart DEF Holds, IsInCall, IsMultiScreen
    <3>2. QED
      BY <1>1, <1>2, <2>1, <3>1 DEF Pending
  <2>4. QED
    BY <2>2, <2>3
<1>4. ASSUME NEW d \in Conditions, ConditionGoes(d) PROVE c \in unattended' \/ Pending(c)'
  <2>1. present' = present \ {d} /\ unattended' = unattended \ {d} /\ UNCHANGED <<screens, screenNotices>>
    BY <1>4, Zenon DEF ConditionGoes
  <2>2. c # d /\ Holds(c)
    BY <1>1, <2>1, SubjectsApart DEF Holds, IsInCall, IsMultiScreen
  <2>3. QED
    BY <1>1, <1>2, <2>1, <2>2 DEF Pending
<1>5. ASSUME NEW s \in Screens, ScreenConnects(s) PROVE c \in unattended' \/ Pending(c)'
  <2>1. screens' = screens \cup {s} /\ UNCHANGED present
        /\ screenNotices' = IF Noticed THEN screenNotices + 1 ELSE screenNotices
    BY <1>5, Zenon DEF ScreenConnects
  <2>2. InWindow("screens") /\ IsMultiScreen(screens') => "screens" \in unattended'
    BY <1>5, Zenon DEF ScreenConnects
  <2>3. \A d : d \in unattended => d \in unattended'
    BY <1>5, Zenon DEF ScreenConnects
  <2>4. CASE c = "screens"
    <3>1. IsMultiScreen(screens')
      BY <2>4, HoldsNextIs
    <3>2. CASE InWindow("screens")
      BY <2>2, <2>4, <3>1, <3>2, Zenon
    <3>3. CASE ~InWindow("screens")
      <4>1. activated /\ stage \notin {"observer", "listener"}
        BY <1>2, <2>4, <3>3, SubjectsApart DEF InWindow
      <4>2. stage \in {"extension", "idle"} /\ screenListener
        BY <4>1 DEF CallInv, ControllerInv, ControllerTypeOK, Stages, ControllerStages,
           LockdownComplete
      <4>3. screenNotices' > 0
        BY <2>1, <4>1, <4>2, EnvAssumption DEF Noticed, DeviceOK
      <4>4. QED
        BY <1>1, <2>4, <4>1, <4>2, <4>3 DEF Pending
    <3>4. QED
      BY <3>2, <3>3
  <2>5. CASE c # "screens"
    <3>1. Holds(c)
      BY <1>1, <2>1, <2>5, SubjectsApart DEF Holds, IsInCall
    <3>2. QED
      BY <1>1, <1>2, <2>3, <2>5, <3>1 DEF Pending
  <2>6. QED
    BY <2>4, <2>5
<1>6. ASSUME NEW s \in Screens, ScreenDisconnects(s) PROVE c \in unattended' \/ Pending(c)'
  <2>1. screens' = screens \ {s} /\ UNCHANGED <<present, screenNotices>>
        /\ unattended' = IF IsMultiScreen(screens') THEN unattended ELSE unattended \ {"screens"}
    BY <1>6, Zenon DEF ScreenDisconnects
  <2>2. CASE c = "screens"
    <3>1. IsMultiScreen(screens')
      BY <2>2, HoldsNextIs
    <3>2. IsMultiScreen(screens)
      BY <2>1, <3>1, FewerScreens
    <3>3. c \in unattended \/ Pending(c)
      BY <1>2, <2>2, <3>2, HoldsIs
    <3>4. QED
      BY <1>1, <2>1, <3>1, <3>3 DEF Pending
  <2>3. CASE c # "screens"
    <3>1. Holds(c)
      BY <1>1, <2>1, <2>3, SubjectsApart DEF Holds, IsInCall
    <3>2. QED
      BY <1>1, <1>2, <2>1, <2>3, <3>1 DEF Pending
  <2>4. QED
    BY <2>2, <2>3
<1>7. QED
  BY <1>3, <1>4, <1>5, <1>6

\* The steps of telephony.
LEMMA StepsOfCallsAccount ==
    ASSUME "rejectCall" \notin MayFail, EnvInv, DeviceOK',
           CallComes \/ CallAnswered \/ CallEnds \/ CallHandled
    PROVE  AllAccounted'
<1> USE DEF EnvInv, AllAccounted, Accounted
<1> SUFFICES ASSUME NEW c \in Subjects, Past(c)', Holds(c)' PROVE c \in unattended' \/ Pending(c)'
  OBVIOUS
<1>1. UNCHANGED <<check, activated, stage, screens, screenNotices, present>>
  BY Zenon DEF CallComes, CallAnswered, CallEnds, CallHandled, CallRings, CallHangsUp,
     OnCallStateUpdated, RejectCall, allVars, controllerVars
<1>2. Past(c) /\ (Holds(c) => c \in unattended \/ Pending(c))
  BY <1>1, PastSame
<1>3. \A d \in Subjects \ {"call"} : d \in unattended => d \in unattended'
  BY Zenon DEF CallComes, CallAnswered, CallEnds, CallHandled
<1>4. CASE c # "call"
  <2>1. Holds(c)
    BY <1>1, <1>4, SubjectsApart DEF Holds, IsMultiScreen
  <2>2. QED
    BY <1>1, <1>2, <1>3, <1>4, <2>1 DEF Pending
<1>5. CASE c = "call"
  <2>1. IsInCall'
    BY <1>5, HoldsNextIs
  <2>2. IsInCall => c \in unattended \/ (activated /\ ~talking /\ stage # "observer")
    BY <1>2, <1>5, HoldsIs, SubjectsApart DEF Pending
  <2>3. CASE CallComes
    <3>1. ~ringing /\ UNCHANGED talking
          /\ unattended' = IF InWindow("call") THEN unattended \cup {"call"} ELSE unattended
      BY <2>3, Zenon DEF CallComes, CallRings
    <3>2. CASE InWindow("call")
      BY <1>5, <3>1, <3>2
    <3>3. CASE ~InWindow("call")
      <4>1. activated /\ stage # "observer"
        BY <1>2, <1>5, <3>3, SubjectsApart DEF InWindow
      <4>2. CASE talking
        <5>1. c \in unattended
          BY <2>2, <4>2 DEF IsInCall
        <5>2. QED
          BY <3>1, <5>1
      <4>3. CASE ~talking
        BY <1>1, <1>5, <3>1, <4>1, <4>3 DEF Pending
      <4>4. QED
        BY <4>2, <4>3
    <3>4. QED
      BY <3>2, <3>3
  <2>4. CASE CallAnswered
    <3>1. ringing /\ ~talking
          /\ unattended' = IF told + rejecting > 0 THEN unattended \cup {"call"} ELSE unattended
      BY <2>4, Zenon DEF CallAnswered
    <3>2. CASE told + rejecting > 0
      BY <1>5, <3>1, <3>2
    <3>3. CASE ~(told + rejecting > 0)
      <4>1. ~(activated /\ stage # "observer")
        BY <3>1, <3>3 DEF CallInv, NoCallLetThrough
      <4>2. c \in unattended
        BY <2>2, <3>1, <4>1 DEF IsInCall
      <4>3. QED
        BY <3>1, <3>3, <4>2
    <3>4. QED
      BY <3>2, <3>3
  <2>5. CASE CallEnds \/ CallHandled
    <3>1. unattended' = unattended /\ (talking' => talking) /\ IsInCall
      <4>1. unattended' = unattended
        BY <2>1, <2>5, Zenon DEF CallEnds, CallHandled
      <4>2. talking' => talking
        BY <2>5, Zenon DEF CallEnds, CallHandled
      <4>3. ringing' => ringing
        BY <2>5, Zenon DEF CallEnds, CallHandled, CallHangsUp, OnCallStateUpdated, RejectCall,
           allVars, callVars
      <4>4. QED
        BY <2>1, <4>1, <4>2, <4>3, Zenon DEF IsInCall
    <3>2. c \in unattended \/ (activated /\ ~talking /\ stage # "observer")
      BY <2>2, <3>1
    <3>3. CASE c \in unattended
      BY <3>1, <3>3
    <3>4. CASE activated /\ ~talking /\ stage # "observer"
      BY <1>1, <1>5, <3>1, <3>4 DEF Pending
    <3>5. QED
      BY <3>2, <3>3, <3>4
  <2>6. QED
    BY <2>3, <2>4, <2>5
<1>6. QED
  BY <1>4, <1>5

\* As long as the telephony service removes observers and rejects calls when it
\* is asked to, nothing that an assessment should have been refused or ended
\* for goes unnoticed, other than by the account of what the code cannot know:
\* for any screens and whatever else fails (EnvChecker::CheckAll, the listeners
\* of the process controller).
THEOREM NothingIsOverlooked ==
    ASSUME "removeObserver" \notin MayFail, "rejectCall" \notin MayFail
    PROVE  EnvSpec => []NothingOverlooked
<1> DEFINE Types == ControllerInv /\ CallTypeOK
<1>1. EnvInit => EnvInv
  <2> SUFFICES ASSUME EnvInit PROVE EnvInv
    OBVIOUS
  <2>1. check = 0 /\ ~activated /\ screens \in SUBSET Screens /\ screenNotices = 0
        /\ talking \in BOOLEAN /\ stage = "idle" /\ ~callObserver
    BY Zenon DEF EnvInit, CallInit, ControllerInit
  <2>2. DeviceOK
    BY <2>1, EnvAssumption, ChecksAre DEF DeviceOK
  <2>3. CallInv
    BY <2>1, CallTypesInitially DEF EnvInit, CallInv, NoLeftoverObserver, NoCallLetThrough
  <2>4. QED
    BY <2>1, <2>2, <2>3, NothingPast DEF EnvInv, AllAccounted, Accounted
<1>2. EnvInv /\ Types' /\ [EnvNext]_<<allVars, envVars>> => EnvInv'
  <2> SUFFICES ASSUME EnvInv, Types', [EnvNext]_<<allVars, envVars>> PROVE EnvInv'
    OBVIOUS
  <2>1. DeviceOK'
    BY DeviceKept DEF EnvInv, CallInv
  <2>2. CallInv'
    BY EnvStepIsCallStep, CallStepKeepsInv DEF EnvInv
  <2>3. CASE UNCHANGED <<allVars, envVars>>
    <3>1. \A c \in Subjects : Accounted(c)' <=> Accounted(c)
      BY <2>3 DEF Accounted, Past, Holds, IsInCall, IsMultiScreen, Pending, allVars,
         controllerVars, callVars, envVars
    <3>2. QED
      BY <2>1, <2>2, <3>1 DEF EnvInv, AllAccounted
  <2>4. AllAccounted' \/ UNCHANGED <<allVars, envVars>>
    BY <2>1, StepsOfCodeAccount, StepsOfDeviceAccount, StepsOfCallsAccount, Zenon DEF EnvNext
  <2>5. QED
    BY <2>1, <2>2, <2>3, <2>4 DEF EnvInv
<1>3. EnvInv => NothingOverlooked
  <2> SUFFICES ASSUME EnvInv, activated, stage = "idle", NEW c \in Subjects, Holds(c)
               PROVE  \/ c \in unattended
                      \/ c = "screens" /\ screenNotices > 0
                      \/ c = "call" /\ ~talking /\ told + rejecting > 0
    BY Zenon DEF NothingOverlooked, Subjects
  <2>1. c \in unattended \/ Pending(c)
    BY AllPast DEF EnvInv, DeviceOK, AllAccounted, Accounted
  <2>2. CASE c = "call" /\ ~talking
    <3>1. ringing
      BY <2>2, HoldsIs DEF IsInCall
    <3>2. QED
      BY <2>2, <3>1 DEF EnvInv, CallInv, NoCallLetThrough
  <2>3. QED
    BY <2>1, <2>2 DEF Pending
<1>4. EnvSpec => []Types
  BY EnvRefinesCalls, CallsTypeCorrect, PTL
<1>5. QED
  BY <1>1, <1>2, <1>3, <1>4, PTL DEF EnvSpec
=============================================================================
