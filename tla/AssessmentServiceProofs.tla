----------------------- MODULE AssessmentServiceProofs -----------------------
(***************************************************************************)
(* Proofs of the safety invariants of AssessmentService.                   *)
(*                                                                         *)
(* None of them is inductive by itself: a session becomes active at the    *)
(* end of a handler of ten steps, and what the invariants say of an active *)
(* session has to be known of the steps before.  ServiceInv ties the step  *)
(* the lock's holder is in to the session's members, the device and the    *)
(* notices on their way.                                                   *)
(***************************************************************************)
EXTENDS AssessmentService, ProcessControllerProofs

\* The handler works for a session that has consent and is not active yet.
Entering == CheckSteps \cup {"save", "refuse"}

\* The members of a session are set and reset together, each step is taken for
\* a session in the state it needs, and a service that leaves has none.
SessionOK ==
    /\ examStatus = "ACTIVE" <=> isActive
    /\ examStatus = "IDLE" <=> callerToken = NoToken
    /\ callback = 0 <=> callerToken = NoToken
    /\ callback # 0 => callback = ticket
    /\ ticket <= sessions
    /\ running # "serving" => step = "free" /\ examStatus = "IDLE"
    /\ step \in Entering => examStatus = "CONFIRMING"
    /\ step \in {"announce"} \cup ExitSteps => isActive

\* A confirmation on its way was pressed, and so was that of the session the
\* handler works for.
ConsentOK ==
    /\ \A s \in Sessions : <<s, "CONFIRM">> \in answers => s \in agreed
    /\ step \in Entering \/ isActive => callback \in agreed

\* The controller is between two stages only in the control step, and stays
\* activated from then on until the session is cleaned up.
ControlOK ==
    /\ ControllerInv
    /\ stage # "idle" <=> step = "control"
    /\ step \in {"restrict", "power", "list", "enter", "save"} \/ isActive => activated

\* Kiosk mode is the caller's until an exit has succeeded or the caller died.
KioskHeld == kiosk = callerToken \/ callerToken \in dead

KioskOK ==
    /\ step = "save" \/ (isActive /\ step # "exited") => KioskHeld /\ appList
    /\ step = "enter" => appList
    /\ isActive => deadline # "none"

\* Death notices speak of the dead, and that of a caller who died after its
\* kiosk mode was admitted stays on its way until somebody acts on it.
DeathOK ==
    /\ processDeaths \subseteq {AppOf[t] : t \in dead}
    /\ remoteDeaths \subseteq 1..sessions
    /\ callback \in remoteDeaths => isActive /\ callerToken \in dead
    /\ recipient => isActive
    /\ why = "died" => step \in ExitSteps
    /\ (step = "save" \/ isActive) /\ callerToken \in dead =>
         AppOf[callerToken] \in processDeaths \/ callback \in remoteDeaths \/ why = "died"

ServiceInv ==
    /\ TypeOK /\ SessionOK /\ RegistryNamesCaller
    /\ ConsentOK /\ ControlOK /\ KioskOK /\ DeathOK

-----------------------------------------------------------------------------

\* The frames, the groups of variables and the guards every action is written
\* with are expanded throughout.
USE DEF HandlerFrame, Untouched, Continue, StartExit, LiftPower, TakeAnswer,
    CleanupCurrentSession, ProcessGone, LockFree, EndAccepted, AnswerCounts,
    DialogErrorCounts, AnomalyConfirmed, Due, NobodyThere, AfterExit, EndsAnyway,
    sessionVars, loopVars, kioskVars, stateVars, dialogVars, deathVars, screenVars,
    ancoVars, countVars, deviceVars, worldVars, controllerVars, vars

\* Steps that only move what is on its way to the service, or reset its idle
\* clock; Quiet is what they leave alone.
QuietStep ==
    \/ Query
    \/ \E t \in Tokens : BeginRejected(t) \/ EndRejected(t)
    \/ \E s \in Sessions : DialogShown(s) \/ DialogNotShown(s)
    \/ ScreenConnects \/ ScreenDisconnects \/ AncoSleeps \/ AncoWakes
    \/ UNCHANGED vars

Quiet == UNCHANGED <<running, step, why, sessionVars, countVars, kioskVars, controllerVars,
                     answers, agreed, deathVars, runningLock, stateVars, heard>>

LEMMA QuietStepsAreQuiet == QuietStep => Quiet
BY DEF QuietStep, Quiet, Query, BeginRejected, EndRejected, DialogShown, DialogNotShown,
   ScreenConnects, ScreenDisconnects, AncoSleeps, AncoWakes

\* What is put into the registry, and what is sent through it, has its type.
LEMMA UnregisteredType ==
    ASSUME SessionTypeOK
    PROVE  Unregistered \in [Tokens -> 0..MaxSessions]
BY ServiceAssumption DEF SessionTypeOK, Unregistered

LEMMA ToldType ==
    ASSUME SessionTypeOK, HeardTypeOK, NEW token \in Tokens \cup {NoToken},
           NEW message \in Messages
    PROVE  Told(token, message) \in [Sessions -> Seq(Messages)]
<1>1. CASE token # NoToken /\ callbacks[token] # 0 /\ token \notin dead
  <2>1. callbacks[token] \in Sessions
    BY <1>1, ServiceAssumption DEF SessionTypeOK, Sessions
  <2>2. Append(heard[callbacks[token]], message) \in Seq(Messages)
    BY <2>1 DEF HeardTypeOK
  <2>3. QED
    BY <1>1, <2>1, <2>2 DEF Told, HeardTypeOK
<1>2. CASE ~(token # NoToken /\ callbacks[token] # 0 /\ token \notin dead)
  BY <1>2 DEF Told, HeardTypeOK
<1>3. QED
  BY <1>1, <1>2

LEMMA FarewellType ==
    ASSUME SessionTypeOK, HeardTypeOK
    PROVE  Farewell \in [Sessions -> Seq(Messages)]
<1>1. callerToken \in Tokens \cup {NoToken}
  BY DEF SessionTypeOK
<1>2. CASE why = "end"
  BY <1>1, <1>2, ToldType, Zenon DEF Farewell, Messages
<1>3. CASE why = "timeout"
  BY <1>1, <1>3, ToldType, Zenon DEF Farewell, Messages
<1>4. CASE why = "anomaly"
  BY <1>1, <1>4, ToldType, Zenon DEF Farewell, Messages
<1>5. CASE why \notin {"end", "timeout", "anomaly"}
  BY <1>5, Zenon DEF Farewell, HeardTypeOK
<1>6. QED
  BY <1>2, <1>3, <1>4, <1>5

\* The members of a session stay in step with each other and with the handler.
LEMMA SessionKept ==
    ASSUME ServiceInv, [Next]_vars
    PROVE  SessionOK'
<1> USE ServiceAssumption DEF SessionOK, Entering, CheckSteps, ExitSteps
<1>0. SessionTypeOK /\ SessionOK /\ DeathOK
  BY DEF ServiceInv, TypeOK
<1>1. CASE QuietStep
  BY <1>0, <1>1, QuietStepsAreQuiet DEF Quiet
<1>2. CASE EnvChecked
  BY <1>0, <1>2 DEF EnvChecked
<1>3. CASE EnvCheckFailed
  BY <1>0, <1>3 DEF EnvCheckFailed
<1>4. CASE ActivateControl
  BY <1>0, <1>4 DEF ActivateControl
<1>5. CASE RestrictAncoApp
  BY <1>0, <1>5 DEF RestrictAncoApp
<1>6. CASE RestrictPower
  BY <1>0, <1>6 DEF RestrictPower
<1>7. CASE AddKioskApplicationList
  BY <1>0, <1>7 DEF AddKioskApplicationList
<1>8. CASE EnterKioskMode
  BY <1>0, <1>8 DEF EnterKioskMode
<1>9. CASE SaveSession
  BY <1>0, <1>9 DEF SaveSession
<1>10. CASE AnnounceSession
  BY <1>0, <1>10 DEF AnnounceSession
<1>11. CASE RefuseSession
  BY <1>0, <1>11 DEF RefuseSession
<1>12. CASE LiftPowerOk
  BY <1>0, <1>12 DEF LiftPowerOk
<1>13. CASE LiftPowerFailed
  BY <1>0, <1>13 DEF LiftPowerFailed
<1>14. CASE ExitKioskModeOk
  BY <1>0, <1>14 DEF ExitKioskModeOk
<1>15. CASE ExitKioskModeFailed
  BY <1>0, <1>15 DEF ExitKioskModeFailed
<1>16. CASE FinishSession
  BY <1>0, <1>16 DEF FinishSession
<1>17. CASE KeepSession
  BY <1>0, <1>17 DEF KeepSession
<1>18. CASE AccountIdleTime
  BY <1>0, <1>18 DEF AccountIdleTime
<1>19. CASE LoopWakes
  BY <1>0, <1>19 DEF LoopWakes
<1>20. ASSUME NEW t \in Tokens, Begin(t)
      PROVE  SessionOK'
  BY <1>0, <1>20 DEF Begin, SessionTypeOK, DeathOK, Sessions
<1>21. ASSUME NEW t \in Tokens, End(t)
      PROVE  SessionOK'
  BY <1>0, <1>21 DEF End
<1>22. ASSUME NEW s \in Sessions, ConfirmBegin(s)
      PROVE  SessionOK'
  BY <1>0, <1>22 DEF ConfirmBegin
<1>23. ASSUME NEW s \in Sessions, CancelBegin(s)
      PROVE  SessionOK'
  BY <1>0, <1>23 DEF CancelBegin
<1>24. ASSUME NEW s \in Sessions, BeginDialogSystemError(s)
      PROVE  SessionOK'
  BY <1>0, <1>24 DEF BeginDialogSystemError
<1>25. ASSUME NEW s \in Sessions, NEW o \in {"CONFIRM", "CANCEL"}, UserAnswers(s, o)
      PROVE  SessionOK'
  BY <1>0, <1>25 DEF UserAnswers
<1>26. ASSUME NEW s \in Sessions, NEW o \in {"CONFIRM", "CANCEL"}, AnswerIgnored(s, o)
      PROVE  SessionOK'
  BY <1>0, <1>26 DEF AnswerIgnored
<1>27. ASSUME NEW t \in Tokens, AppDieHandle(AppOf[t])
      PROVE  SessionOK'
  BY <1>0, <1>27 DEF AppDieHandle
<1>28. ASSUME NEW s \in Sessions, OnRemoteDied(s)
      PROVE  SessionOK'
  BY <1>0, <1>28 DEF OnRemoteDied, SessionTypeOK, DeathOK, Sessions
<1>29. CASE OnExternalScreenConnected
  BY <1>0, <1>29 DEF OnExternalScreenConnected
<1>30. CASE EnvAnomaly
  BY <1>0, <1>30 DEF EnvAnomaly
<1>31. CASE AncoStateChangeCallback
  BY <1>0, <1>31 DEF AncoStateChangeCallback
<1>32. CASE DeadlinePasses
  BY <1>0, <1>32 DEF DeadlinePasses
<1>33. CASE KioskOwnerGone
  BY <1>0, <1>33 DEF KioskOwnerGone
<1>34. ASSUME NEW t \in Tokens, AppDies(t)
      PROVE  SessionOK'
  BY <1>0, <1>34 DEF AppDies
<1>35. CASE Destroy
  BY <1>0, <1>35 DEF Destroy, SessionTypeOK, DeathOK, Sessions
<1>36. CASE Crash
  BY <1>0, <1>36 DEF Crash, SessionTypeOK, DeathOK, Sessions
<1>37. CASE Start
  BY <1>0, <1>37 DEF Start
<1>38. QED
  BY <1>1, <1>2, <1>3, <1>4, <1>5, <1>6, <1>7, <1>8, <1>9, <1>10, <1>11, <1>12, <1>13,
     <1>14, <1>15, <1>16, <1>17, <1>18, <1>19, <1>20, <1>21, <1>22, <1>23, <1>24, <1>25,
     <1>26, <1>27, <1>28, <1>29, <1>30, <1>31, <1>32, <1>33, <1>34, <1>35, <1>36, <1>37
     DEF Next, HandlerStep, Request, Dialog, Notice, Environment, Lifecycle, QuietStep

\* A caller is registered and unregistered together with its session.
LEMMA RegistryKept ==
    ASSUME ServiceInv, [Next]_vars
    PROVE  RegistryNamesCaller'
<1> USE ServiceAssumption DEF RegistryNamesCaller, Unregistered
<1>0. SessionTypeOK /\ SessionOK /\ RegistryNamesCaller
  BY DEF ServiceInv, TypeOK
<1>1. CASE QuietStep
  BY <1>0, <1>1, QuietStepsAreQuiet DEF Quiet
<1>2. CASE EnvChecked
  BY <1>0, <1>2 DEF EnvChecked
<1>3. CASE EnvCheckFailed
  BY <1>0, <1>3 DEF EnvCheckFailed
<1>4. CASE ActivateControl
  BY <1>0, <1>4 DEF ActivateControl
<1>5. CASE RestrictAncoApp
  BY <1>0, <1>5 DEF RestrictAncoApp
<1>6. CASE RestrictPower
  BY <1>0, <1>6 DEF RestrictPower
<1>7. CASE AddKioskApplicationList
  BY <1>0, <1>7 DEF AddKioskApplicationList
<1>8. CASE EnterKioskMode
  BY <1>0, <1>8 DEF EnterKioskMode
<1>9. CASE SaveSession
  BY <1>0, <1>9 DEF SaveSession
<1>10. CASE AnnounceSession
  BY <1>0, <1>10 DEF AnnounceSession
<1>11. CASE RefuseSession
  BY <1>0, <1>11 DEF RefuseSession
<1>12. CASE LiftPowerOk
  BY <1>0, <1>12 DEF LiftPowerOk
<1>13. CASE LiftPowerFailed
  BY <1>0, <1>13 DEF LiftPowerFailed
<1>14. CASE ExitKioskModeOk
  BY <1>0, <1>14 DEF ExitKioskModeOk
<1>15. CASE ExitKioskModeFailed
  BY <1>0, <1>15 DEF ExitKioskModeFailed
<1>16. CASE FinishSession
  BY <1>0, <1>16 DEF FinishSession
<1>17. CASE KeepSession
  BY <1>0, <1>17 DEF KeepSession
<1>18. CASE AccountIdleTime
  BY <1>0, <1>18 DEF AccountIdleTime
<1>19. CASE LoopWakes
  BY <1>0, <1>19 DEF LoopWakes
<1>20. ASSUME NEW t \in Tokens, Begin(t)
      PROVE  RegistryNamesCaller'
  BY <1>0, <1>20 DEF Begin, SessionTypeOK
<1>21. ASSUME NEW t \in Tokens, End(t)
      PROVE  RegistryNamesCaller'
  BY <1>0, <1>21 DEF End
<1>22. ASSUME NEW s \in Sessions, ConfirmBegin(s)
      PROVE  RegistryNamesCaller'
  BY <1>0, <1>22 DEF ConfirmBegin
<1>23. ASSUME NEW s \in Sessions, CancelBegin(s)
      PROVE  RegistryNamesCaller'
  BY <1>0, <1>23 DEF CancelBegin
<1>24. ASSUME NEW s \in Sessions, BeginDialogSystemError(s)
      PROVE  RegistryNamesCaller'
  BY <1>0, <1>24 DEF BeginDialogSystemError
<1>25. ASSUME NEW s \in Sessions, NEW o \in {"CONFIRM", "CANCEL"}, UserAnswers(s, o)
      PROVE  RegistryNamesCaller'
  BY <1>0, <1>25 DEF UserAnswers
<1>26. ASSUME NEW s \in Sessions, NEW o \in {"CONFIRM", "CANCEL"}, AnswerIgnored(s, o)
      PROVE  RegistryNamesCaller'
  BY <1>0, <1>26 DEF AnswerIgnored
<1>27. ASSUME NEW t \in Tokens, AppDieHandle(AppOf[t])
      PROVE  RegistryNamesCaller'
  BY <1>0, <1>27 DEF AppDieHandle
<1>28. ASSUME NEW s \in Sessions, OnRemoteDied(s)
      PROVE  RegistryNamesCaller'
  BY <1>0, <1>28 DEF OnRemoteDied
<1>29. CASE OnExternalScreenConnected
  BY <1>0, <1>29 DEF OnExternalScreenConnected
<1>30. CASE EnvAnomaly
  BY <1>0, <1>30 DEF EnvAnomaly
<1>31. CASE AncoStateChangeCallback
  BY <1>0, <1>31 DEF AncoStateChangeCallback
<1>32. CASE DeadlinePasses
  BY <1>0, <1>32 DEF DeadlinePasses
<1>33. CASE KioskOwnerGone
  BY <1>0, <1>33 DEF KioskOwnerGone
<1>34. ASSUME NEW t \in Tokens, AppDies(t)
      PROVE  RegistryNamesCaller'
  BY <1>0, <1>34 DEF AppDies
<1>35. CASE Destroy
  BY <1>0, <1>35 DEF Destroy, SessionOK
<1>36. CASE Crash
  BY <1>0, <1>36 DEF Crash, SessionOK
<1>37. CASE Start
  BY <1>0, <1>37 DEF Start
<1>38. QED
  BY <1>1, <1>2, <1>3, <1>4, <1>5, <1>6, <1>7, <1>8, <1>9, <1>10, <1>11, <1>12, <1>13,
     <1>14, <1>15, <1>16, <1>17, <1>18, <1>19, <1>20, <1>21, <1>22, <1>23, <1>24, <1>25,
     <1>26, <1>27, <1>28, <1>29, <1>30, <1>31, <1>32, <1>33, <1>34, <1>35, <1>36, <1>37
     DEF Next, HandlerStep, Request, Dialog, Notice, Environment, Lifecycle, QuietStep

\* Consent is given to one session and taken for no other.
LEMMA ConsentKept ==
    ASSUME ServiceInv, [Next]_vars
    PROVE  ConsentOK'
<1> USE ServiceAssumption DEF ConsentOK, SessionOK, Entering, CheckSteps, ExitSteps
<1>0. SessionTypeOK /\ SessionOK /\ ConsentOK
  BY DEF ServiceInv, TypeOK
<1>1. CASE QuietStep
  BY <1>0, <1>1, QuietStepsAreQuiet DEF Quiet
<1>2. CASE EnvChecked
  BY <1>0, <1>2 DEF EnvChecked
<1>3. CASE EnvCheckFailed
  BY <1>0, <1>3 DEF EnvCheckFailed
<1>4. CASE ActivateControl
  BY <1>0, <1>4 DEF ActivateControl
<1>5. CASE RestrictAncoApp
  BY <1>0, <1>5 DEF RestrictAncoApp
<1>6. CASE RestrictPower
  BY <1>0, <1>6 DEF RestrictPower
<1>7. CASE AddKioskApplicationList
  BY <1>0, <1>7 DEF AddKioskApplicationList
<1>8. CASE EnterKioskMode
  BY <1>0, <1>8 DEF EnterKioskMode
<1>9. CASE SaveSession
  BY <1>0, <1>9 DEF SaveSession
<1>10. CASE AnnounceSession
  BY <1>0, <1>10 DEF AnnounceSession
<1>11. CASE RefuseSession
  BY <1>0, <1>11 DEF RefuseSession
<1>12. CASE LiftPowerOk
  BY <1>0, <1>12 DEF LiftPowerOk
<1>13. CASE LiftPowerFailed
  BY <1>0, <1>13 DEF LiftPowerFailed
<1>14. CASE ExitKioskModeOk
  BY <1>0, <1>14 DEF ExitKioskModeOk
<1>15. CASE ExitKioskModeFailed
  BY <1>0, <1>15 DEF ExitKioskModeFailed
<1>16. CASE FinishSession
  BY <1>0, <1>16 DEF FinishSession
<1>17. CASE KeepSession
  BY <1>0, <1>17 DEF KeepSession
<1>18. CASE AccountIdleTime
  BY <1>0, <1>18 DEF AccountIdleTime
<1>19. CASE LoopWakes
  BY <1>0, <1>19 DEF LoopWakes
<1>20. ASSUME NEW t \in Tokens, Begin(t)
      PROVE  ConsentOK'
  BY <1>0, <1>20 DEF Begin, SessionTypeOK, Sessions
<1>21. ASSUME NEW t \in Tokens, End(t)
      PROVE  ConsentOK'
  BY <1>0, <1>21 DEF End
<1>22. ASSUME NEW s \in Sessions, ConfirmBegin(s)
      PROVE  ConsentOK'
  BY <1>0, <1>22 DEF ConfirmBegin, Sessions
<1>23. ASSUME NEW s \in Sessions, CancelBegin(s)
      PROVE  ConsentOK'
  BY <1>0, <1>23 DEF CancelBegin
<1>24. ASSUME NEW s \in Sessions, BeginDialogSystemError(s)
      PROVE  ConsentOK'
  BY <1>0, <1>24 DEF BeginDialogSystemError
<1>25. ASSUME NEW s \in Sessions, NEW o \in {"CONFIRM", "CANCEL"}, UserAnswers(s, o)
      PROVE  ConsentOK'
  BY <1>0, <1>25 DEF UserAnswers
<1>26. ASSUME NEW s \in Sessions, NEW o \in {"CONFIRM", "CANCEL"}, AnswerIgnored(s, o)
      PROVE  ConsentOK'
  BY <1>0, <1>26 DEF AnswerIgnored
<1>27. ASSUME NEW t \in Tokens, AppDieHandle(AppOf[t])
      PROVE  ConsentOK'
  BY <1>0, <1>27 DEF AppDieHandle
<1>28. ASSUME NEW s \in Sessions, OnRemoteDied(s)
      PROVE  ConsentOK'
  BY <1>0, <1>28 DEF OnRemoteDied
<1>29. CASE OnExternalScreenConnected
  BY <1>0, <1>29 DEF OnExternalScreenConnected
<1>30. CASE EnvAnomaly
  BY <1>0, <1>30 DEF EnvAnomaly
<1>31. CASE AncoStateChangeCallback
  BY <1>0, <1>31 DEF AncoStateChangeCallback
<1>32. CASE DeadlinePasses
  BY <1>0, <1>32 DEF DeadlinePasses
<1>33. CASE KioskOwnerGone
  BY <1>0, <1>33 DEF KioskOwnerGone
<1>34. ASSUME NEW t \in Tokens, AppDies(t)
      PROVE  ConsentOK'
  BY <1>0, <1>34 DEF AppDies
<1>35. CASE Destroy
  BY <1>0, <1>35 DEF Destroy
<1>36. CASE Crash
  BY <1>0, <1>36 DEF Crash
<1>37. CASE Start
  BY <1>0, <1>37 DEF Start
<1>38. QED
  BY <1>1, <1>2, <1>3, <1>4, <1>5, <1>6, <1>7, <1>8, <1>9, <1>10, <1>11, <1>12, <1>13,
     <1>14, <1>15, <1>16, <1>17, <1>18, <1>19, <1>20, <1>21, <1>22, <1>23, <1>24, <1>25,
     <1>26, <1>27, <1>28, <1>29, <1>30, <1>31, <1>32, <1>33, <1>34, <1>35, <1>36, <1>37
     DEF Next, HandlerStep, Request, Dialog, Notice, Environment, Lifecycle, QuietStep

\* An active session owns kiosk mode until its exit has succeeded.
LEMMA KioskKept ==
    ASSUME ServiceInv, [Next]_vars
    PROVE  KioskOK'
<1> USE ServiceAssumption DEF KioskOK, KioskHeld, MayEnterKiosk, SessionOK, Entering,
    CheckSteps, ExitSteps
<1>0. SessionOK /\ KioskOK
  BY DEF ServiceInv, TypeOK
<1>1. CASE QuietStep
  BY <1>0, <1>1, QuietStepsAreQuiet DEF Quiet
<1>2. CASE EnvChecked
  BY <1>0, <1>2 DEF EnvChecked
<1>3. CASE EnvCheckFailed
  BY <1>0, <1>3 DEF EnvCheckFailed
<1>4. CASE ActivateControl
  BY <1>0, <1>4 DEF ActivateControl
<1>5. CASE RestrictAncoApp
  BY <1>0, <1>5 DEF RestrictAncoApp
<1>6. CASE RestrictPower
  BY <1>0, <1>6 DEF RestrictPower
<1>7. CASE AddKioskApplicationList
  BY <1>0, <1>7 DEF AddKioskApplicationList
<1>8. CASE EnterKioskMode
  BY <1>0, <1>8 DEF EnterKioskMode
<1>9. CASE SaveSession
  BY <1>0, <1>9 DEF SaveSession
<1>10. CASE AnnounceSession
  BY <1>0, <1>10 DEF AnnounceSession
<1>11. CASE RefuseSession
  BY <1>0, <1>11 DEF RefuseSession
<1>12. CASE LiftPowerOk
  BY <1>0, <1>12 DEF LiftPowerOk
<1>13. CASE LiftPowerFailed
  BY <1>0, <1>13 DEF LiftPowerFailed
<1>14. CASE ExitKioskModeOk
  BY <1>0, <1>14 DEF ExitKioskModeOk
<1>15. CASE ExitKioskModeFailed
  BY <1>0, <1>15 DEF ExitKioskModeFailed
<1>16. CASE FinishSession
  BY <1>0, <1>16 DEF FinishSession
<1>17. CASE KeepSession
  BY <1>0, <1>17 DEF KeepSession
<1>18. CASE AccountIdleTime
  BY <1>0, <1>18 DEF AccountIdleTime
<1>19. CASE LoopWakes
  BY <1>0, <1>19 DEF LoopWakes
<1>20. ASSUME NEW t \in Tokens, Begin(t)
      PROVE  KioskOK'
  BY <1>0, <1>20 DEF Begin
<1>21. ASSUME NEW t \in Tokens, End(t)
      PROVE  KioskOK'
  BY <1>0, <1>21 DEF End
<1>22. ASSUME NEW s \in Sessions, ConfirmBegin(s)
      PROVE  KioskOK'
  BY <1>0, <1>22 DEF ConfirmBegin
<1>23. ASSUME NEW s \in Sessions, CancelBegin(s)
      PROVE  KioskOK'
  BY <1>0, <1>23 DEF CancelBegin
<1>24. ASSUME NEW s \in Sessions, BeginDialogSystemError(s)
      PROVE  KioskOK'
  BY <1>0, <1>24 DEF BeginDialogSystemError
<1>25. ASSUME NEW s \in Sessions, NEW o \in {"CONFIRM", "CANCEL"}, UserAnswers(s, o)
      PROVE  KioskOK'
  BY <1>0, <1>25 DEF UserAnswers
<1>26. ASSUME NEW s \in Sessions, NEW o \in {"CONFIRM", "CANCEL"}, AnswerIgnored(s, o)
      PROVE  KioskOK'
  BY <1>0, <1>26 DEF AnswerIgnored
<1>27. ASSUME NEW t \in Tokens, AppDieHandle(AppOf[t])
      PROVE  KioskOK'
  BY <1>0, <1>27 DEF AppDieHandle
<1>28. ASSUME NEW s \in Sessions, OnRemoteDied(s)
      PROVE  KioskOK'
  BY <1>0, <1>28 DEF OnRemoteDied
<1>29. CASE OnExternalScreenConnected
  BY <1>0, <1>29 DEF OnExternalScreenConnected
<1>30. CASE EnvAnomaly
  BY <1>0, <1>30 DEF EnvAnomaly
<1>31. CASE AncoStateChangeCallback
  BY <1>0, <1>31 DEF AncoStateChangeCallback
<1>32. CASE DeadlinePasses
  BY <1>0, <1>32 DEF DeadlinePasses
<1>33. CASE KioskOwnerGone
  BY <1>0, <1>33 DEF KioskOwnerGone
<1>34. ASSUME NEW t \in Tokens, AppDies(t)
      PROVE  KioskOK'
  BY <1>0, <1>34 DEF AppDies
<1>35. CASE Destroy
  BY <1>0, <1>35 DEF Destroy
<1>36. CASE Crash
  BY <1>0, <1>36 DEF Crash
<1>37. CASE Start
  BY <1>0, <1>37 DEF Start
<1>38. QED
  BY <1>1, <1>2, <1>3, <1>4, <1>5, <1>6, <1>7, <1>8, <1>9, <1>10, <1>11, <1>12, <1>13,
     <1>14, <1>15, <1>16, <1>17, <1>18, <1>19, <1>20, <1>21, <1>22, <1>23, <1>24, <1>25,
     <1>26, <1>27, <1>28, <1>29, <1>30, <1>31, <1>32, <1>33, <1>34, <1>35, <1>36, <1>37
     DEF Next, HandlerStep, Request, Dialog, Notice, Environment, Lifecycle, QuietStep

\* Whoever dies is reported, and what is reported is dead.
LEMMA DeathKept ==
    ASSUME ServiceInv, [Next]_vars
    PROVE  DeathOK'
<1> USE ServiceAssumption DEF DeathOK, MayEnterKiosk, SessionOK, Entering, CheckSteps,
    ExitSteps
<1>0. SessionTypeOK /\ SessionOK /\ DeathOK
  BY DEF ServiceInv, TypeOK
<1>1. CASE QuietStep
  <2>1. UNCHANGED <<running, step, why, sessionVars, countVars, deathVars>>
    BY <1>1, QuietStepsAreQuiet DEF Quiet
  <2>2. QED
    BY <1>0, <2>1
<1>2. CASE EnvChecked
  BY <1>0, <1>2 DEF EnvChecked
<1>3. CASE EnvCheckFailed
  BY <1>0, <1>3 DEF EnvCheckFailed
<1>4. CASE ActivateControl
  BY <1>0, <1>4 DEF ActivateControl
<1>5. CASE RestrictAncoApp
  BY <1>0, <1>5 DEF RestrictAncoApp
<1>6. CASE RestrictPower
  BY <1>0, <1>6 DEF RestrictPower
<1>7. CASE AddKioskApplicationList
  BY <1>0, <1>7 DEF AddKioskApplicationList
<1>8. CASE EnterKioskMode
  BY <1>0, <1>8 DEF EnterKioskMode
<1>9. CASE SaveSession
  BY <1>0, <1>9 DEF SaveSession
<1>10. CASE AnnounceSession
  BY <1>0, <1>10 DEF AnnounceSession
<1>11. CASE RefuseSession
  BY <1>0, <1>11 DEF RefuseSession
<1>12. CASE LiftPowerOk
  BY <1>0, <1>12 DEF LiftPowerOk
<1>13. CASE LiftPowerFailed
  BY <1>0, <1>13 DEF LiftPowerFailed
<1>14. CASE ExitKioskModeOk
  BY <1>0, <1>14 DEF ExitKioskModeOk
<1>15. CASE ExitKioskModeFailed
  BY <1>0, <1>15 DEF ExitKioskModeFailed
<1>16. CASE FinishSession
  BY <1>0, <1>16 DEF FinishSession
<1>17. CASE KeepSession
  BY <1>0, <1>17 DEF KeepSession
<1>18. CASE AccountIdleTime
  BY <1>0, <1>18 DEF AccountIdleTime
<1>19. CASE LoopWakes
  BY <1>0, <1>19 DEF LoopWakes
<1>20. ASSUME NEW t \in Tokens, Begin(t)
      PROVE  DeathOK'
  BY <1>0, <1>20 DEF Begin, SessionTypeOK, Sessions
<1>21. ASSUME NEW t \in Tokens, End(t)
      PROVE  DeathOK'
  BY <1>0, <1>21 DEF End
<1>22. ASSUME NEW s \in Sessions, ConfirmBegin(s)
      PROVE  DeathOK'
  BY <1>0, <1>22 DEF ConfirmBegin
<1>23. ASSUME NEW s \in Sessions, CancelBegin(s)
      PROVE  DeathOK'
  BY <1>0, <1>23 DEF CancelBegin
<1>24. ASSUME NEW s \in Sessions, BeginDialogSystemError(s)
      PROVE  DeathOK'
  BY <1>0, <1>24 DEF BeginDialogSystemError
<1>25. ASSUME NEW s \in Sessions, NEW o \in {"CONFIRM", "CANCEL"}, UserAnswers(s, o)
      PROVE  DeathOK'
  BY <1>0, <1>25 DEF UserAnswers
<1>26. ASSUME NEW s \in Sessions, NEW o \in {"CONFIRM", "CANCEL"}, AnswerIgnored(s, o)
      PROVE  DeathOK'
  BY <1>0, <1>26 DEF AnswerIgnored
<1>27. ASSUME NEW t \in Tokens, AppDieHandle(AppOf[t])
      PROVE  DeathOK'
  BY <1>0, <1>27 DEF AppDieHandle
<1>28. ASSUME NEW s \in Sessions, OnRemoteDied(s)
      PROVE  DeathOK'
  BY <1>0, <1>28 DEF OnRemoteDied
<1>29. CASE OnExternalScreenConnected
  BY <1>0, <1>29 DEF OnExternalScreenConnected
<1>30. CASE EnvAnomaly
  BY <1>0, <1>30 DEF EnvAnomaly
<1>31. CASE AncoStateChangeCallback
  BY <1>0, <1>31 DEF AncoStateChangeCallback
<1>32. CASE DeadlinePasses
  BY <1>0, <1>32 DEF DeadlinePasses
<1>33. CASE KioskOwnerGone
  BY <1>0, <1>33 DEF KioskOwnerGone
<1>34. ASSUME NEW t \in Tokens, AppDies(t)
      PROVE  DeathOK'
  BY <1>0, <1>34 DEF AppDies, SessionTypeOK
<1>35. CASE Destroy
  BY <1>0, <1>35 DEF Destroy
<1>36. CASE Crash
  BY <1>0, <1>36 DEF Crash
<1>37. CASE Start
  BY <1>0, <1>37 DEF Start
<1>38. QED
  BY <1>1, <1>2, <1>3, <1>4, <1>5, <1>6, <1>7, <1>8, <1>9, <1>10, <1>11, <1>12, <1>13,
     <1>14, <1>15, <1>16, <1>17, <1>18, <1>19, <1>20, <1>21, <1>22, <1>23, <1>24, <1>25,
     <1>26, <1>27, <1>28, <1>29, <1>30, <1>31, <1>32, <1>33, <1>34, <1>35, <1>36, <1>37
     DEF Next, HandlerStep, Request, Dialog, Notice, Environment, Lifecycle, QuietStep

\* The controller is activated stage by stage for the session that needs it.
LEMMA ControlKept ==
    ASSUME ServiceInv, [Next]_vars
    PROVE  ControlOK'
<1> USE ServiceAssumption DEF ControlOK, SessionOK, Entering, CheckSteps, ExitSteps
<1>0. SessionOK /\ ControlOK
  BY DEF ServiceInv, TypeOK
<1>1. CASE QuietStep
  BY <1>0, <1>1, QuietStepsAreQuiet, StutterKeepsInv DEF Quiet
<1>2. CASE EnvChecked
  BY <1>0, <1>2, ActivateKeepsInv
     DEF EnvChecked, Activate, ControllerInv, ControllerTypeOK, ControllerStages,
         LockdownComplete, Stages, ExtensionStates
<1>3. CASE EnvCheckFailed
  BY <1>0, <1>3, StutterKeepsInv DEF EnvCheckFailed
<1>4. CASE ActivateControl
  BY <1>0, <1>4, StageKeepsInv DEF ActivateControl
<1>5. CASE RestrictAncoApp
  BY <1>0, <1>5, StutterKeepsInv DEF RestrictAncoApp
<1>6. CASE RestrictPower
  BY <1>0, <1>6, StutterKeepsInv DEF RestrictPower
<1>7. CASE AddKioskApplicationList
  BY <1>0, <1>7, StutterKeepsInv DEF AddKioskApplicationList
<1>8. CASE EnterKioskMode
  BY <1>0, <1>8, StutterKeepsInv DEF EnterKioskMode
<1>9. CASE SaveSession
  BY <1>0, <1>9, StutterKeepsInv DEF SaveSession
<1>10. CASE AnnounceSession
  BY <1>0, <1>10, StutterKeepsInv DEF AnnounceSession
<1>11. CASE RefuseSession
  BY <1>0, <1>11, DeactivateKeepsInv DEF RefuseSession, ReleaseDevice
<1>12. CASE LiftPowerOk
  BY <1>0, <1>12, StutterKeepsInv DEF LiftPowerOk
<1>13. CASE LiftPowerFailed
  BY <1>0, <1>13, StutterKeepsInv DEF LiftPowerFailed
<1>14. CASE ExitKioskModeOk
  BY <1>0, <1>14, StutterKeepsInv DEF ExitKioskModeOk
<1>15. CASE ExitKioskModeFailed
  BY <1>0, <1>15, StutterKeepsInv DEF ExitKioskModeFailed
<1>16. CASE FinishSession
  BY <1>0, <1>16, DeactivateKeepsInv DEF FinishSession, ReleaseDevice
<1>17. CASE KeepSession
  BY <1>0, <1>17, StutterKeepsInv DEF KeepSession
<1>18. CASE AccountIdleTime
  BY <1>0, <1>18, StutterKeepsInv DEF AccountIdleTime
<1>19. CASE LoopWakes
  BY <1>0, <1>19, StutterKeepsInv DEF LoopWakes
<1>20. ASSUME NEW t \in Tokens, Begin(t)
      PROVE  ControlOK'
  BY <1>0, <1>20, DeactivateKeepsInv DEF Begin, ReleaseDevice
<1>21. ASSUME NEW t \in Tokens, End(t)
      PROVE  ControlOK'
  BY <1>0, <1>21, StutterKeepsInv DEF End
<1>22. ASSUME NEW s \in Sessions, ConfirmBegin(s)
      PROVE  ControlOK'
  BY <1>0, <1>22, StutterKeepsInv DEF ConfirmBegin
<1>23. ASSUME NEW s \in Sessions, CancelBegin(s)
      PROVE  ControlOK'
  BY <1>0, <1>23, DeactivateKeepsInv DEF CancelBegin, ReleaseDevice
<1>24. ASSUME NEW s \in Sessions, BeginDialogSystemError(s)
      PROVE  ControlOK'
  BY <1>0, <1>24, StutterKeepsInv, DeactivateKeepsInv
     DEF BeginDialogSystemError, ReleaseDevice
<1>25. ASSUME NEW s \in Sessions, NEW o \in {"CONFIRM", "CANCEL"}, UserAnswers(s, o)
      PROVE  ControlOK'
  BY <1>0, <1>25, StutterKeepsInv DEF UserAnswers
<1>26. ASSUME NEW s \in Sessions, NEW o \in {"CONFIRM", "CANCEL"}, AnswerIgnored(s, o)
      PROVE  ControlOK'
  BY <1>0, <1>26, StutterKeepsInv DEF AnswerIgnored
<1>27. ASSUME NEW t \in Tokens, AppDieHandle(AppOf[t])
      PROVE  ControlOK'
  BY <1>0, <1>27, StutterKeepsInv DEF AppDieHandle
<1>28. ASSUME NEW s \in Sessions, OnRemoteDied(s)
      PROVE  ControlOK'
  BY <1>0, <1>28, StutterKeepsInv DEF OnRemoteDied
<1>29. CASE OnExternalScreenConnected
  BY <1>0, <1>29, StutterKeepsInv DEF OnExternalScreenConnected
<1>30. CASE EnvAnomaly
  BY <1>0, <1>30, StutterKeepsInv DEF EnvAnomaly
<1>31. CASE AncoStateChangeCallback
  BY <1>0, <1>31, StutterKeepsInv DEF AncoStateChangeCallback
<1>32. CASE DeadlinePasses
  BY <1>0, <1>32, StutterKeepsInv DEF DeadlinePasses
<1>33. CASE KioskOwnerGone
  BY <1>0, <1>33, StutterKeepsInv DEF KioskOwnerGone
<1>34. ASSUME NEW t \in Tokens, AppDies(t)
      PROVE  ControlOK'
  BY <1>0, <1>34, StutterKeepsInv DEF AppDies
<1>35. CASE Destroy
  BY <1>0, <1>35
     DEF Destroy, ControllerInv, ControllerTypeOK, ControllerStages, LockdownComplete,
         Stages, ExtensionStates
<1>36. CASE Crash
  BY <1>0, <1>36
     DEF Crash, ControllerInv, ControllerTypeOK, ControllerStages, LockdownComplete,
         Stages, ExtensionStates
<1>37. CASE Start
  BY <1>0, <1>37, StutterKeepsInv DEF Start
<1>38. QED
  BY <1>1, <1>2, <1>3, <1>4, <1>5, <1>6, <1>7, <1>8, <1>9, <1>10, <1>11, <1>12, <1>13,
     <1>14, <1>15, <1>16, <1>17, <1>18, <1>19, <1>20, <1>21, <1>22, <1>23, <1>24, <1>25,
     <1>26, <1>27, <1>28, <1>29, <1>30, <1>31, <1>32, <1>33, <1>34, <1>35, <1>36, <1>37
     DEF Next, HandlerStep, Request, Dialog, Notice, Environment, Lifecycle, QuietStep

\* The members of the service keep their types.
LEMMA SessionTypeKept ==
    ASSUME ServiceInv, [Next]_vars
    PROVE  SessionTypeOK'
<1> USE ServiceAssumption DEF SessionTypeOK, Steps, CheckSteps, ExitSteps, Reasons,
    IdleTooLong
<1>0. SessionTypeOK /\ 0 <= IdleLimit
  BY DEF ServiceInv, TypeOK
<1>1. CASE QuietStep
  <2>1. UNCHANGED <<running, step, why, sessionVars, countVars>>
    BY <1>1, QuietStepsAreQuiet DEF Quiet
  <2>2. idle' \in {0, idle}
    BY <1>0, <1>1 DEF QuietStep, Query, BeginRejected, EndRejected, DialogShown, DialogNotShown,
       ScreenConnects, ScreenDisconnects, AncoSleeps, AncoWakes
  <2>3. QED
    BY <1>0, <2>1, <2>2
<1>2. CASE EnvChecked
  BY <1>0, <1>2 DEF EnvChecked
<1>3. CASE EnvCheckFailed
  BY <1>0, <1>3 DEF EnvCheckFailed
<1>4. CASE ActivateControl
  BY <1>0, <1>4 DEF ActivateControl
<1>5. CASE RestrictAncoApp
  BY <1>0, <1>5 DEF RestrictAncoApp
<1>6. CASE RestrictPower
  BY <1>0, <1>6 DEF RestrictPower
<1>7. CASE AddKioskApplicationList
  BY <1>0, <1>7 DEF AddKioskApplicationList
<1>8. CASE EnterKioskMode
  BY <1>0, <1>8 DEF EnterKioskMode
<1>9. CASE SaveSession
  BY <1>0, <1>9 DEF SaveSession
<1>10. CASE AnnounceSession
  BY <1>0, <1>10 DEF AnnounceSession
<1>11. CASE RefuseSession
  <2>1. callbacks' \in [Tokens -> 0..MaxSessions]
    BY <1>0, <1>11, UnregisteredType DEF RefuseSession
  <2>2. callback' \in 0..MaxSessions
    BY <1>0, <1>11 DEF RefuseSession
  <2>3. QED
    BY <1>0, <1>11, <2>1, <2>2 DEF RefuseSession
<1>12. CASE LiftPowerOk
  BY <1>0, <1>12 DEF LiftPowerOk
<1>13. CASE LiftPowerFailed
  BY <1>0, <1>13 DEF LiftPowerFailed
<1>14. CASE ExitKioskModeOk
  BY <1>0, <1>14 DEF ExitKioskModeOk
<1>15. CASE ExitKioskModeFailed
  BY <1>0, <1>15 DEF ExitKioskModeFailed
<1>16. CASE FinishSession
  <2>1. callbacks' \in [Tokens -> 0..MaxSessions]
    BY <1>0, <1>16, UnregisteredType DEF FinishSession
  <2>2. callback' \in 0..MaxSessions
    BY <1>0, <1>16 DEF FinishSession
  <2>3. QED
    BY <1>0, <1>16, <2>1, <2>2 DEF FinishSession
<1>17. CASE KeepSession
  BY <1>0, <1>17 DEF KeepSession
<1>18. CASE AccountIdleTime
  BY <1>0, <1>18 DEF AccountIdleTime
<1>19. CASE LoopWakes
  BY <1>0, <1>19 DEF LoopWakes
<1>20. ASSUME NEW t \in Tokens, Begin(t)
      PROVE  SessionTypeOK'
  <2>1. sessions' \in 1..MaxSessions /\ sessions' = sessions + 1
    BY <1>0, <1>20 DEF Begin
  <2>2. callbacks' \in [Tokens -> 0..MaxSessions]
    BY <1>0, <1>20, <2>1, UnregisteredType DEF Begin
  <2>3. callback' \in 0..MaxSessions /\ ticket' \in 0..MaxSessions
        /\ sessions' \in 0..MaxSessions /\ idle' \in Nat /\ idle' <= IdleLimit
    BY <1>0, <1>20, <2>1 DEF Begin
  <2>4. QED
    BY <1>0, <1>20, <2>2, <2>3 DEF Begin
<1>21. ASSUME NEW t \in Tokens, End(t)
      PROVE  SessionTypeOK'
  BY <1>0, <1>21 DEF End
<1>22. ASSUME NEW s \in Sessions, ConfirmBegin(s)
      PROVE  SessionTypeOK'
  BY <1>0, <1>22 DEF ConfirmBegin
<1>23. ASSUME NEW s \in Sessions, CancelBegin(s)
      PROVE  SessionTypeOK'
  <2>1. callbacks' \in [Tokens -> 0..MaxSessions]
    BY <1>0, <1>23, UnregisteredType DEF CancelBegin
  <2>2. callback' \in 0..MaxSessions
    BY <1>0, <1>23 DEF CancelBegin
  <2>3. QED
    BY <1>0, <1>23, <2>1, <2>2 DEF CancelBegin
<1>24. ASSUME NEW s \in Sessions, BeginDialogSystemError(s)
      PROVE  SessionTypeOK'
  <2>1. callbacks' \in [Tokens -> 0..MaxSessions]
    BY <1>0, <1>24, UnregisteredType DEF BeginDialogSystemError
  <2>2. callback' \in 0..MaxSessions
    BY <1>0, <1>24 DEF BeginDialogSystemError
  <2>3. QED
    BY <1>0, <1>24, <2>1, <2>2 DEF BeginDialogSystemError
<1>25. ASSUME NEW s \in Sessions, NEW o \in {"CONFIRM", "CANCEL"}, UserAnswers(s, o)
      PROVE  SessionTypeOK'
  BY <1>0, <1>25 DEF UserAnswers
<1>26. ASSUME NEW s \in Sessions, NEW o \in {"CONFIRM", "CANCEL"}, AnswerIgnored(s, o)
      PROVE  SessionTypeOK'
  BY <1>0, <1>26 DEF AnswerIgnored
<1>27. ASSUME NEW t \in Tokens, AppDieHandle(AppOf[t])
      PROVE  SessionTypeOK'
  BY <1>0, <1>27 DEF AppDieHandle
<1>28. ASSUME NEW s \in Sessions, OnRemoteDied(s)
      PROVE  SessionTypeOK'
  BY <1>0, <1>28 DEF OnRemoteDied
<1>29. CASE OnExternalScreenConnected
  BY <1>0, <1>29 DEF OnExternalScreenConnected
<1>30. CASE EnvAnomaly
  BY <1>0, <1>30 DEF EnvAnomaly
<1>31. CASE AncoStateChangeCallback
  BY <1>0, <1>31 DEF AncoStateChangeCallback
<1>32. CASE DeadlinePasses
  BY <1>0, <1>32 DEF DeadlinePasses
<1>33. CASE KioskOwnerGone
  BY <1>0, <1>33 DEF KioskOwnerGone
<1>34. ASSUME NEW t \in Tokens, AppDies(t)
      PROVE  SessionTypeOK'
  BY <1>0, <1>34 DEF AppDies
<1>35. CASE Destroy
  <2>1. callbacks' \in [Tokens -> 0..MaxSessions]
    BY <1>35 DEF Destroy
  <2>2. callback' \in 0..MaxSessions /\ ticket' \in 0..MaxSessions
        /\ idle' \in Nat /\ idle' <= IdleLimit
    BY <1>35 DEF Destroy
  <2>3. QED
    BY <1>0, <1>35, <2>1, <2>2 DEF Destroy
<1>36. CASE Crash
  <2>1. callbacks' \in [Tokens -> 0..MaxSessions]
    BY <1>36 DEF Crash
  <2>2. callback' \in 0..MaxSessions /\ ticket' \in 0..MaxSessions
        /\ idle' \in Nat /\ idle' <= IdleLimit
    BY <1>36 DEF Crash
  <2>3. QED
    BY <1>0, <1>36, <2>1, <2>2 DEF Crash
<1>37. CASE Start
  BY <1>0, <1>37 DEF Start
<1>38. QED
  BY <1>1, <1>2, <1>3, <1>4, <1>5, <1>6, <1>7, <1>8, <1>9, <1>10, <1>11, <1>12, <1>13,
     <1>14, <1>15, <1>16, <1>17, <1>18, <1>19, <1>20, <1>21, <1>22, <1>23, <1>24, <1>25,
     <1>26, <1>27, <1>28, <1>29, <1>30, <1>31, <1>32, <1>33, <1>34, <1>35, <1>36, <1>37
     DEF Next, HandlerStep, Request, Dialog, Notice, Environment, Lifecycle, QuietStep

\* What is known of the device keeps its type.
LEMMA DeviceTypeKept ==
    ASSUME ServiceInv, [Next]_vars
    PROVE  DeviceTypeOK'
<1> USE ServiceAssumption DEF DeviceTypeOK, AllFilters, FilterPrefixes
<1>0. SessionTypeOK /\ DeviceTypeOK
  BY DEF ServiceInv, TypeOK
<1>1. CASE QuietStep
  <2>1. UNCHANGED <<kioskVars, runningLock, stateVars>>
    BY <1>1, QuietStepsAreQuiet DEF Quiet
  <2>2. anco' \in {"awake", "asleep"} /\ screen' \in BOOLEAN
    BY <1>0, <1>1 DEF QuietStep, Query, BeginRejected, EndRejected, DialogShown, DialogNotShown,
       ScreenConnects, ScreenDisconnects, AncoSleeps, AncoWakes
  <2>3. QED
    BY <1>0, <2>1, <2>2
<1>2. CASE EnvChecked
  BY <1>0, <1>2 DEF EnvChecked
<1>3. CASE EnvCheckFailed
  BY <1>0, <1>3 DEF EnvCheckFailed
<1>4. CASE ActivateControl
  BY <1>0, <1>4 DEF ActivateControl
<1>5. CASE RestrictAncoApp
  BY <1>0, <1>5 DEF RestrictAncoApp
<1>6. CASE RestrictPower
  BY <1>0, <1>6 DEF RestrictPower
<1>7. CASE AddKioskApplicationList
  BY <1>0, <1>7 DEF AddKioskApplicationList
<1>8. CASE EnterKioskMode
  BY <1>0, <1>8 DEF EnterKioskMode, SessionTypeOK
<1>9. CASE SaveSession
  BY <1>0, <1>9 DEF SaveSession, SaveState, UpdateState
<1>10. CASE AnnounceSession
  BY <1>0, <1>10 DEF AnnounceSession
<1>11. CASE RefuseSession
  BY <1>0, <1>11 DEF RefuseSession, ReleaseDevice
<1>12. CASE LiftPowerOk
  BY <1>0, <1>12 DEF LiftPowerOk
<1>13. CASE LiftPowerFailed
  BY <1>0, <1>13 DEF LiftPowerFailed
<1>14. CASE ExitKioskModeOk
  BY <1>0, <1>14 DEF ExitKioskModeOk, SessionTypeOK
<1>15. CASE ExitKioskModeFailed
  BY <1>0, <1>15 DEF ExitKioskModeFailed
<1>16. CASE FinishSession
  BY <1>0, <1>16 DEF FinishSession, ReleaseDevice, ClearState, UpdateState
<1>17. CASE KeepSession
  BY <1>0, <1>17 DEF KeepSession
<1>18. CASE AccountIdleTime
  BY <1>0, <1>18 DEF AccountIdleTime
<1>19. CASE LoopWakes
  BY <1>0, <1>19 DEF LoopWakes
<1>20. ASSUME NEW t \in Tokens, Begin(t)
      PROVE  DeviceTypeOK'
  BY <1>0, <1>20 DEF Begin, ReleaseDevice
<1>21. ASSUME NEW t \in Tokens, End(t)
      PROVE  DeviceTypeOK'
  BY <1>0, <1>21 DEF End
<1>22. ASSUME NEW s \in Sessions, ConfirmBegin(s)
      PROVE  DeviceTypeOK'
  BY <1>0, <1>22 DEF ConfirmBegin
<1>23. ASSUME NEW s \in Sessions, CancelBegin(s)
      PROVE  DeviceTypeOK'
  BY <1>0, <1>23 DEF CancelBegin, ReleaseDevice, ClearState, UpdateState
<1>24. ASSUME NEW s \in Sessions, BeginDialogSystemError(s)
      PROVE  DeviceTypeOK'
  BY <1>0, <1>24 DEF BeginDialogSystemError, ReleaseDevice, ClearState, UpdateState
<1>25. ASSUME NEW s \in Sessions, NEW o \in {"CONFIRM", "CANCEL"}, UserAnswers(s, o)
      PROVE  DeviceTypeOK'
  BY <1>0, <1>25 DEF UserAnswers
<1>26. ASSUME NEW s \in Sessions, NEW o \in {"CONFIRM", "CANCEL"}, AnswerIgnored(s, o)
      PROVE  DeviceTypeOK'
  BY <1>0, <1>26 DEF AnswerIgnored
<1>27. ASSUME NEW t \in Tokens, AppDieHandle(AppOf[t])
      PROVE  DeviceTypeOK'
  BY <1>0, <1>27 DEF AppDieHandle
<1>28. ASSUME NEW s \in Sessions, OnRemoteDied(s)
      PROVE  DeviceTypeOK'
  BY <1>0, <1>28 DEF OnRemoteDied
<1>29. CASE OnExternalScreenConnected
  BY <1>0, <1>29 DEF OnExternalScreenConnected
<1>30. CASE EnvAnomaly
  BY <1>0, <1>30 DEF EnvAnomaly
<1>31. CASE AncoStateChangeCallback
  BY <1>0, <1>31 DEF AncoStateChangeCallback, SessionTypeOK, Written
<1>32. CASE DeadlinePasses
  BY <1>0, <1>32 DEF DeadlinePasses
<1>33. CASE KioskOwnerGone
  BY <1>0, <1>33 DEF KioskOwnerGone
<1>34. ASSUME NEW t \in Tokens, AppDies(t)
      PROVE  DeviceTypeOK'
  BY <1>0, <1>34 DEF AppDies
<1>35. CASE Destroy
  BY <1>0, <1>35 DEF Destroy
<1>36. CASE Crash
  BY <1>0, <1>36 DEF Crash
<1>37. CASE Start
  BY <1>0, <1>37 DEF Start
<1>38. QED
  BY <1>1, <1>2, <1>3, <1>4, <1>5, <1>6, <1>7, <1>8, <1>9, <1>10, <1>11, <1>12, <1>13,
     <1>14, <1>15, <1>16, <1>17, <1>18, <1>19, <1>20, <1>21, <1>22, <1>23, <1>24, <1>25,
     <1>26, <1>27, <1>28, <1>29, <1>30, <1>31, <1>32, <1>33, <1>34, <1>35, <1>36, <1>37
     DEF Next, HandlerStep, Request, Dialog, Notice, Environment, Lifecycle, QuietStep

\* What is on its way to the service keeps its type.
LEMMA NoticeTypeKept ==
    ASSUME ServiceInv, [Next]_vars
    PROVE  NoticeTypeOK'
<1> USE ServiceAssumption DEF NoticeTypeOK
<1>0. SessionTypeOK /\ NoticeTypeOK
  BY DEF ServiceInv, TypeOK
<1>1. CASE QuietStep
  BY <1>0, <1>1 DEF QuietStep, Query, BeginRejected, EndRejected, DialogShown,
     DialogNotShown, ScreenConnects, ScreenDisconnects, AncoSleeps, AncoWakes
<1>2. CASE EnvChecked
  BY <1>0, <1>2 DEF EnvChecked
<1>3. CASE EnvCheckFailed
  BY <1>0, <1>3 DEF EnvCheckFailed
<1>4. CASE ActivateControl
  BY <1>0, <1>4 DEF ActivateControl
<1>5. CASE RestrictAncoApp
  BY <1>0, <1>5 DEF RestrictAncoApp
<1>6. CASE RestrictPower
  BY <1>0, <1>6 DEF RestrictPower
<1>7. CASE AddKioskApplicationList
  BY <1>0, <1>7 DEF AddKioskApplicationList
<1>8. CASE EnterKioskMode
  BY <1>0, <1>8 DEF EnterKioskMode
<1>9. CASE SaveSession
  BY <1>0, <1>9 DEF SaveSession
<1>10. CASE AnnounceSession
  BY <1>0, <1>10 DEF AnnounceSession
<1>11. CASE RefuseSession
  BY <1>0, <1>11 DEF RefuseSession
<1>12. CASE LiftPowerOk
  BY <1>0, <1>12 DEF LiftPowerOk
<1>13. CASE LiftPowerFailed
  BY <1>0, <1>13 DEF LiftPowerFailed
<1>14. CASE ExitKioskModeOk
  BY <1>0, <1>14 DEF ExitKioskModeOk
<1>15. CASE ExitKioskModeFailed
  BY <1>0, <1>15 DEF ExitKioskModeFailed
<1>16. CASE FinishSession
  BY <1>0, <1>16 DEF FinishSession
<1>17. CASE KeepSession
  BY <1>0, <1>17 DEF KeepSession
<1>18. CASE AccountIdleTime
  BY <1>0, <1>18 DEF AccountIdleTime
<1>19. CASE LoopWakes
  BY <1>0, <1>19 DEF LoopWakes
<1>20. ASSUME NEW t \in Tokens, Begin(t)
      PROVE  NoticeTypeOK'
  <2>1. sessions' \in Sessions
    BY <1>0, <1>20 DEF Begin, SessionTypeOK, Sessions
  <2>2. QED
    BY <1>0, <1>20, <2>1 DEF Begin
<1>21. ASSUME NEW t \in Tokens, End(t)
      PROVE  NoticeTypeOK'
  BY <1>0, <1>21 DEF End
<1>22. ASSUME NEW s \in Sessions, ConfirmBegin(s)
      PROVE  NoticeTypeOK'
  BY <1>0, <1>22 DEF ConfirmBegin
<1>23. ASSUME NEW s \in Sessions, CancelBegin(s)
      PROVE  NoticeTypeOK'
  BY <1>0, <1>23 DEF CancelBegin
<1>24. ASSUME NEW s \in Sessions, BeginDialogSystemError(s)
      PROVE  NoticeTypeOK'
  BY <1>0, <1>24 DEF BeginDialogSystemError
<1>25. ASSUME NEW s \in Sessions, NEW o \in {"CONFIRM", "CANCEL"}, UserAnswers(s, o)
      PROVE  NoticeTypeOK'
  BY <1>0, <1>25 DEF UserAnswers
<1>26. ASSUME NEW s \in Sessions, NEW o \in {"CONFIRM", "CANCEL"}, AnswerIgnored(s, o)
      PROVE  NoticeTypeOK'
  BY <1>0, <1>26 DEF AnswerIgnored
<1>27. ASSUME NEW t \in Tokens, AppDieHandle(AppOf[t])
      PROVE  NoticeTypeOK'
  BY <1>0, <1>27 DEF AppDieHandle
<1>28. ASSUME NEW s \in Sessions, OnRemoteDied(s)
      PROVE  NoticeTypeOK'
  BY <1>0, <1>28 DEF OnRemoteDied
<1>29. CASE OnExternalScreenConnected
  BY <1>0, <1>29 DEF OnExternalScreenConnected
<1>30. CASE EnvAnomaly
  BY <1>0, <1>30 DEF EnvAnomaly
<1>31. CASE AncoStateChangeCallback
  BY <1>0, <1>31 DEF AncoStateChangeCallback
<1>32. CASE DeadlinePasses
  BY <1>0, <1>32 DEF DeadlinePasses
<1>33. CASE KioskOwnerGone
  BY <1>0, <1>33 DEF KioskOwnerGone
<1>34. ASSUME NEW t \in Tokens, AppDies(t)
      PROVE  NoticeTypeOK'
  <2>1. callback \in Sessions \/ callback = 0
    BY <1>0 DEF SessionTypeOK, Sessions
  <2>2. recipient => callback # 0
    BY DEF ServiceInv, DeathOK, SessionOK
  <2>3. QED
    BY <1>0, <1>34, <2>1, <2>2 DEF AppDies
<1>35. CASE Destroy
  BY <1>0, <1>35 DEF Destroy
<1>36. CASE Crash
  BY <1>0, <1>36 DEF Crash
<1>37. CASE Start
  BY <1>0, <1>37 DEF Start
<1>38. QED
  BY <1>1, <1>2, <1>3, <1>4, <1>5, <1>6, <1>7, <1>8, <1>9, <1>10, <1>11, <1>12, <1>13,
     <1>14, <1>15, <1>16, <1>17, <1>18, <1>19, <1>20, <1>21, <1>22, <1>23, <1>24, <1>25,
     <1>26, <1>27, <1>28, <1>29, <1>30, <1>31, <1>32, <1>33, <1>34, <1>35, <1>36, <1>37
     DEF Next, HandlerStep, Request, Dialog, Notice, Environment, Lifecycle, QuietStep

\* Callers hear messages only.
LEMMA HeardTypeKept ==
    ASSUME ServiceInv, [Next]_vars
    PROVE  HeardTypeOK'
<1> USE ServiceAssumption DEF HeardTypeOK
<1>0. SessionTypeOK /\ HeardTypeOK
  BY DEF ServiceInv, TypeOK
<1>1. CASE QuietStep
  BY <1>0, <1>1, QuietStepsAreQuiet DEF Quiet
<1>2. CASE EnvChecked
  BY <1>0, <1>2 DEF EnvChecked
<1>3. CASE EnvCheckFailed
  BY <1>0, <1>3 DEF EnvCheckFailed
<1>4. CASE ActivateControl
  BY <1>0, <1>4 DEF ActivateControl
<1>5. CASE RestrictAncoApp
  BY <1>0, <1>5 DEF RestrictAncoApp
<1>6. CASE RestrictPower
  BY <1>0, <1>6 DEF RestrictPower
<1>7. CASE AddKioskApplicationList
  BY <1>0, <1>7 DEF AddKioskApplicationList
<1>8. CASE EnterKioskMode
  BY <1>0, <1>8 DEF EnterKioskMode
<1>9. CASE SaveSession
  BY <1>0, <1>9 DEF SaveSession
<1>10. CASE AnnounceSession
  BY <1>0, <1>10, ToldType DEF AnnounceSession, SessionTypeOK, Messages
<1>11. CASE RefuseSession
  BY <1>0, <1>11, ToldType DEF RefuseSession, SessionTypeOK, Messages
<1>12. CASE LiftPowerOk
  BY <1>0, <1>12 DEF LiftPowerOk
<1>13. CASE LiftPowerFailed
  BY <1>0, <1>13 DEF LiftPowerFailed
<1>14. CASE ExitKioskModeOk
  BY <1>0, <1>14 DEF ExitKioskModeOk
<1>15. CASE ExitKioskModeFailed
  BY <1>0, <1>15 DEF ExitKioskModeFailed
<1>16. CASE FinishSession
  BY <1>0, <1>16, FarewellType DEF FinishSession
<1>17. CASE KeepSession
  BY <1>0, <1>17 DEF KeepSession
<1>18. CASE AccountIdleTime
  BY <1>0, <1>18 DEF AccountIdleTime
<1>19. CASE LoopWakes
  BY <1>0, <1>19 DEF LoopWakes
<1>20. ASSUME NEW t \in Tokens, Begin(t)
      PROVE  HeardTypeOK'
  BY <1>0, <1>20, ToldType DEF Begin, TurnAway, SessionTypeOK, Messages
<1>21. ASSUME NEW t \in Tokens, End(t)
      PROVE  HeardTypeOK'
  BY <1>0, <1>21 DEF End
<1>22. ASSUME NEW s \in Sessions, ConfirmBegin(s)
      PROVE  HeardTypeOK'
  BY <1>0, <1>22 DEF ConfirmBegin
<1>23. ASSUME NEW s \in Sessions, CancelBegin(s)
      PROVE  HeardTypeOK'
  BY <1>0, <1>23, ToldType DEF CancelBegin, SessionTypeOK, Messages
<1>24. ASSUME NEW s \in Sessions, BeginDialogSystemError(s)
      PROVE  HeardTypeOK'
  BY <1>0, <1>24, ToldType DEF BeginDialogSystemError, SessionTypeOK, Messages
<1>25. ASSUME NEW s \in Sessions, NEW o \in {"CONFIRM", "CANCEL"}, UserAnswers(s, o)
      PROVE  HeardTypeOK'
  BY <1>0, <1>25 DEF UserAnswers
<1>26. ASSUME NEW s \in Sessions, NEW o \in {"CONFIRM", "CANCEL"}, AnswerIgnored(s, o)
      PROVE  HeardTypeOK'
  BY <1>0, <1>26 DEF AnswerIgnored
<1>27. ASSUME NEW t \in Tokens, AppDieHandle(AppOf[t])
      PROVE  HeardTypeOK'
  BY <1>0, <1>27 DEF AppDieHandle
<1>28. ASSUME NEW s \in Sessions, OnRemoteDied(s)
      PROVE  HeardTypeOK'
  BY <1>0, <1>28 DEF OnRemoteDied
<1>29. CASE OnExternalScreenConnected
  BY <1>0, <1>29 DEF OnExternalScreenConnected
<1>30. CASE EnvAnomaly
  BY <1>0, <1>30 DEF EnvAnomaly
<1>31. CASE AncoStateChangeCallback
  BY <1>0, <1>31 DEF AncoStateChangeCallback
<1>32. CASE DeadlinePasses
  BY <1>0, <1>32 DEF DeadlinePasses
<1>33. CASE KioskOwnerGone
  BY <1>0, <1>33 DEF KioskOwnerGone
<1>34. ASSUME NEW t \in Tokens, AppDies(t)
      PROVE  HeardTypeOK'
  BY <1>0, <1>34 DEF AppDies
<1>35. CASE Destroy
  BY <1>0, <1>35 DEF Destroy
<1>36. CASE Crash
  BY <1>0, <1>36 DEF Crash
<1>37. CASE Start
  BY <1>0, <1>37 DEF Start
<1>38. QED
  BY <1>1, <1>2, <1>3, <1>4, <1>5, <1>6, <1>7, <1>8, <1>9, <1>10, <1>11, <1>12, <1>13,
     <1>14, <1>15, <1>16, <1>17, <1>18, <1>19, <1>20, <1>21, <1>22, <1>23, <1>24, <1>25,
     <1>26, <1>27, <1>28, <1>29, <1>30, <1>31, <1>32, <1>33, <1>34, <1>35, <1>36, <1>37
     DEF Next, HandlerStep, Request, Dialog, Notice, Environment, Lifecycle, QuietStep

-----------------------------------------------------------------------------

LEMMA InitMakesServiceInv == Init => ServiceInv
<1> SUFFICES ASSUME Init
             PROVE  ServiceInv
  OBVIOUS
<1> USE ServiceAssumption DEF Init
<1>1. ControllerInv
  BY InitMakesInv
<1>2. SessionTypeOK
  <2>1. callbacks \in [Tokens -> 0..MaxSessions]
    OBVIOUS
  <2>2. callback \in 0..MaxSessions /\ sessions \in 0..MaxSessions
        /\ ticket \in 0..MaxSessions /\ idle \in Nat /\ idle <= IdleLimit
    OBVIOUS
  <2>3. QED
    BY <2>1, <2>2 DEF SessionTypeOK, Steps, Reasons
<1>3. DeviceTypeOK
  <2>1. entered \in 0..MaxSessions
    OBVIOUS
  <2>2. QED
    BY <2>1 DEF DeviceTypeOK
<1>4. NoticeTypeOK
  BY DEF NoticeTypeOK
<1>5. HeardTypeOK
  BY DEF HeardTypeOK
<1>6. SessionOK /\ RegistryNamesCaller /\ ConsentOK
  BY DEF SessionOK, RegistryNamesCaller, ConsentOK, Entering, CheckSteps, ExitSteps
<1>7. ControlOK
  BY <1>1 DEF ControlOK, ControllerInit
<1>8. KioskOK /\ DeathOK
  BY DEF KioskOK, DeathOK
<1>9. QED
  BY <1>1, <1>2, <1>3, <1>4, <1>5, <1>6, <1>7, <1>8 DEF ServiceInv, TypeOK, ControllerInv

LEMMA ServiceInvKept ==
    ASSUME ServiceInv, [Next]_vars
    PROVE  ServiceInv'
<1>1. ControlOK'
  BY ControlKept
<1>2. ControllerTypeOK'
  BY <1>1 DEF ControlOK, ControllerInv
<1>3. TypeOK'
  BY <1>2, SessionTypeKept, DeviceTypeKept, NoticeTypeKept, HeardTypeKept DEF TypeOK
<1>4. QED
  BY <1>1, <1>3, SessionKept, RegistryKept, ConsentKept, KioskKept, DeathKept DEF ServiceInv

LEMMA ServiceInvHolds == Spec => []ServiceInv
BY InitMakesServiceInv, ServiceInvKept, PTL DEF Spec

\* Every member of the service, what is known of the device and every notice on
\* its way keep their types; in particular the idle clock of
\* CheckAndHandleSaIdle never runs past its limit.
THEOREM TypeCorrect == Spec => []TypeOK
<1>1. ServiceInv => TypeOK
  BY DEF ServiceInv
<1>2. QED
  BY <1>1, ServiceInvHolds, PTL

\* CallbackManager holds the stub of the current session's caller and no other,
\* however often sessions displace each other.
THEOREM RegistryCorrect == Spec => []RegistryNamesCaller
<1>1. ServiceInv => RegistryNamesCaller
  BY DEF ServiceInv
<1>2. QED
  BY <1>1, ServiceInvHolds, PTL

\* No session becomes active without the user's consent to that very session,
\* although HandleBegin is also sent the answers to dialogs of displaced ones.
THEOREM ConsentIsNeeded == Spec => []ActiveByConsent
<1>1. ServiceInv => ActiveByConsent
  BY DEF ServiceInv, ConsentOK, ActiveByConsent
<1>2. QED
  BY <1>1, ServiceInvHolds, PTL

\* Between two handlers an active session is a locked-down one, whichever
\* removals, rollbacks and exits failed in the sessions before it.
THEOREM ActiveIsLocked == Spec => []ActiveMeansLocked
<1>1. ServiceInv => ActiveMeansLocked
  <2> SUFFICES ASSUME ServiceInv, isActive, step = "free"
               PROVE  /\ LockdownComplete /\ activated
                      /\ kiosk = callerToken \/ callerToken \in dead
                      /\ deadline # "none" /\ appList
    BY DEF ActiveMeansLocked
  <2>1. LockdownComplete /\ activated
    BY DEF ServiceInv, ControlOK, ControllerInv
  <2>2. /\ kiosk = callerToken \/ callerToken \in dead
        /\ deadline # "none" /\ appList
    BY DEF ServiceInv, KioskOK, KioskHeld
  <2>3. QED
    BY <2>1, <2>2
<1>2. QED
  BY <1>1, ServiceInvHolds, PTL

\* Once CheckAndHandleSaIdle has decided to unload the service there is no
\* session, not even one that waits for the user, until the process is gone.
THEOREM UnloadIsIdle == Spec => []UnloadsIdle
<1>1. ServiceInv => UnloadsIdle
  BY DEF ServiceInv, SessionOK, UnloadsIdle
<1>2. QED
  BY <1>1, ServiceInvHolds, PTL

\* A caller that dies while its session is active, or after its kiosk mode was
\* admitted, is not overlooked, although AppDieHandle ignores sessions that are
\* not active yet and the death recipient is registered last of all.
THEOREM DeathIsNoticed == Spec => []DeadCallerNoticed
<1>1. ServiceInv => DeadCallerNoticed
  BY DEF ServiceInv, DeathOK, ExitSteps, DeadCallerNoticed
<1>2. QED
  BY <1>1, ServiceInvHolds, PTL

-----------------------------------------------------------------------------

\* Each application has one process, so that a death notice names one caller.
OneProcess == \A a, b \in Tokens : AppOf[a] = AppOf[b] => a = b

\* An exit that succeeded has released the caller's kiosk mode, and only a dead
\* caller's session goes on to its end after one that failed.
ExitOK ==
    /\ step = "exited" => kiosk # callerToken \/ callerToken \in dead
    /\ why = "died" => callerToken \in dead

LEMMA ExitKept ==
    ASSUME OneProcess, ServiceInv, ExitOK, [Next]_vars
    PROVE  ExitOK'
<1> USE ServiceAssumption DEF ExitOK, SessionOK, Entering, CheckSteps, ExitSteps
<1>0. NoticeTypeOK /\ SessionTypeOK /\ SessionOK /\ DeathOK /\ ExitOK
  BY DEF ServiceInv, TypeOK
<1>1. CASE QuietStep
  <2>1. UNCHANGED <<step, why, callerToken, kiosk, dead>>
    BY <1>1, QuietStepsAreQuiet DEF Quiet
  <2>2. QED
    BY <1>0, <2>1
<1>2. CASE EnvChecked
  BY <1>0, <1>2 DEF EnvChecked
<1>3. CASE EnvCheckFailed
  BY <1>0, <1>3 DEF EnvCheckFailed
<1>4. CASE ActivateControl
  BY <1>0, <1>4 DEF ActivateControl
<1>5. CASE RestrictAncoApp
  BY <1>0, <1>5 DEF RestrictAncoApp
<1>6. CASE RestrictPower
  BY <1>0, <1>6 DEF RestrictPower
<1>7. CASE AddKioskApplicationList
  BY <1>0, <1>7 DEF AddKioskApplicationList
<1>8. CASE EnterKioskMode
  BY <1>0, <1>8 DEF EnterKioskMode
<1>9. CASE SaveSession
  BY <1>0, <1>9 DEF SaveSession
<1>10. CASE AnnounceSession
  BY <1>0, <1>10 DEF AnnounceSession
<1>11. CASE RefuseSession
  BY <1>0, <1>11 DEF RefuseSession
<1>12. CASE LiftPowerOk
  BY <1>0, <1>12 DEF LiftPowerOk
<1>13. CASE LiftPowerFailed
  BY <1>0, <1>13 DEF LiftPowerFailed
<1>14. CASE ExitKioskModeOk
  BY <1>0, <1>14 DEF ExitKioskModeOk
<1>15. CASE ExitKioskModeFailed
  BY <1>0, <1>15 DEF ExitKioskModeFailed
<1>16. CASE FinishSession
  BY <1>0, <1>16 DEF FinishSession
<1>17. CASE KeepSession
  BY <1>0, <1>17 DEF KeepSession
<1>18. CASE AccountIdleTime
  BY <1>0, <1>18 DEF AccountIdleTime
<1>19. CASE LoopWakes
  BY <1>0, <1>19 DEF LoopWakes
<1>20. ASSUME NEW t \in Tokens, Begin(t)
      PROVE  ExitOK'
  BY <1>0, <1>20 DEF Begin, DeathOK
<1>21. ASSUME NEW t \in Tokens, End(t)
      PROVE  ExitOK'
  BY <1>0, <1>21 DEF End
<1>22. ASSUME NEW s \in Sessions, ConfirmBegin(s)
      PROVE  ExitOK'
  BY <1>0, <1>22 DEF ConfirmBegin
<1>23. ASSUME NEW s \in Sessions, CancelBegin(s)
      PROVE  ExitOK'
  BY <1>0, <1>23 DEF CancelBegin, DeathOK
<1>24. ASSUME NEW s \in Sessions, BeginDialogSystemError(s)
      PROVE  ExitOK'
  BY <1>0, <1>24 DEF BeginDialogSystemError, DeathOK
<1>25. ASSUME NEW s \in Sessions, NEW o \in {"CONFIRM", "CANCEL"}, UserAnswers(s, o)
      PROVE  ExitOK'
  BY <1>0, <1>25 DEF UserAnswers
<1>26. ASSUME NEW s \in Sessions, NEW o \in {"CONFIRM", "CANCEL"}, AnswerIgnored(s, o)
      PROVE  ExitOK'
  BY <1>0, <1>26 DEF AnswerIgnored
<1>27. ASSUME NEW t \in Tokens, AppDieHandle(AppOf[t])
      PROVE  ExitOK'
  <2>1. PICK d \in dead : AppOf[t] = AppOf[d]
    BY <1>0, <1>27 DEF AppDieHandle, DeathOK
  <2>2. dead \subseteq Tokens
    BY <1>0 DEF NoticeTypeOK
  <2>3. isActive => callerToken \in Tokens
    BY <1>0 DEF SessionTypeOK
  <2>4. isActive /\ AppOf[callerToken] = AppOf[t] => callerToken \in dead
    BY <2>1, <2>2, <2>3 DEF OneProcess
  <2>5. QED
    BY <1>0, <1>27, <2>4 DEF AppDieHandle
<1>28. ASSUME NEW s \in Sessions, OnRemoteDied(s)
      PROVE  ExitOK'
  BY <1>0, <1>28 DEF OnRemoteDied, DeathOK
<1>29. CASE OnExternalScreenConnected
  BY <1>0, <1>29 DEF OnExternalScreenConnected
<1>30. CASE EnvAnomaly
  BY <1>0, <1>30 DEF EnvAnomaly
<1>31. CASE AncoStateChangeCallback
  BY <1>0, <1>31 DEF AncoStateChangeCallback
<1>32. CASE DeadlinePasses
  BY <1>0, <1>32 DEF DeadlinePasses
<1>33. CASE KioskOwnerGone
  BY <1>0, <1>33 DEF KioskOwnerGone
<1>34. ASSUME NEW t \in Tokens, AppDies(t)
      PROVE  ExitOK'
  BY <1>0, <1>34 DEF AppDies
<1>35. CASE Destroy
  BY <1>0, <1>35 DEF Destroy
<1>36. CASE Crash
  BY <1>0, <1>36 DEF Crash
<1>37. CASE Start
  BY <1>0, <1>37 DEF Start
<1>38. QED
  BY <1>1, <1>2, <1>3, <1>4, <1>5, <1>6, <1>7, <1>8, <1>9, <1>10, <1>11, <1>12, <1>13,
     <1>14, <1>15, <1>16, <1>17, <1>18, <1>19, <1>20, <1>21, <1>22, <1>23, <1>24, <1>25,
     <1>26, <1>27, <1>28, <1>29, <1>30, <1>31, <1>32, <1>33, <1>34, <1>35, <1>36, <1>37
     DEF Next, HandlerStep, Request, Dialog, Notice, Environment, Lifecycle, QuietStep

\* A step that ends the session of a living caller leaves it no kiosk mode.
Released ==
    isActive /\ ~isActive' =>
        kiosk' # callerToken \/ callerToken \in dead \/ running' = "down"

LEMMA EndStepReleases ==
    ASSUME ServiceInv, ExitOK, [Next]_vars
    PROVE  Released
<1> USE ServiceAssumption DEF ExitOK, Released, SessionOK, Entering, CheckSteps,
    ExitSteps
<1>0. SessionOK /\ ExitOK
  BY DEF ServiceInv, TypeOK
<1>1. CASE QuietStep
  BY <1>1, QuietStepsAreQuiet DEF Quiet
<1>2. CASE EnvChecked
  BY <1>0, <1>2 DEF EnvChecked
<1>3. CASE EnvCheckFailed
  BY <1>0, <1>3 DEF EnvCheckFailed
<1>4. CASE ActivateControl
  BY <1>0, <1>4 DEF ActivateControl
<1>5. CASE RestrictAncoApp
  BY <1>0, <1>5 DEF RestrictAncoApp
<1>6. CASE RestrictPower
  BY <1>0, <1>6 DEF RestrictPower
<1>7. CASE AddKioskApplicationList
  BY <1>0, <1>7 DEF AddKioskApplicationList
<1>8. CASE EnterKioskMode
  BY <1>0, <1>8 DEF EnterKioskMode
<1>9. CASE SaveSession
  BY <1>0, <1>9 DEF SaveSession
<1>10. CASE AnnounceSession
  BY <1>0, <1>10 DEF AnnounceSession
<1>11. CASE RefuseSession
  BY <1>0, <1>11 DEF RefuseSession
<1>12. CASE LiftPowerOk
  BY <1>0, <1>12 DEF LiftPowerOk
<1>13. CASE LiftPowerFailed
  BY <1>0, <1>13 DEF LiftPowerFailed
<1>14. CASE ExitKioskModeOk
  BY <1>0, <1>14 DEF ExitKioskModeOk
<1>15. CASE ExitKioskModeFailed
  BY <1>0, <1>15 DEF ExitKioskModeFailed
<1>16. CASE FinishSession
  BY <1>0, <1>16 DEF FinishSession
<1>17. CASE KeepSession
  BY <1>0, <1>17 DEF KeepSession
<1>18. CASE AccountIdleTime
  BY <1>0, <1>18 DEF AccountIdleTime
<1>19. CASE LoopWakes
  BY <1>0, <1>19 DEF LoopWakes
<1>20. ASSUME NEW t \in Tokens, Begin(t)
      PROVE  Released
  BY <1>0, <1>20 DEF Begin
<1>21. ASSUME NEW t \in Tokens, End(t)
      PROVE  Released
  BY <1>0, <1>21 DEF End
<1>22. ASSUME NEW s \in Sessions, ConfirmBegin(s)
      PROVE  Released
  BY <1>0, <1>22 DEF ConfirmBegin
<1>23. ASSUME NEW s \in Sessions, CancelBegin(s)
      PROVE  Released
  BY <1>0, <1>23 DEF CancelBegin
<1>24. ASSUME NEW s \in Sessions, BeginDialogSystemError(s)
      PROVE  Released
  BY <1>0, <1>24 DEF BeginDialogSystemError
<1>25. ASSUME NEW s \in Sessions, NEW o \in {"CONFIRM", "CANCEL"}, UserAnswers(s, o)
      PROVE  Released
  BY <1>0, <1>25 DEF UserAnswers
<1>26. ASSUME NEW s \in Sessions, NEW o \in {"CONFIRM", "CANCEL"}, AnswerIgnored(s, o)
      PROVE  Released
  BY <1>0, <1>26 DEF AnswerIgnored
<1>27. ASSUME NEW t \in Tokens, AppDieHandle(AppOf[t])
      PROVE  Released
  BY <1>0, <1>27 DEF AppDieHandle
<1>28. ASSUME NEW s \in Sessions, OnRemoteDied(s)
      PROVE  Released
  BY <1>0, <1>28 DEF OnRemoteDied
<1>29. CASE OnExternalScreenConnected
  BY <1>0, <1>29 DEF OnExternalScreenConnected
<1>30. CASE EnvAnomaly
  BY <1>0, <1>30 DEF EnvAnomaly
<1>31. CASE AncoStateChangeCallback
  BY <1>0, <1>31 DEF AncoStateChangeCallback
<1>32. CASE DeadlinePasses
  BY <1>0, <1>32 DEF DeadlinePasses
<1>33. CASE KioskOwnerGone
  BY <1>0, <1>33 DEF KioskOwnerGone
<1>34. ASSUME NEW t \in Tokens, AppDies(t)
      PROVE  Released
  BY <1>0, <1>34 DEF AppDies
<1>35. CASE Destroy
  BY <1>0, <1>35 DEF Destroy
<1>36. CASE Crash
  BY <1>0, <1>36 DEF Crash
<1>37. CASE Start
  BY <1>0, <1>37 DEF Start
<1>38. QED
  BY <1>1, <1>2, <1>3, <1>4, <1>5, <1>6, <1>7, <1>8, <1>9, <1>10, <1>11, <1>12, <1>13,
     <1>14, <1>15, <1>16, <1>17, <1>18, <1>19, <1>20, <1>21, <1>22, <1>23, <1>24, <1>25,
     <1>26, <1>27, <1>28, <1>29, <1>30, <1>31, <1>32, <1>33, <1>34, <1>35, <1>36, <1>37
     DEF Next, HandlerStep, Request, Dialog, Notice, Environment, Lifecycle, QuietStep

\* End, Timeout, EnvAnomaly and AppDie take its session from a living caller
\* only with its kiosk mode released.  With several processes to an application
\* this is false: the death of one of them ends the session of another even if
\* the exit fails (AppDie).
THEOREM EndReleasesKiosk ==
    ASSUME OneProcess
    PROVE  Spec => EndsReleased
<1>1. Init => ExitOK
  BY DEF Init, ExitOK
<1>2. ServiceInv /\ ExitOK /\ [Next]_vars => ExitOK'
  BY ExitKept
<1>3. ServiceInv /\ ExitOK /\ [Next]_vars =>
        [Released]_vars
  BY EndStepReleases
<1>4. QED
  BY <1>1, <1>2, <1>3, ServiceInvHolds, PTL DEF Spec, EndsReleased, Released
=============================================================================
