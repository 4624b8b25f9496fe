---------------------------- MODULE DeviceStateProofs ----------------------------
(***************************************************************************)
(* What the service leaves on the device, and what is on record of it.     *)
(* Each theorem names the calls that must not fail and the disturbances it *)
(* excludes; AssessmentService.tla allows the rest in any combination.     *)
(***************************************************************************)
EXTENDS CallerProtocolProofs

USE DEF HandlerFrame, Untouched, Continue, StartExit, LiftPower, TakeAnswer,
    CleanupCurrentSession, ProcessGone, LockFree, EndAccepted, AnswerCounts,
    DialogErrorCounts, AnomalyConfirmed, Due, NobodyThere, AfterExit, EndsAnyway,
    sessionVars, loopVars, kioskVars, stateVars, dialogVars, deathVars, screenVars,
    ancoVars, countVars, deviceVars, worldVars, controllerVars, vars

-----------------------------------------------------------------------------
(* The persistent parameter *)

WritesSucceed == "setParameter" \notin MayFail

\* A difference between the parameter and isActive is a write that is due, and
\* a write that is due has its occasion ahead.
PersistInv ==
    /\ running # "down" => (persistActive <=> isActive) \/ waitAnco
    /\ waitAnco => running # "down" /\ (anco = "asleep" \/ ancoNotice)

\* Every step that sets isActive writes the parameter or leaves a write due.
LEMMA PersistKept ==
    ASSUME ServiceInv, PersistInv, WritesSucceed, [Next]_vars
    PROVE  PersistInv'
<1> USE DEF PersistInv, SessionOK, Entering, CheckSteps, ExitSteps
<1>0. /\ SessionTypeOK /\ DeviceTypeOK /\ SessionOK /\ PersistInv /\ "setParameter" \notin MayFail
      /\ anco \in {"awake", "asleep"}
  BY DEF ServiceInv, TypeOK, DeviceTypeOK, WritesSucceed
<1>1. CASE QuietStep
  <2>1. UNCHANGED <<running, persistActive, isActive, waitAnco>>
    BY <1>1, QuietStepsAreQuiet DEF Quiet
  <2>2. UNCHANGED <<anco, ancoNotice>> \/ AncoSleeps \/ AncoWakes
    BY <1>1 DEF QuietStep, Query, BeginRejected, EndRejected, DialogShown,
       DialogNotShown, ScreenConnects, ScreenDisconnects
  <2>3. QED
    BY <1>0, <2>1, <2>2 DEF AncoSleeps, AncoWakes
<1>2. CASE EnvChecked
  BY <1>0, <1>2 DEF EnvChecked
<1>3. CASE EnvCheckFailed
  BY <1>0, <1>3 DEF EnvCheckFailed
<1>4. CASE ActivateControl
  BY <1>0, <1>4 DEF ActivateControl
<1>5. CASE RestrictAncoApp
  BY <1>0, <1>5 DEF RestrictAncoApp
<1>6. CASE RestrictPower
  BY <1>0, <1>6 DEF RestrictPower
<1>7. CASE AddKioskApplicationList
  BY <1>0, <1>7 DEF AddKioskApplicationList
<1>8. CASE EnterKioskMode
  BY <1>0, <1>8 DEF EnterKioskMode
<1>9. CASE SaveSession
  BY <1>0, <1>9 DEF SaveSession, SaveState, UpdateState
<1>10. CASE AnnounceSession
  BY <1>0, <1>10 DEF AnnounceSession
<1>11. CASE RefuseSession
  BY <1>0, <1>11 DEF RefuseSession
<1>12. CASE LiftPowerOk
  BY <1>0, <1>12 DEF LiftPowerOk
<1>13. CASE LiftPowerFailed
  BY <1>0, <1>13 DEF LiftPowerFailed
<1>14. CASE ExitKioskModeOk
  BY <1>0, <1>14 DEF ExitKioskModeOk
<1>15. CASE ExitKioskModeFailed
  BY <1>0, <1>15 DEF ExitKioskModeFailed
<1>16. CASE FinishSession
  BY <1>0, <1>16 DEF FinishSession, ClearState, UpdateState
<1>17. CASE KeepSession
  BY <1>0, <1>17 DEF KeepSession
<1>18. CASE AccountIdleTime
  BY <1>0, <1>18 DEF AccountIdleTime
<1>19. CASE LoopWakes
  BY <1>0, <1>19 DEF LoopWakes
<1>20. ASSUME NEW t \in Tokens, Begin(t)
      PROVE  PersistInv'
  BY <1>0, <1>20 DEF Begin
<1>21. ASSUME NEW t \in Tokens, End(t)
      PROVE  PersistInv'
  BY <1>0, <1>21 DEF End
<1>22. ASSUME NEW s \in Sessions, ConfirmBegin(s)
      PROVE  PersistInv'
  BY <1>0, <1>22 DEF ConfirmBegin
<1>23. ASSUME NEW s \in Sessions, CancelBegin(s)
      PROVE  PersistInv'
  BY <1>0, <1>23 DEF CancelBegin, ClearState, UpdateState
<1>24. ASSUME NEW s \in Sessions, BeginDialogSystemError(s)
      PROVE  PersistInv'
  BY <1>0, <1>24 DEF BeginDialogSystemError, ClearState, UpdateState
<1>25. ASSUME NEW s \in Sessions, NEW o \in {"CONFIRM", "CANCEL"}, UserAnswers(s, o)
      PROVE  PersistInv'
  BY <1>0, <1>25 DEF UserAnswers
<1>26. ASSUME NEW s \in Sessions, NEW o \in {"CONFIRM", "CANCEL"}, AnswerIgnored(s, o)
      PROVE  PersistInv'
  BY <1>0, <1>26 DEF AnswerIgnored
<1>27. ASSUME NEW t \in Tokens, AppDieHandle(AppOf[t])
      PROVE  PersistInv'
  BY <1>0, <1>27 DEF AppDieHandle
<1>28. ASSUME NEW s \in Sessions, OnRemoteDied(s)
      PROVE  PersistInv'
  BY <1>0, <1>28 DEF OnRemoteDied
<1>29. CASE OnExternalScreenConnected
  BY <1>0, <1>29 DEF OnExternalScreenConnected
<1>30. CASE EnvAnomaly
  BY <1>0, <1>30 DEF EnvAnomaly
<1>31. CASE AncoStateChangeCallback
  BY <1>0, <1>31 DEF AncoStateChangeCallback, Written
<1>32. CASE DeadlinePasses
  BY <1>0, <1>32 DEF DeadlinePasses
<1>33. CASE KioskOwnerGone
  BY <1>0, <1>33 DEF KioskOwnerGone
<1>34. ASSUME NEW t \in Tokens, AppDies(t)
      PROVE  PersistInv'
  BY <1>0, <1>34 DEF AppDies
<1>35. CASE Destroy
  BY <1>0, <1>35 DEF Destroy
<1>36. CASE Crash
  BY <1>0, <1>36 DEF Crash
<1>37. CASE Start
  BY <1>0, <1>37 DEF Start
<1>38. QED
  BY <1>1, <1>2, <1>3, <1>4, <1>5, <1>6, <1>7, <1>8, <1>9, <1>10, <1>11, <1>12,
     <1>13, <1>14, <1>15, <1>16, <1>17, <1>18, <1>19, <1>20, <1>21, <1>22, <1>23,
     <1>24, <1>25, <1>26, <1>27, <1>28, <1>29, <1>30, <1>31, <1>32, <1>33, <1>34,
     <1>35, <1>36, <1>37
     DEF Next, HandlerStep, Request, Dialog, Notice, Environment, Lifecycle, QuietStep

\* The parameter of a running service differs from isActive only while a write
\* is due, provided that no write of a parameter fails.
THEOREM PersistIsTracked ==
    ASSUME WritesSucceed
    PROVE  Spec => []PersistTracksActive
<1>1. Init => PersistInv
  BY DEF Init, PersistInv
<1>2. ServiceInv /\ PersistInv /\ [Next]_vars => PersistInv'
  BY PersistKept
<1>3. ServiceInv /\ PersistInv => PersistTracksActive
  BY DEF ServiceInv, TypeOK, SessionTypeOK, DeviceTypeOK, PersistInv, PersistTracksActive
<1>4. QED
  BY <1>1, <1>2, <1>3, ServiceInvHolds, PTL DEF Spec

-----------------------------------------------------------------------------
(* The owner of the kiosk mode *)

\* The kiosk mode belongs to the session, from the moment it is entered.
KioskIsOwned == running # "down" /\ kiosk = callerToken /\ (step = "save" \/ isActive)

\* The kiosk mode is off, or a dead process's, or the session's.
KioskOwner == kiosk \in {NoToken} \cup dead \/ KioskIsOwned

\* Whichever way a session ends, its living caller's kiosk mode is off by then;
\* only a crash takes the session away from it.
LEMMA KioskOwnerKept ==
    ASSUME ServiceInv, ExitOK, KioskOwner, ~Crash, [Next]_vars
    PROVE  KioskOwner'
<1> USE DEF KioskOwner, KioskIsOwned, ExitOK, SessionOK, Entering, CheckSteps, ExitSteps
<1>0. SessionTypeOK /\ DeviceTypeOK /\ SessionOK /\ ExitOK /\ KioskOwner
  BY DEF ServiceInv, TypeOK
<1>1. CASE QuietStep
  BY <1>0, <1>1, QuietStepsAreQuiet DEF Quiet
<1>2. CASE EnvChecked
  BY <1>0, <1>2 DEF EnvChecked
<1>3. CASE EnvCheckFailed
  BY <1>0, <1>3 DEF EnvCheckFailed
<1>4. CASE ActivateControl
  BY <1>0, <1>4 DEF ActivateControl
<1>5. CASE RestrictAncoApp
  BY <1>0, <1>5 DEF RestrictAncoApp
<1>6. CASE RestrictPower
  BY <1>0, <1>6 DEF RestrictPower
<1>7. CASE AddKioskApplicationList
  BY <1>0, <1>7 DEF AddKioskApplicationList
<1>8. CASE EnterKioskMode
  BY <1>0, <1>8 DEF EnterKioskMode
<1>9. CASE SaveSession
  BY <1>0, <1>9 DEF SaveSession
<1>10. CASE AnnounceSession
  BY <1>0, <1>10 DEF AnnounceSession
<1>11. CASE RefuseSession
  BY <1>0, <1>11 DEF RefuseSession
<1>12. CASE LiftPowerOk
  BY <1>0, <1>12 DEF LiftPowerOk
<1>13. CASE LiftPowerFailed
  BY <1>0, <1>13 DEF LiftPowerFailed
<1>14. CASE ExitKioskModeOk
  BY <1>0, <1>14 DEF ExitKioskModeOk
<1>15. CASE ExitKioskModeFailed
  BY <1>0, <1>15 DEF ExitKioskModeFailed
<1>16. CASE FinishSession
  BY <1>0, <1>16 DEF FinishSession, EndsAnyway
<1>17. CASE KeepSession
  BY <1>0, <1>17 DEF KeepSession
<1>18. CASE AccountIdleTime
  BY <1>0, <1>18 DEF AccountIdleTime
<1>19. CASE LoopWakes
  BY <1>0, <1>19 DEF LoopWakes
<1>20. ASSUME NEW t \in Tokens, Begin(t)
      PROVE  KioskOwner'
  BY <1>0, <1>20 DEF Begin
<1>21. ASSUME NEW t \in Tokens, End(t)
      PROVE  KioskOwner'
  BY <1>0, <1>21 DEF End
<1>22. ASSUME NEW s \in Sessions, ConfirmBegin(s)
      PROVE  KioskOwner'
  BY <1>0, <1>22 DEF ConfirmBegin
<1>23. ASSUME NEW s \in Sessions, CancelBegin(s)
      PROVE  KioskOwner'
  BY <1>0, <1>23 DEF CancelBegin
<1>24. ASSUME NEW s \in Sessions, BeginDialogSystemError(s)
      PROVE  KioskOwner'
  BY <1>0, <1>24 DEF BeginDialogSystemError
<1>25. ASSUME NEW s \in Sessions, NEW o \in {"CONFIRM", "CANCEL"}, UserAnswers(s, o)
      PROVE  KioskOwner'
  BY <1>0, <1>25 DEF UserAnswers
<1>26. ASSUME NEW s \in Sessions, NEW o \in {"CONFIRM", "CANCEL"}, AnswerIgnored(s, o)
      PROVE  KioskOwner'
  BY <1>0, <1>26 DEF AnswerIgnored
<1>27. ASSUME NEW t \in Tokens, AppDieHandle(AppOf[t])
      PROVE  KioskOwner'
  BY <1>0, <1>27 DEF AppDieHandle
<1>28. ASSUME NEW s \in Sessions, OnRemoteDied(s)
      PROVE  KioskOwner'
  BY <1>0, <1>28 DEF OnRemoteDied
<1>29. CASE OnExternalScreenConnected
  BY <1>0, <1>29 DEF OnExternalScreenConnected
<1>30. CASE EnvAnomaly
  BY <1>0, <1>30 DEF EnvAnomaly
<1>31. CASE AncoStateChangeCallback
  BY <1>0, <1>31 DEF AncoStateChangeCallback
<1>32. CASE DeadlinePasses
  BY <1>0, <1>32 DEF DeadlinePasses
<1>33. CASE KioskOwnerGone
  BY <1>0, <1>33 DEF KioskOwnerGone
<1>34. ASSUME NEW t \in Tokens, AppDies(t)
      PROVE  KioskOwner'
  BY <1>0, <1>34 DEF AppDies
<1>35. CASE Destroy
  BY <1>0, <1>35 DEF Destroy
<1>36. CASE Crash
  BY <1>36
<1>37. CASE Start
  BY <1>0, <1>37 DEF Start
<1>38. QED
  BY <1>1, <1>2, <1>3, <1>4, <1>5, <1>6, <1>7, <1>8, <1>9, <1>10, <1>11, <1>12,
     <1>13, <1>14, <1>15, <1>16, <1>17, <1>18, <1>19, <1>20, <1>21, <1>22, <1>23,
     <1>24, <1>25, <1>26, <1>27, <1>28, <1>29, <1>30, <1>31, <1>32, <1>33, <1>34,
     <1>35, <1>36, <1>37
     DEF Next, HandlerStep, Request, Dialog, Notice, Environment, Lifecycle, QuietStep

\* Without a crash a kiosk mode that is on is on record, or about to be: the
\* parameter says active, or its write is due, or the very next part of the
\* handler makes it, or the process that held the mode is dead.
THEOREM KioskIsRecorded ==
    ASSUME OneProcess, WritesSucceed, "crash" \notin Disturbances
    PROVE  Spec => []KioskIsOnRecord
<1>1. Init => ExitOK /\ PersistInv /\ KioskOwner
  BY DEF Init, ExitOK, PersistInv, KioskOwner
<1>2. ServiceInv /\ ExitOK /\ [Next]_vars => ExitOK'
  BY ExitKept
<1>3. ServiceInv /\ PersistInv /\ [Next]_vars => PersistInv'
  BY PersistKept
<1>4. ServiceInv /\ ExitOK /\ KioskOwner /\ [Next]_vars => KioskOwner'
  BY KioskOwnerKept DEF Crash
<1>5. ServiceInv /\ PersistInv /\ KioskOwner => KioskIsOnRecord
  BY DEF ServiceInv, TypeOK, SessionTypeOK, DeviceTypeOK, PersistInv, KioskOwner,
     KioskIsOwned, KioskIsOnRecord
<1>6. QED
  BY <1>1, <1>2, <1>3, <1>4, <1>5, ServiceInvHolds, PTL DEF Spec

-----------------------------------------------------------------------------
(* The kiosk mode a crash leaves on *)

\* The session that entered kiosk mode last is over without its caller having
\* been told anything.
Unannounced == entered \in 1..sessions \ {callback} /\ heard[entered] = <<>>

\* The kiosk mode has an owner, or the next start knows of it, or it is that of
\* a session that was never announced.
KioskKnown == KioskOwner \/ (running = "down" /\ persistActive) \/ Unannounced

\* Nothing is said later to a session that is over.
LEMMA UnannouncedKept ==
    ASSUME SpeechInv, Unannounced, Kind, entered' = entered
    PROVE  Unannounced'
<1>0. sessions \in Nat /\ heard \in [Sessions -> Seq(Messages)] /\ sessions <= MaxSessions
  BY ServiceAssumption DEF SpeechInv, ServiceInv, TypeOK, SessionTypeOK, HeardTypeOK
<1> DEFINE s == entered
<1>1. s \in 1..sessions /\ s # callback /\ heard[s] = <<>> /\ s' = s
  BY DEF Unannounced
<1>2. s \in Sessions /\ s \in 1..(sessions + 1) /\ s # sessions + 1 /\ s # 0
  BY <1>0, <1>1, ServiceAssumption DEF Sessions
<1>3. \A m : callerToken # NoToken => Told(callerToken, m)[s] = heard[s]
  BY <1>0, <1>1, <1>2, ToldIs DEF SpeechInv
<1>4. CASE Asks
  <2>1. heard'[s] = <<>> /\ callback' = sessions + 1 /\ sessions' = sessions + 1
    BY <1>1, <1>3, <1>4 DEF Asks
  <2>2. QED
    BY <1>2, <2>1 DEF Unannounced
<1>5. CASE Announces \/ Refuses \/ Ends
  BY <1>1, <1>2, <1>3, <1>5 DEF Announces, Refuses, Ends, Over, Unannounced
<1>6. CASE Silent \/ Saves \/ Dies \/ Vanishes \/ Starts
  BY <1>1, <1>2, <1>6 DEF Silent, Saves, Dies, Vanishes, Starts, Unannounced
<1>7. QED
  BY <1>4, <1>5, <1>6 DEF Kind

\* Until its next start a service that is down does nothing.
LEMMA DownStep ==
    ASSUME ServiceInv, running = "down", ~Start, [Next]_vars
    PROVE  UNCHANGED <<running, persistActive>>
<1> USE DEF SessionOK, Entering, CheckSteps, ExitSteps
<1>0. SessionOK /\ SessionTypeOK /\ running = "down" /\ ~Start /\ step = "free" /\ ~isActive
  BY DEF ServiceInv, TypeOK, SessionTypeOK
<1>1. CASE QuietStep
  BY <1>0, <1>1, QuietStepsAreQuiet DEF Quiet
<1>2. CASE EnvChecked
  BY <1>0, <1>2 DEF EnvChecked
<1>3. CASE EnvCheckFailed
  BY <1>0, <1>3 DEF EnvCheckFailed
<1>4. CASE ActivateControl
  BY <1>0, <1>4 DEF ActivateControl
<1>5. CASE RestrictAncoApp
  BY <1>0, <1>5 DEF RestrictAncoApp
<1>6. CASE RestrictPower
  BY <1>0, <1>6 DEF RestrictPower
<1>7. CASE AddKioskApplicationList
  BY <1>0, <1>7 DEF AddKioskApplicationList
<1>8. CASE EnterKioskMode
  BY <1>0, <1>8 DEF EnterKioskMode
<1>9. CASE SaveSession
  BY <1>0, <1>9 DEF SaveSession
<1>10. CASE AnnounceSession
  BY <1>0, <1>10 DEF AnnounceSession
<1>11. CASE RefuseSession
  BY <1>0, <1>11 DEF RefuseSession
<1>12. CASE LiftPowerOk
  BY <1>0, <1>12 DEF LiftPowerOk
<1>13. CASE LiftPowerFailed
  BY <1>0, <1>13 DEF LiftPowerFailed
<1>14. CASE ExitKioskModeOk
  BY <1>0, <1>14 DEF ExitKioskModeOk
<1>15. CASE ExitKioskModeFailed
  BY <1>0, <1>15 DEF ExitKioskModeFailed
<1>16. CASE FinishSession
  BY <1>0, <1>16 DEF FinishSession
<1>17. CASE KeepSession
  BY <1>0, <1>17 DEF KeepSession
<1>18. CASE AccountIdleTime
  BY <1>0, <1>18 DEF AccountIdleTime
<1>19. CASE LoopWakes
  BY <1>0, <1>19 DEF LoopWakes
<1>20. ASSUME NEW t \in Tokens, Begin(t)
      PROVE  UNCHANGED <<running, persistActive>>
  BY <1>0, <1>20 DEF Begin
<1>21. ASSUME NEW t \in Tokens, End(t)
      PROVE  UNCHANGED <<running, persistActive>>
  BY <1>0, <1>21 DEF End
<1>22. ASSUME NEW s \in Sessions, ConfirmBegin(s)
      PROVE  UNCHANGED <<running, persistActive>>
  BY <1>0, <1>22 DEF ConfirmBegin
<1>23. ASSUME NEW s \in Sessions, CancelBegin(s)
      PROVE  UNCHANGED <<running, persistActive>>
  BY <1>0, <1>23 DEF CancelBegin
<1>24. ASSUME NEW s \in Sessions, BeginDialogSystemError(s)
      PROVE  UNCHANGED <<running, persistActive>>
  BY <1>0, <1>24 DEF BeginDialogSystemError
<1>25. ASSUME NEW s \in Sessions, NEW o \in {"CONFIRM", "CANCEL"}, UserAnswers(s, o)
      PROVE  UNCHANGED <<running, persistActive>>
  BY <1>0, <1>25 DEF UserAnswers
<1>26. ASSUME NEW s \in Sessions, NEW o \in {"CONFIRM", "CANCEL"}, AnswerIgnored(s, o)
      PROVE  UNCHANGED <<running, persistActive>>
  BY <1>0, <1>26 DEF AnswerIgnored
<1>27. ASSUME NEW t \in Tokens, AppDieHandle(AppOf[t])
      PROVE  UNCHANGED <<running, persistActive>>
  BY <1>0, <1>27 DEF AppDieHandle
<1>28. ASSUME NEW s \in Sessions, OnRemoteDied(s)
      PROVE  UNCHANGED <<running, persistActive>>
  BY <1>0, <1>28 DEF OnRemoteDied
<1>29. CASE OnExternalScreenConnected
  BY <1>0, <1>29 DEF OnExternalScreenConnected
<1>30. CASE EnvAnomaly
  BY <1>0, <1>30 DEF EnvAnomaly
<1>31. CASE AncoStateChangeCallback
  BY <1>0, <1>31 DEF AncoStateChangeCallback
<1>32. CASE DeadlinePasses
  BY <1>0, <1>32 DEF DeadlinePasses
<1>33. CASE KioskOwnerGone
  BY <1>0, <1>33 DEF KioskOwnerGone
<1>34. ASSUME NEW t \in Tokens, AppDies(t)
      PROVE  UNCHANGED <<running, persistActive>>
  BY <1>0, <1>34 DEF AppDies
<1>35. CASE Destroy
  BY <1>0, <1>35 DEF Destroy
<1>36. CASE Crash
  BY <1>0, <1>36 DEF Crash
<1>37. CASE Start
  BY <1>0, <1>37 DEF Start
<1>38. QED
  BY <1>1, <1>2, <1>3, <1>4, <1>5, <1>6, <1>7, <1>8, <1>9, <1>10, <1>11, <1>12,
     <1>13, <1>14, <1>15, <1>16, <1>17, <1>18, <1>19, <1>20, <1>21, <1>22, <1>23,
     <1>24, <1>25, <1>26, <1>27, <1>28, <1>29, <1>30, <1>31, <1>32, <1>33, <1>34,
     <1>35, <1>36, <1>37
     DEF Next, HandlerStep, Request, Dialog, Notice, Environment, Lifecycle, QuietStep

\* While the session that has entered kiosk mode waits to be saved, it is the
\* one whose entry is remembered.
EntryIsCurrent == step = "save" => entered = callback

\* Only EnterKioskMode changes whose entry is remembered, and then the kiosk
\* mode is the session's.
EntersOrKeeps ==
    /\ step' = "save" => entered' = callback'
    /\ entered' = entered \/ (kiosk' = callerToken' /\ step' = "save" /\ running' # "down")

LEMMA EntryKept ==
    ASSUME ServiceInv, EntryIsCurrent, [Next]_vars
    PROVE  EntersOrKeeps
<1> USE DEF SessionOK, Entering, CheckSteps, ExitSteps, EntersOrKeeps, EntryIsCurrent
<1>0. SessionOK /\ SessionTypeOK /\ EntryIsCurrent
  BY DEF ServiceInv, TypeOK, SessionTypeOK
<1>1. CASE QuietStep
  BY <1>0, <1>1, QuietStepsAreQuiet DEF Quiet
<1>2. CASE EnvChecked
  BY <1>0, <1>2 DEF EnvChecked
<1>3. CASE EnvCheckFailed
  BY <1>0, <1>3 DEF EnvCheckFailed
<1>4. CASE ActivateControl
  BY <1>0, <1>4 DEF ActivateControl
<1>5. CASE RestrictAncoApp
  BY <1>0, <1>5 DEF RestrictAncoApp
<1>6. CASE RestrictPower
  BY <1>0, <1>6 DEF RestrictPower
<1>7. CASE AddKioskApplicationList
  BY <1>0, <1>7 DEF AddKioskApplicationList
<1>8. CASE EnterKioskMode
  BY <1>0, <1>8 DEF EnterKioskMode
<1>9. CASE SaveSession
  BY <1>0, <1>9 DEF SaveSession
<1>10. CASE AnnounceSession
  BY <1>0, <1>10 DEF AnnounceSession
<1>11. CASE RefuseSession
  BY <1>0, <1>11 DEF RefuseSession
<1>12. CASE LiftPowerOk
  BY <1>0, <1>12 DEF LiftPowerOk
<1>13. CASE LiftPowerFailed
  BY <1>0, <1>13 DEF LiftPowerFailed
<1>14. CASE ExitKioskModeOk
  BY <1>0, <1>14 DEF ExitKioskModeOk
<1>15. CASE ExitKioskModeFailed
  BY <1>0, <1>15 DEF ExitKioskModeFailed
<1>16. CASE FinishSession
  BY <1>0, <1>16 DEF FinishSession
<1>17. CASE KeepSession
  BY <1>0, <1>17 DEF KeepSession
<1>18. CASE AccountIdleTime
  BY <1>0, <1>18 DEF AccountIdleTime
<1>19. CASE LoopWakes
  BY <1>0, <1>19 DEF LoopWakes
<1>20. ASSUME NEW t \in Tokens, Begin(t)
      PROVE  EntersOrKeeps
  BY <1>0, <1>20 DEF Begin
<1>21. ASSUME NEW t \in Tokens, End(t)
      PROVE  EntersOrKeeps
  BY <1>0, <1>21 DEF End
<1>22. ASSUME NEW s \in Sessions, ConfirmBegin(s)
      PROVE  EntersOrKeeps
  BY <1>0, <1>22 DEF ConfirmBegin
<1>23. ASSUME NEW s \in Sessions, CancelBegin(s)
      PROVE  EntersOrKeeps
  BY <1>0, <1>23 DEF CancelBegin
<1>24. ASSUME NEW s \in Sessions, BeginDialogSystemError(s)
      PROVE  EntersOrKeeps
  BY <1>0, <1>24 DEF BeginDialogSystemError
<1>25. ASSUME NEW s \in Sessions, NEW o \in {"CONFIRM", "CANCEL"}, UserAnswers(s, o)
      PROVE  EntersOrKeeps
  BY <1>0, <1>25 DEF UserAnswers
<1>26. ASSUME NEW s \in Sessions, NEW o \in {"CONFIRM", "CANCEL"}, AnswerIgnored(s, o)
      PROVE  EntersOrKeeps
  BY <1>0, <1>26 DEF AnswerIgnored
<1>27. ASSUME NEW t \in Tokens, AppDieHandle(AppOf[t])
      PROVE  EntersOrKeeps
  BY <1>0, <1>27 DEF AppDieHandle
<1>28. ASSUME NEW s \in Sessions, OnRemoteDied(s)
      PROVE  EntersOrKeeps
  BY <1>0, <1>28 DEF OnRemoteDied
<1>29. CASE OnExternalScreenConnected
  BY <1>0, <1>29 DEF OnExternalScreenConnected
<1>30. CASE EnvAnomaly
  BY <1>0, <1>30 DEF EnvAnomaly
<1>31. CASE AncoStateChangeCallback
  BY <1>0, <1>31 DEF AncoStateChangeCallback
<1>32. CASE DeadlinePasses
  BY <1>0, <1>32 DEF DeadlinePasses
<1>33. CASE KioskOwnerGone
  BY <1>0, <1>33 DEF KioskOwnerGone
<1>34. ASSUME NEW t \in Tokens, AppDies(t)
      PROVE  EntersOrKeeps
  BY <1>0, <1>34 DEF AppDies
<1>35. CASE Destroy
  BY <1>0, <1>35 DEF Destroy
<1>36. CASE Crash
  BY <1>0, <1>36 DEF Crash
<1>37. CASE Start
  BY <1>0, <1>37 DEF Start
<1>38. QED
  BY <1>1, <1>2, <1>3, <1>4, <1>5, <1>6, <1>7, <1>8, <1>9, <1>10, <1>11, <1>12,
     <1>13, <1>14, <1>15, <1>16, <1>17, <1>18, <1>19, <1>20, <1>21, <1>22, <1>23,
     <1>24, <1>25, <1>26, <1>27, <1>28, <1>29, <1>30, <1>31, <1>32, <1>33, <1>34,
     <1>35, <1>36, <1>37
     DEF Next, HandlerStep, Request, Dialog, Notice, Environment, Lifecycle, QuietStep

\* A container that never sleeps wakes nobody.
LEMMA AwakeKept ==
    ASSUME anco = "awake", ~ancoNotice, "anco" \notin Disturbances, [Next]_vars
    PROVE  (anco = "awake" /\ ~ancoNotice)'
<1>0. anco = "awake" /\ ~ancoNotice /\ "anco" \notin Disturbances
  OBVIOUS
<1>1. CASE QuietStep
  BY <1>0, <1>1 DEF QuietStep, Query, BeginRejected, EndRejected, DialogShown,
     DialogNotShown, ScreenConnects, ScreenDisconnects, AncoSleeps, AncoWakes
<1>2. CASE EnvChecked
  BY <1>0, <1>2 DEF EnvChecked
<1>3. CASE EnvCheckFailed
  BY <1>0, <1>3 DEF EnvCheckFailed
<1>4. CASE ActivateControl
  BY <1>0, <1>4 DEF ActivateControl
<1>5. CASE RestrictAncoApp
  BY <1>0, <1>5 DEF RestrictAncoApp
<1>6. CASE RestrictPower
  BY <1>0, <1>6 DEF RestrictPower
<1>7. CASE AddKioskApplicationList
  BY <1>0, <1>7 DEF AddKioskApplicationList
<1>8. CASE EnterKioskMode
  BY <1>0, <1>8 DEF EnterKioskMode
<1>9. CASE SaveSession
  BY <1>0, <1>9 DEF SaveSession
<1>10. CASE AnnounceSession
  BY <1>0, <1>10 DEF AnnounceSession
<1>11. CASE RefuseSession
  BY <1>0, <1>11 DEF RefuseSession
<1>12. CASE LiftPowerOk
  BY <1>0, <1>12 DEF LiftPowerOk
<1>13. CASE LiftPowerFailed
  BY <1>0, <1>13 DEF LiftPowerFailed
<1>14. CASE ExitKioskModeOk
  BY <1>0, <1>14 DEF ExitKioskModeOk
<1>15. CASE ExitKioskModeFailed
  BY <1>0, <1>15 DEF ExitKioskModeFailed
<1>16. CASE FinishSession
  BY <1>0, <1>16 DEF FinishSession
<1>17. CASE KeepSession
  BY <1>0, <1>17 DEF KeepSession
<1>18. CASE AccountIdleTime
  BY <1>0, <1>18 DEF AccountIdleTime
<1>19. CASE LoopWakes
  BY <1>0, <1>19 DEF LoopWakes
<1>20. ASSUME NEW t \in Tokens, Begin(t)
      PROVE  (anco = "awake" /\ ~ancoNotice)'
  BY <1>0, <1>20 DEF Begin
<1>21. ASSUME NEW t \in Tokens, End(t)
      PROVE  (anco = "awake" /\ ~ancoNotice)'
  BY <1>0, <1>21 DEF End
<1>22. ASSUME NEW s \in Sessions, ConfirmBegin(s)
      PROVE  (anco = "awake" /\ ~ancoNotice)'
  BY <1>0, <1>22 DEF ConfirmBegin
<1>23. ASSUME NEW s \in Sessions, CancelBegin(s)
      PROVE  (anco = "awake" /\ ~ancoNotice)'
  BY <1>0, <1>23 DEF CancelBegin
<1>24. ASSUME NEW s \in Sessions, BeginDialogSystemError(s)
      PROVE  (anco = "awake" /\ ~ancoNotice)'
  BY <1>0, <1>24 DEF BeginDialogSystemError
<1>25. ASSUME NEW s \in Sessions, NEW o \in {"CONFIRM", "CANCEL"}, UserAnswers(s, o)
      PROVE  (anco = "awake" /\ ~ancoNotice)'
  BY <1>0, <1>25 DEF UserAnswers
<1>26. ASSUME NEW s \in Sessions, NEW o \in {"CONFIRM", "CANCEL"}, AnswerIgnored(s, o)
      PROVE  (anco = "awake" /\ ~ancoNotice)'
  BY <1>0, <1>26 DEF AnswerIgnored
<1>27. ASSUME NEW t \in Tokens, AppDieHandle(AppOf[t])
      PROVE  (anco = "awake" /\ ~ancoNotice)'
  BY <1>0, <1>27 DEF AppDieHandle
<1>28. ASSUME NEW s \in Sessions, OnRemoteDied(s)
      PROVE  (anco = "awake" /\ ~ancoNotice)'
  BY <1>0, <1>28 DEF OnRemoteDied
<1>29. CASE OnExternalScreenConnected
  BY <1>0, <1>29 DEF OnExternalScreenConnected
<1>30. CASE EnvAnomaly
  BY <1>0, <1>30 DEF EnvAnomaly
<1>31. CASE AncoStateChangeCallback
  BY <1>0, <1>31 DEF AncoStateChangeCallback
<1>32. CASE DeadlinePasses
  BY <1>0, <1>32 DEF DeadlinePasses
<1>33. CASE KioskOwnerGone
  BY <1>0, <1>33 DEF KioskOwnerGone
<1>34. ASSUME NEW t \in Tokens, AppDies(t)
      PROVE  (anco = "awake" /\ ~ancoNotice)'
  BY <1>0, <1>34 DEF AppDies
<1>35. CASE Destroy
  BY <1>0, <1>35 DEF Destroy
<1>36. CASE Crash
  BY <1>0, <1>36 DEF Crash
<1>37. CASE Start
  BY <1>0, <1>37 DEF Start
<1>38. QED
  BY <1>1, <1>2, <1>3, <1>4, <1>5, <1>6, <1>7, <1>8, <1>9, <1>10, <1>11, <1>12,
     <1>13, <1>14, <1>15, <1>16, <1>17, <1>18, <1>19, <1>20, <1>21, <1>22, <1>23,
     <1>24, <1>25, <1>26, <1>27, <1>28, <1>29, <1>30, <1>31, <1>32, <1>33, <1>34,
     <1>35, <1>36, <1>37
     DEF Next, HandlerStep, Request, Dialog, Notice, Environment, Lifecycle, QuietStep

\* A crash leaves the kiosk mode of the session on; the start after it releases
\* what the parameter tells it of.
LEMMA KioskKnownKept ==
    ASSUME SpeechInv, PersistInv, KioskKnown, EntryIsCurrent, anco = "awake", [Next]_vars,
           ~ancoNotice, "exitKiosk" \notin MayFail
    PROVE  KioskKnown'
<1> USE DEF KioskKnown
<1>0. ServiceInv /\ ExitOK /\ SessionTypeOK /\ SessionOK /\ Kind
  BY StepKinds DEF SpeechInv, ServiceInv, TypeOK
<1>e. EntersOrKeeps
  BY <1>0, EntryKept
<1>1. CASE Unannounced
  <2>1. CASE entered' = entered
    BY <1>0, <1>1, <2>1, UnannouncedKept
  <2>2. CASE entered' # entered
    BY <1>e, <2>2 DEF EntersOrKeeps, KioskOwner, KioskIsOwned
  <2>3. QED
    BY <2>1, <2>2
<1>2. CASE running = "down" /\ persistActive /\ ~KioskOwner
  <2>1. CASE Start
    BY <2>1, <1>2 DEF Start, KioskOwner
  <2>2. CASE ~Start
    <3>1. UNCHANGED <<running, persistActive>>
      BY <1>0, <1>2, <2>2, DownStep
    <3>2. QED
      BY <1>2, <3>1
  <2>3. QED
    BY <2>1, <2>2
<1>3. CASE KioskOwner /\ ~Crash
  BY <1>0, <1>3, KioskOwnerKept
<1>4. CASE KioskOwner /\ Crash
  <2>1. CASE kiosk \in {NoToken} \cup dead
    BY <1>4, <2>1 DEF Crash, KioskOwner
  <2>2. CASE isActive
    <3>1. persistActive
      BY <2>2, <1>4 DEF Crash, PersistInv
    <3>2. QED
      BY <1>4, <3>1 DEF Crash
  <2>3. CASE ~isActive /\ step = "save"
    <3>1. callerToken # NoToken
      BY <1>0, <2>3 DEF SessionOK, Entering
    <3>2. callback \in 1..sessions /\ heard[callback] = <<>> /\ callback # 0
          /\ entered = callback
      BY <2>3, <3>1, ToldIs, CurrentLog DEF SpeechInv, Sessions, EntryIsCurrent
    <3>3. callback' = 0 /\ UNCHANGED <<heard, sessions, entered>>
      BY <1>4 DEF Crash
    <3>4. Unannounced'
      BY <3>2, <3>3 DEF Unannounced
    <3>5. QED
      BY <3>4
  <2>4. QED
    BY <1>4, <2>1, <2>2, <2>3 DEF KioskOwner, KioskIsOwned
<1>5. QED
  BY <1>1, <1>2, <1>3, <1>4

\* A kiosk mode a crash leaves on for a living application was entered by a
\* session that is over, whose caller was never told that it began, provided that no call to the
\* parameters or to the start's release fails and the container stays awake.
THEOREM OrphanIsUnannounced ==
    ASSUME OneProcess, WritesSucceed, "exitKiosk" \notin MayFail, "anco" \notin Disturbances
    PROVE  Spec => []OrphanKioskUnannounced
<1> DEFINE Awake == anco = "awake" /\ ~ancoNotice
<1>1. Init => PersistInv /\ KioskKnown /\ EntryIsCurrent /\ Awake
  BY DEF Init, PersistInv, KioskKnown, KioskOwner, EntryIsCurrent
<1>2. ServiceInv /\ PersistInv /\ [Next]_vars => PersistInv'
  BY PersistKept
<1>3. Awake /\ [Next]_vars => Awake'
  BY AwakeKept
<1>4. SpeechInv /\ PersistInv /\ Awake /\ KioskKnown /\ EntryIsCurrent /\ [Next]_vars
        => KioskKnown' /\ EntryIsCurrent'
  BY KioskKnownKept, EntryKept DEF SpeechInv, EntersOrKeeps, EntryIsCurrent
<1>5. KioskKnown => OrphanKioskUnannounced
  BY DEF KioskKnown, KioskOwner, KioskIsOwned, Unannounced, OrphanKioskUnannounced
<1>6. SpeechInv => ServiceInv
  BY DEF SpeechInv
<1>7. QED
  BY <1>1, <1>2, <1>3, <1>4, <1>5, <1>6, SpeechInvHolds, PTL DEF Spec

-----------------------------------------------------------------------------
(* What is left of a lockdown *)

\* The calls that restrict or release a part of the device answer as asked,
\* except that the exit may fail: it leaves the session active, and is retried.
NothingFails ==
    /\ MayFail \cap {"holdScreen", "setPower", "addList", "enterKiosk", "deleteList",
                     "deactivateAll"} = {}
    /\ "ActivateAll" \in Resolved => "DeactivateAll" \in Resolved

\* Nobody dies: neither a caller, whose kiosk mode the exit may leave to the
\* ability manager, nor the service itself.
NobodyDies == "death" \notin Disturbances /\ "crash" \notin Disturbances

\* The steps that find a part of the lockdown done already.
Locking == {"list", "enter", "save"}

\* Each part of the lockdown is done for the current session, from the step
\* that does it to the step that takes it back.
ResidueInv ==
    /\ dead = {} /\ why # "died"
    /\ kiosk # NoToken => step = "save" \/ isActive
    /\ filters # {} => step \in Locking \/ isActive
    /\ runningLock => step \in Locking \/ isActive
    /\ appList => step \in {"enter", "save"} \/ isActive
    /\ step \in {"exitKiosk", "exited"} => filters = {}
    /\ step = "exited" => kiosk = NoToken /\ ~appList
    /\ activated => step \in {"control", "restrict", "power", "refuse"} \cup Locking \/ isActive
    /\ extension # "off" => activated /\ "ActivateAll" \in Resolved
    /\ stage # "idle" => extension = "off"

\* Deactivate, and the rollback of any stage, leave nothing of the extension's.
LEMMA DeactivateUndoes ==
    ASSUME NothingFails, ResidueInv, Deactivate
    PROVE  ~activated' /\ extension' = "off" /\ (stage' = stage)
<1>1. CASE activated
  <2>1. extension' \in Restored({extension})
    BY <1>1 DEF Deactivate
  <2>2. "deactivateAll" \notin MayFail
    BY DEF NothingFails
  <2>3. Restored({extension}) = {"off"}
    BY <2>2 DEF Restored, NothingFails, ResidueInv
  <2>4. QED
    BY <1>1, <2>1, <2>3 DEF Deactivate
<1>2. CASE ~activated
  BY <1>2 DEF Deactivate, ResidueInv
<1>3. QED
  BY <1>1, <1>2

\* A stage that fails takes back what the extension has applied.
LEMMA StageUndone ==
    ASSUME NothingFails, ResidueInv, ControllerInv, ActivateStage
    PROVE  /\ extension' # "off" => activated' /\ "ActivateAll" \in Resolved
           /\ stage' # "idle" => extension' = "off"
<1>0. extension = "off" \/ (activated /\ "ActivateAll" \in Resolved)
  BY DEF ResidueInv
<1>1. CASE RegisterCallObserver
  BY <1>0, <1>1 DEF RegisterCallObserver, RollbackActivate, ResidueInv
<1>2. CASE RegisterScreenListener
  BY <1>0, <1>2 DEF RegisterScreenListener, RollbackActivate, ResidueInv
<1>3. CASE ActivateExtension
  <2>1. CASE "ActivateAll" \in Resolved /\ RollbackActivate({"observer", "listener", "extension"})
    <3>1. "deactivateAll" \notin MayFail /\ "DeactivateAll" \in Resolved
      BY <2>1 DEF NothingFails
    <3>2. extension' \in Restored({extension, "partial"})
      BY <2>1 DEF RollbackActivate
    <3>3. Restored({extension, "partial"}) = {"off"}
      BY <3>1 DEF Restored
    <3>4. QED
      BY <2>1, <3>2, <3>3 DEF RollbackActivate
  <2>2. CASE stage' = "idle" /\ activated' = activated
             /\ extension' = IF "ActivateAll" \in Resolved THEN "full" ELSE extension
    BY <1>0, <1>3, <2>2 DEF ActivateExtension, ResidueInv, ControllerInv, ControllerStages
  <2>3. QED
    BY <1>3, <2>1, <2>2 DEF ActivateExtension
<1>4. QED
  BY <1>1, <1>2, <1>3 DEF ActivateStage

\* Every refusal that is left comes before the first restriction of the device,
\* and every end takes all restrictions back.
LEMMA ResidueKept ==
    ASSUME NothingFails, NobodyDies, ServiceInv, ResidueInv, [Next]_vars
    PROVE  ResidueInv'
<1> USE ServiceAssumption DEF SessionOK, Entering, CheckSteps, ExitSteps, ResidueInv, Locking
<1>0. /\ SessionTypeOK /\ DeviceTypeOK /\ SessionOK /\ KioskOK /\ DeathOK /\ ResidueInv
      /\ ControlOK /\ ControllerInv
      /\ MayFail \cap {"holdScreen", "setPower", "addList", "enterKiosk", "deleteList",
                       "deactivateAll"} = {}
      /\ "death" \notin Disturbances /\ "crash" \notin Disturbances
  BY DEF ServiceInv, TypeOK, NothingFails, NobodyDies, ControlOK
<1>1. CASE QuietStep
  BY <1>0, <1>1, QuietStepsAreQuiet DEF Quiet
<1>2. CASE EnvChecked
  BY <1>0, <1>2 DEF EnvChecked, Activate
<1>3. CASE EnvCheckFailed
  BY <1>0, <1>3 DEF EnvCheckFailed
<1>4. CASE ActivateControl
  <2>1. /\ extension' # "off" => activated' /\ "ActivateAll" \in Resolved
        /\ stage' # "idle" => extension' = "off"
    BY <1>0, <1>4, StageUndone DEF ActivateControl
  <2>2. step = "control" /\ ~isActive /\ kiosk = NoToken /\ filters = {} /\ ~runningLock /\ ~appList
    BY <1>0, <1>4 DEF ActivateControl, SessionTypeOK
  <2>3. step' \in {"control", "restrict", "refuse"}
    BY <1>0, <1>4, <2>2 DEF ActivateControl
  <2>4. /\ UNCHANGED <<dead, kiosk, filters, runningLock, appList, isActive>>
        /\ why' \in {why, "none", "SYSTEM_ERROR"}
    BY <1>4 DEF ActivateControl
  <2>5. QED
    BY <1>0, <2>1, <2>2, <2>3, <2>4
<1>5. CASE RestrictAncoApp
  BY <1>0, <1>5 DEF RestrictAncoApp
<1>6. CASE RestrictPower
  BY <1>0, <1>6 DEF RestrictPower
<1>7. CASE AddKioskApplicationList
  BY <1>0, <1>7 DEF AddKioskApplicationList
<1>8. CASE EnterKioskMode
  BY <1>0, <1>8 DEF EnterKioskMode, MayEnterKiosk
<1>9. CASE SaveSession
  BY <1>0, <1>9 DEF SaveSession
<1>10. CASE AnnounceSession
  BY <1>0, <1>10 DEF AnnounceSession
<1>11. CASE RefuseSession
  <2>1. ~activated' /\ extension' = "off" /\ stage' = stage
    BY <1>0, <1>11, DeactivateUndoes DEF RefuseSession, ReleaseDevice
  <2>2. QED
    BY <1>0, <1>11, <2>1 DEF RefuseSession, ReleaseDevice
<1>12. CASE LiftPowerOk
  BY <1>0, <1>12 DEF LiftPowerOk, DeviceTypeOK
<1>13. CASE LiftPowerFailed
  BY <1>0, <1>13 DEF LiftPowerFailed
<1>14. CASE ExitKioskModeOk
  BY <1>0, <1>14 DEF ExitKioskModeOk, KioskOK, KioskHeld
<1>15. CASE ExitKioskModeFailed
  BY <1>0, <1>15 DEF ExitKioskModeFailed
<1>16. CASE FinishSession
  <2>1. ~activated' /\ extension' = "off" /\ stage' = stage
    BY <1>0, <1>16, DeactivateUndoes DEF FinishSession, ReleaseDevice
  <2>2. QED
    BY <1>0, <1>16, <2>1 DEF FinishSession, EndsAnyway, ReleaseDevice
<1>17. CASE KeepSession
  BY <1>0, <1>17 DEF KeepSession, EndsAnyway
<1>18. CASE AccountIdleTime
  BY <1>0, <1>18 DEF AccountIdleTime
<1>19. CASE LoopWakes
  BY <1>0, <1>19 DEF LoopWakes
<1>20. ASSUME NEW t \in Tokens, Begin(t)
      PROVE  ResidueInv'
  <2>1. ~activated' /\ extension' = "off" /\ stage' = stage
    BY <1>0, <1>20, DeactivateUndoes DEF Begin, ReleaseDevice
  <2>2. QED
    BY <1>0, <1>20, <2>1 DEF Begin, ReleaseDevice
<1>21. ASSUME NEW t \in Tokens, End(t)
      PROVE  ResidueInv'
  BY <1>0, <1>21 DEF End
<1>22. ASSUME NEW s \in Sessions, ConfirmBegin(s)
      PROVE  ResidueInv'
  BY <1>0, <1>22 DEF ConfirmBegin
<1>23. ASSUME NEW s \in Sessions, CancelBegin(s)
      PROVE  ResidueInv'
  <2>1. CASE AnswerCounts(s)
    <3>1. ~activated' /\ extension' = "off" /\ stage' = stage
      BY <1>0, <1>23, <2>1, DeactivateUndoes DEF CancelBegin, ReleaseDevice
    <3>2. QED
      BY <1>0, <1>23, <2>1, <3>1 DEF CancelBegin, ReleaseDevice
  <2>2. CASE ~AnswerCounts(s)
    BY <1>0, <1>23, <2>2 DEF CancelBegin
  <2>3. QED
    BY <2>1, <2>2
<1>24. ASSUME NEW s \in Sessions, BeginDialogSystemError(s)
      PROVE  ResidueInv'
  <2>1. CASE DialogErrorCounts(s)
    <3>1. ~activated' /\ extension' = "off" /\ stage' = stage
      BY <1>0, <1>24, <2>1, DeactivateUndoes DEF BeginDialogSystemError, ReleaseDevice
    <3>2. QED
      BY <1>0, <1>24, <2>1, <3>1 DEF BeginDialogSystemError, ReleaseDevice
  <2>2. CASE ~DialogErrorCounts(s)
    BY <1>0, <1>24, <2>2 DEF BeginDialogSystemError
  <2>3. QED
    BY <2>1, <2>2
<1>25. ASSUME NEW s \in Sessions, NEW o \in {"CONFIRM", "CANCEL"}, UserAnswers(s, o)
      PROVE  ResidueInv'
  BY <1>0, <1>25 DEF UserAnswers
<1>26. ASSUME NEW s \in Sessions, NEW o \in {"CONFIRM", "CANCEL"}, AnswerIgnored(s, o)
      PROVE  ResidueInv'
  BY <1>0, <1>26 DEF AnswerIgnored
<1>27. ASSUME NEW t \in Tokens, AppDieHandle(AppOf[t])
      PROVE  ResidueInv'
  <2>1. processDeaths = {}
    BY <1>0 DEF DeathOK
  <2>2. QED
    BY <1>27, <2>1 DEF AppDieHandle
<1>28. ASSUME NEW s \in Sessions, OnRemoteDied(s)
      PROVE  ResidueInv'
  <2>1. callback \notin remoteDeaths
    BY <1>0 DEF DeathOK
  <2>2. Untouched /\ dead' = dead
    BY <1>28, <2>1 DEF OnRemoteDied
  <2>3. QED
    BY <1>0, <2>2
<1>29. CASE OnExternalScreenConnected
  BY <1>0, <1>29 DEF OnExternalScreenConnected
<1>30. CASE EnvAnomaly
  BY <1>0, <1>30 DEF EnvAnomaly
<1>31. CASE AncoStateChangeCallback
  BY <1>0, <1>31 DEF AncoStateChangeCallback
<1>32. CASE DeadlinePasses
  BY <1>0, <1>32 DEF DeadlinePasses
<1>33. CASE KioskOwnerGone
  BY <1>0, <1>33 DEF KioskOwnerGone
<1>34. ASSUME NEW t \in Tokens, AppDies(t)
      PROVE  ResidueInv'
  BY <1>0, <1>34 DEF AppDies
<1>35. CASE Destroy
  BY <1>0, <1>35 DEF Destroy
<1>36. CASE Crash
  BY <1>0, <1>36 DEF Crash
<1>37. CASE Start
  BY <1>0, <1>37 DEF Start
<1>38. QED
  BY <1>1, <1>2, <1>3, <1>4, <1>5, <1>6, <1>7, <1>8, <1>9, <1>10, <1>11, <1>12,
     <1>13, <1>14, <1>15, <1>16, <1>17, <1>18, <1>19, <1>20, <1>21, <1>22, <1>23,
     <1>24, <1>25, <1>26, <1>27, <1>28, <1>29, <1>30, <1>31, <1>32, <1>33, <1>34,
     <1>35, <1>36, <1>37
     DEF Next, HandlerStep, Request, Dialog, Notice, Environment, Lifecycle, QuietStep

\* Once the lock is free and nobody is active, nothing of a lockdown is left on
\* the device: after every refusal, displacement, cancellation and end, whatever
\* registrations, checks, parameter writes and exits failed on the way.
THEOREM NothingIsLeftBehind ==
    ASSUME NothingFails, NobodyDies
    PROVE  Spec => []NothingLeftBehind
<1>1. Init => ResidueInv
  BY DEF Init, ResidueInv, ControllerInit
<1>2. ServiceInv /\ ResidueInv /\ [Next]_vars => ResidueInv'
  BY ResidueKept
<1>3. ServiceInv /\ ResidueInv => NothingLeftBehind
  BY DEF ServiceInv, ControlOK, ResidueInv, Locking, NothingLeftBehind
<1>4. QED
  BY <1>1, <1>2, <1>3, ServiceInvHolds, PTL DEF Spec
=============================================================================
