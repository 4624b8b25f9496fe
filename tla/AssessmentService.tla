-------------------------- MODULE AssessmentService --------------------------
(***************************************************************************)
(* The assessment service: one assessment (exam) session at a time, from   *)
(* an application's Begin, through the user's confirmation and the lock-   *)
(* down of the device, to its end by the application, the deadline, an     *)
(* anomaly of the environment or the application's death.                  *)
(*                                                                         *)
(* Every handler holds mutexSa_ from start to end.  step tells which part  *)
(* of a handler comes next ("free": nobody holds the lock), so that what   *)
(* does not take the lock (an application dies, a screen is plugged in, a  *)
(* parameter changes, the service process crashes) happens between two     *)
(* external calls of a handler, and what does take it waits for "free".    *)
(***************************************************************************)
EXTENDS Naturals, Sequences, ProcessController

CONSTANTS
    Tokens,         \* the callers' ability tokens
    NoToken,        \* a null token
    AppOf,          \* the application (bundle and uid) a token belongs to
    MaxSessions,    \* bound: Begin calls accepted in one behaviour
    IdleLimit,      \* idle slices after which the service unloads itself
    Disturbances    \* what the environment may do besides calling in

ASSUME ServiceAssumption ==
    /\ NoToken \notin Tokens
    /\ MaxSessions \in Nat
    /\ IdleLimit \in Nat \ {0}

Sessions == 1..MaxSessions

VARIABLES
    \* members of AssessmentService
    running,        \* the process and running_: down, serving, leaving
    step,           \* the next part of the handler that holds mutexSa_
    why,            \* what the handler in progress is about
    isActive, examStatus, callerToken, callback, ticket, recipient, deadline,
    idle,           \* accumulateIdleTime_ in slices
    waitAnco,       \* isWaittingAncoActive_
    callbacks,      \* CallbackManager: token -> session whose stub it holds
    \* the device (what ProcessController does to it is in that module)
    kiosk,          \* the token that owns kiosk mode
    appList,        \* the kiosk application list is set
    filters,        \* power filtering strategies in force
    runningLock,    \* the screen running lock is held
    persistActive,  \* persist.assessment.is_active
    sysActive,      \* sys.assessment.is_active
    anco,           \* the compatibility container is awake
    screen,         \* an external screen is connected
    \* on their way to the service
    dialogs,        \* sessions whose confirmation dialog was requested
    shown,          \* sessions whose dialog the user can press
    answers,        \* confirmation events published by dialogs
    dialogErrors,   \* sessions whose dialog connection reports an error
    processDeaths,  \* applications whose OnProcessDied is due
    remoteDeaths,   \* sessions whose stub's death notice is due
    screenNotice,   \* an OnConnect callback waits for the lock
    ancoNotice,     \* a parameter-change callback waits for the lock
    \* what happened
    sessions,       \* accepted Begin calls so far
    dead,           \* tokens whose process died
    agreed,         \* sessions the user confirmed, or started without asking
    entered,        \* the session that was the last to enter kiosk mode
    heard           \* the callbacks each session's stub received

sessionVars == <<isActive, examStatus, callerToken, callback, callbacks, deadline, recipient>>
loopVars == <<running, idle>>
kioskVars == <<kiosk, entered, appList, filters>>
stateVars == <<persistActive, sysActive, waitAnco>>
dialogVars == <<dialogs, shown, answers, dialogErrors, agreed>>
deathVars == <<dead, processDeaths, remoteDeaths>>
screenVars == <<screen, screenNotice>>
ancoVars == <<anco, ancoNotice>>
countVars == <<sessions, ticket>>
deviceVars == <<kioskVars, runningLock, controllerVars>>
worldVars == <<deathVars, screenVars, ancoVars>>

vars == <<step, why, sessionVars, loopVars, deviceVars, stateVars, dialogVars,
          worldVars, countVars, heard>>

-----------------------------------------------------------------------------
(* Types and initial state *)

CheckSteps == {"check", "control", "restrict", "power", "list", "enter"}
ExitSteps == {"exitPower", "exitKiosk", "exited", "exitFailed"}
Steps == {"free", "refuse", "save", "announce", "account"} \cup CheckSteps \cup ExitSteps

Reasons == {"none", "SYSTEM_ERROR", "ENV_ANOMALY", "end", "timeout", "anomaly", "died"}

Messages == {"begin.OK", "begin.SYSTEM_ERROR", "begin.USER_CANCEL", "begin.ENV_ANOMALY",
             "interrupted.TIMEOUT", "interrupted.ENV_ANOMALY", "end"}

\* RestrictScreenOff sets the three strategies in this order and stops at the
\* first failure.
AllFilters == {"suspend", "lid", "powerKey"}
FilterPrefixes == {{}, {"suspend"}, {"suspend", "lid"}, AllFilters}

SessionTypeOK ==
    /\ running \in {"down", "serving", "leaving"}
    /\ step \in Steps /\ why \in Reasons
    /\ isActive \in BOOLEAN
    /\ examStatus \in {"IDLE", "CONFIRMING", "ACTIVE"}
    /\ callerToken \in Tokens \cup {NoToken}
    /\ callback \in 0..MaxSessions
    /\ callbacks \in [Tokens -> 0..MaxSessions]
    /\ sessions \in 0..MaxSessions /\ ticket \in 0..MaxSessions
    /\ deadline \in {"none", "ahead", "passed"}
    /\ recipient \in BOOLEAN
    /\ idle \in Nat /\ (running # "leaving" => idle <= IdleLimit)

DeviceTypeOK ==
    /\ kiosk \in Tokens \cup {NoToken} /\ entered \in 0..MaxSessions
    /\ appList \in BOOLEAN
    /\ filters \in SUBSET AllFilters /\ runningLock \in BOOLEAN
    /\ persistActive \in BOOLEAN /\ sysActive \in BOOLEAN /\ waitAnco \in BOOLEAN
    /\ anco \in {"awake", "asleep"} /\ screen \in BOOLEAN

NoticeTypeOK ==
    /\ dialogs \in SUBSET Sessions /\ shown \in SUBSET Sessions
    /\ dialogErrors \in SUBSET Sessions
    /\ answers \in SUBSET (Sessions \X {"CONFIRM", "CANCEL"})
    /\ processDeaths \in SUBSET {AppOf[t] : t \in Tokens}
    /\ remoteDeaths \in SUBSET Sessions
    /\ screenNotice \in BOOLEAN /\ ancoNotice \in BOOLEAN
    /\ agreed \in SUBSET Sessions /\ dead \in SUBSET Tokens

HeardTypeOK == heard \in [Sessions -> Seq(Messages)]

TypeOK == ControllerTypeOK /\ SessionTypeOK /\ DeviceTypeOK /\ NoticeTypeOK /\ HeardTypeOK

\* A freshly started service on a device with no assessment history.
Init ==
    /\ running = "serving" /\ step = "free" /\ why = "none"
    /\ isActive = FALSE /\ examStatus = "IDLE"
    /\ callerToken = NoToken /\ callback = 0
    /\ callbacks = [t \in Tokens |-> 0]
    /\ deadline = "none" /\ recipient = FALSE /\ idle = 0
    /\ ControllerInit
    /\ kiosk = NoToken /\ entered = 0
    /\ appList = FALSE /\ filters = {} /\ runningLock = FALSE
    /\ persistActive = FALSE /\ sysActive = FALSE /\ waitAnco = FALSE
    /\ anco \in {"awake"} \cup IF "anco" \in Disturbances THEN {"asleep"} ELSE {}
    /\ ancoNotice = FALSE /\ screen = FALSE /\ screenNotice = FALSE
    /\ dialogs = {} /\ shown = {} /\ answers = {} /\ dialogErrors = {} /\ agreed = {}
    /\ dead = {} /\ processDeaths = {} /\ remoteDeaths = {}
    /\ sessions = 0 /\ ticket = 0
    /\ heard = [s \in Sessions |-> <<>>]

-----------------------------------------------------------------------------
(* Helpers shared by the handlers *)

LockFree == running # "down" /\ step = "free"

\* CallbackManager::OnBegin, OnInterrupted, OnEnd: the message goes to the
\* stub registered for the token; a dead process hears nothing.
Told(token, message) ==
    IF token # NoToken /\ callbacks[token] # 0 /\ token \notin dead
      THEN [heard EXCEPT ![callbacks[token]] = Append(@, message)]
      ELSE heard

\* Mutant: the registry entry of a finished session is kept.
UnregisteredMutant == callbacks

\* CallbackManager::UnregisterCallback for the current caller.
Unregistered == [t \in Tokens |-> IF t = callerToken THEN 0 ELSE callbacks[t]]

\* Mutant: the process controller is left as it is.
ReleaseDeviceMutant == runningLock' = FALSE /\ UNCHANGED controllerVars

\* CleanupCurrentSession: what it does outside the session's own members.
ReleaseDevice == Deactivate /\ runningLock' = FALSE

CleanupCurrentSession ==
    /\ ReleaseDevice
    /\ callbacks' = Unregistered
    /\ isActive' = FALSE
    /\ examStatus' = "IDLE"
    /\ callerToken' = NoToken
    /\ recipient' = FALSE
    /\ callback' = 0
    /\ deadline' = "none"

\* Mutant: nobody remembers that a write is due.
UpdateStateMutant(active) ==
    IF anco = "awake" THEN persistActive' = active /\ UNCHANGED waitAnco
                      ELSE UNCHANGED <<persistActive, waitAnco>>

\* UpdateState: the persistent parameter is written at once when the container
\* is awake; otherwise the container is woken and the write is left to the
\* parameter-change callback.
UpdateState(active) ==
    IF anco = "awake"
      THEN /\ persistActive' \in {active} \cup IF "setParameter" \in MayFail
                                                 THEN {persistActive} ELSE {}
           /\ UNCHANGED waitAnco
      ELSE /\ waitAnco' = TRUE
           /\ UNCHANGED persistActive

\* Mutant: only the volatile parameter is written.
SaveStateMutant == sysActive' = TRUE /\ UNCHANGED <<persistActive, waitAnco>>

SaveState == UpdateState(TRUE) /\ sysActive' = TRUE
ClearState == UpdateState(FALSE) /\ sysActive' = FALSE

\* A handler takes the lock, or goes on, with the given next part.
Continue(next, reason) == step' = next /\ why' = reason

\* ExitKioskModeLockedUnsafe is entered; reason tells which handler called it.
StartExit(reason) ==
    /\ Continue("exitPower", reason)
    /\ UNCHANGED <<sessionVars, deviceVars, stateVars, heard>>

\* The step leaves the session and what it did to the device as they were.
Untouched == UNCHANGED <<step, why, sessionVars, deviceVars, stateVars, heard>>

-----------------------------------------------------------------------------
(* Requests of applications *)

\* Mutant: the displaced caller is not told.
TurnAwayMutant == heard

\* Whoever waits for a confirmation is turned away.
TurnAway == IF examStatus = "CONFIRMING" THEN Told(callerToken, "begin.SYSTEM_ERROR")
                                         ELSE heard

\* Begin is accepted: the new session takes the place of one that waits, and
\* waits for its own confirmation.  Without a dialog it goes ahead at once.
Begin(token) ==
    /\ LockFree /\ running = "serving" /\ ~isActive
    /\ token \notin dead /\ sessions < MaxSessions
    /\ heard' = TurnAway
    /\ ReleaseDevice
    /\ sessions' = sessions + 1 /\ ticket' = sessions'
    /\ callerToken' = token /\ callback' = sessions'
    /\ callbacks' = [Unregistered EXCEPT ![token] = sessions']
    /\ isActive' = FALSE /\ examStatus' = "CONFIRMING"
    /\ deadline' = "none" /\ recipient' = FALSE
    /\ idle' = 0
    /\ \/ /\ dialogs' = dialogs \cup {sessions'}
          /\ UNCHANGED <<step, why, agreed>>
       \/ /\ "dialog" \in MayFail
          /\ Continue("check", "none")
          /\ agreed' = agreed \cup {sessions'}
          /\ UNCHANGED dialogs
    /\ UNCHANGED <<running, kioskVars, stateVars, shown, answers, dialogErrors, worldVars>>

\* 36700002 while an assessment is active, 36700001 when about to unload.
BeginRejected(token) ==
    /\ LockFree /\ token \notin dead
    /\ isActive \/ running = "leaving"
    /\ idle' = 0
    /\ Untouched /\ UNCHANGED <<running, dialogVars, worldVars, countVars>>

\* End compares the caller's uid with the owner's, not the token.
EndAccepted(token) == isActive /\ AppOf[token] = AppOf[callerToken]

End(token) ==
    /\ LockFree /\ token \notin dead /\ EndAccepted(token)
    /\ idle' = 0
    /\ StartExit("end")
    /\ UNCHANGED <<running, dialogVars, worldVars, countVars>>

EndRejected(token) ==
    /\ LockFree /\ token \notin dead
    /\ ~EndAccepted(token)
    /\ idle' = 0
    /\ Untouched /\ UNCHANGED <<running, dialogVars, worldVars, countVars>>

\* IsActive and GetConfiguration only reset the idle clock.
Query ==
    /\ LockFree
    /\ idle' = 0
    /\ Untouched /\ UNCHANGED <<running, dialogVars, worldVars, countVars>>

-----------------------------------------------------------------------------
(* The confirmation dialog *)

\* The dialog comes up, and the connection may still report an error later.
DialogShown(s) ==
    /\ s \in dialogs
    /\ dialogs' = dialogs \ {s}
    /\ shown' = shown \cup {s}
    /\ dialogErrors' \in {dialogErrors} \cup IF "dialogError" \in MayFail
                                               THEN {dialogErrors \cup {s}} ELSE {}
    /\ Untouched /\ UNCHANGED <<loopVars, answers, agreed, worldVars, countVars>>

DialogNotShown(s) ==
    /\ s \in dialogs /\ "dialogError" \in MayFail
    /\ dialogs' = dialogs \ {s}
    /\ dialogErrors' = dialogErrors \cup {s}
    /\ Untouched /\ UNCHANGED <<loopVars, shown, answers, agreed, worldVars, countVars>>

\* The user may press more than once until the service acknowledges.
UserAnswers(s, operation) ==
    /\ s \in shown
    /\ answers' = answers \cup {<<s, operation>>}
    /\ agreed' = IF operation = "CONFIRM" THEN agreed \cup {s} ELSE agreed
    /\ Untouched /\ UNCHANGED <<loopVars, dialogs, shown, dialogErrors, worldVars, countVars>>

\* Mutant: the ticket is not compared.
AnswerCountsMutant(s) == examStatus = "CONFIRMING"

\* HandleBegin acts on an answer to the dialog of the waiting session only.
AnswerCounts(s) == examStatus = "CONFIRMING" /\ ticket = s

TakeAnswer(s, operation) ==
    /\ LockFree /\ <<s, operation>> \in answers
    /\ answers' = answers \ {<<s, operation>>}
    /\ UNCHANGED <<loopVars, dialogs, dialogErrors, agreed, worldVars, countVars>>

ConfirmBegin(s) ==
    /\ TakeAnswer(s, "CONFIRM") /\ AnswerCounts(s)
    /\ shown' = shown \ {s}
    /\ Continue("check", "none")
    /\ UNCHANGED <<sessionVars, deviceVars, stateVars, heard>>

CancelBegin(s) ==
    /\ TakeAnswer(s, "CANCEL") /\ AnswerCounts(s)
    /\ shown' = shown \ {s}
    /\ heard' = Told(callerToken, "begin.USER_CANCEL")
    /\ CleanupCurrentSession
    /\ ClearState
    /\ UNCHANGED <<step, why, kioskVars>>

AnswerIgnored(s, operation) ==
    /\ TakeAnswer(s, operation) /\ ~AnswerCounts(s)
    /\ Untouched /\ UNCHANGED shown

\* Mutant: an error that comes late turns away an active session.
DialogErrorCountsMutant(s) == ticket = s

\* The error concerns the latest session, and that one is not active yet.
DialogErrorCounts(s) == ticket = s /\ ~isActive

\* The dialog could not be reached: the session it belonged to is turned away.
BeginDialogSystemError(s) ==
    /\ LockFree /\ s \in dialogErrors
    /\ dialogErrors' = dialogErrors \ {s}
    /\ IF DialogErrorCounts(s)
         THEN /\ heard' = Told(callerToken, "begin.SYSTEM_ERROR")
              /\ CleanupCurrentSession
              /\ ClearState
              /\ UNCHANGED <<step, why, kioskVars>>
         ELSE Untouched
    /\ UNCHANGED <<loopVars, dialogs, shown, answers, agreed, worldVars, countVars>>

-----------------------------------------------------------------------------
(* ConfirmationBegin: from the user's consent to the active assessment *)

\* Parts of a handler touch neither the loop nor what is on its way.
HandlerFrame == UNCHANGED <<loopVars, dialogVars, worldVars, countVars>>

\* EnvChecker::CheckAll.  Its multi-screen check passes when the screens cannot
\* be listed; the other checks depend on the environment alone.
EnvChecked ==
    /\ step = "check"
    /\ ~screen \/ "screenQuery" \in MayFail
    /\ Continue("control", "none")
    /\ Activate
    /\ UNCHANGED <<sessionVars, kioskVars, runningLock, stateVars, heard>>
    /\ HandlerFrame

EnvCheckFailed ==
    /\ step = "check"
    /\ screen \/ "env" \in MayFail
    /\ Continue("refuse", "ENV_ANOMALY")
    /\ UNCHANGED <<sessionVars, deviceVars, stateVars, heard>>
    /\ HandlerFrame

\* ProcessController::Activate, stage by stage.
ActivateControl ==
    /\ step = "control"
    /\ ActivateStage
    /\ \/ stage' # "idle" /\ UNCHANGED <<step, why>>
       \/ stage' = "idle" /\ activated' /\ Continue("restrict", "none")
       \/ stage' = "idle" /\ ~activated' /\ Continue("refuse", "SYSTEM_ERROR")
    /\ UNCHANGED <<sessionVars, kioskVars, runningLock, stateVars, heard>>
    /\ HandlerFrame

\* EnterKioskModeLockedUnsafe: each call either leads to the next one or to
\* the refusal of the session.
RestrictAncoApp ==
    /\ step = "restrict"
    /\ \/ Continue("power", "none")
       \/ /\ "RestrictAncoApp" \in Resolved /\ "restrictAnco" \in MayFail
          /\ Continue("refuse", "SYSTEM_ERROR")
    /\ UNCHANGED <<sessionVars, deviceVars, stateVars, heard>>
    /\ HandlerFrame

\* HoldScreenRunning and RestrictScreenOff(true): both are called, then judged.
RestrictPower ==
    /\ step = "power"
    /\ runningLock' \in {TRUE} \cup IF "holdScreen" \in MayFail THEN {FALSE} ELSE {}
    /\ \E set \in FilterPrefixes :
         /\ set = AllFilters \/ "setPower" \in MayFail
         /\ filters' = filters \cup set
         /\ IF runningLock' /\ set = AllFilters
              THEN Continue("list", "none")
              ELSE Continue("refuse", "SYSTEM_ERROR")
    /\ UNCHANGED <<sessionVars, kiosk, entered, appList, controllerVars, stateVars, heard>>
    /\ HandlerFrame

AddKioskApplicationList ==
    /\ step = "list"
    /\ \/ appList' = TRUE /\ Continue("enter", "none")
       \/ /\ "addList" \in MayFail
          /\ Continue("refuse", "SYSTEM_ERROR")
          /\ UNCHANGED appList
    /\ UNCHANGED <<sessionVars, kiosk, entered, filters, runningLock, controllerVars,
                   stateVars, heard>>
    /\ HandlerFrame

\* The ability manager admits a living token while nobody owns kiosk mode.
MayEnterKiosk == kiosk = NoToken /\ callerToken \notin dead

EnterKioskMode ==
    /\ step = "enter"
    /\ \/ /\ MayEnterKiosk
          /\ kiosk' = callerToken /\ entered' = callback
          /\ Continue("save", "none")
       \/ /\ ~MayEnterKiosk \/ "enterKiosk" \in MayFail
          /\ Continue("refuse", "SYSTEM_ERROR")
          /\ UNCHANGED <<kiosk, entered>>
    /\ UNCHANGED <<sessionVars, appList, filters, runningLock, controllerVars,
                   stateVars, heard>>
    /\ HandlerFrame

\* The session becomes active and is persisted, then its caller is told.
SaveSession ==
    /\ step = "save"
    /\ deadline' = "ahead" /\ isActive' = TRUE /\ examStatus' = "ACTIVE"
    /\ SaveState
    /\ Continue("announce", "none")
    /\ UNCHANGED <<callerToken, callback, callbacks, recipient, deviceVars, heard>>
    /\ HandlerFrame

AnnounceSession ==
    /\ step = "announce"
    /\ recipient' = (callerToken \notin dead)
    /\ heard' = Told(callerToken, "begin.OK")
    /\ Continue("free", "none")
    /\ UNCHANGED <<isActive, examStatus, callerToken, callback, callbacks, deadline,
                   deviceVars, stateVars>>
    /\ HandlerFrame

\* A refusal releases the session, but of the device only what
\* CleanupCurrentSession releases.
RefuseSession ==
    /\ step = "refuse"
    /\ heard' = Told(callerToken, IF why = "ENV_ANOMALY" THEN "begin.ENV_ANOMALY"
                                                         ELSE "begin.SYSTEM_ERROR")
    /\ CleanupCurrentSession
    /\ Continue("free", "none")
    /\ UNCHANGED <<kioskVars, stateVars>>
    /\ HandlerFrame

-----------------------------------------------------------------------------
(* ExitKioskMode and the ends of a session *)

\* The running lock goes first, whatever the filtering strategies answer.
LiftPower(lifted) ==
    /\ step = "exitPower"
    /\ runningLock' = FALSE
    /\ filters' = filters \ lifted
    /\ Continue(IF lifted = AllFilters THEN "exitKiosk" ELSE "exitFailed", why)
    /\ UNCHANGED <<sessionVars, kiosk, entered, appList, controllerVars, stateVars, heard>>
    /\ HandlerFrame

LiftPowerOk == LiftPower(AllFilters)
LiftPowerFailed ==
    "setPower" \in MayFail /\ \E set \in FilterPrefixes \ {AllFilters} : LiftPower(set)

\* One success in three tries is enough, and so is the answer that the token
\* holds no kiosk mode (the only answer there can be for a dead process).
ExitKioskModeOk ==
    /\ step = "exitKiosk"
    /\ kiosk' \in IF kiosk # callerToken THEN {kiosk}
                   ELSE {NoToken} \cup IF callerToken \in dead THEN {kiosk} ELSE {}
    /\ appList' \in {FALSE} \cup IF "deleteList" \in MayFail THEN {appList} ELSE {}
    /\ Continue("exited", why)
    /\ UNCHANGED <<sessionVars, entered, filters, runningLock, controllerVars, stateVars, heard>>
    /\ HandlerFrame

ExitKioskModeFailed ==
    /\ step = "exitKiosk" /\ "exitKiosk" \in MayFail
    /\ Continue("exitFailed", why)
    /\ UNCHANGED <<sessionVars, deviceVars, stateVars, heard>>
    /\ HandlerFrame

\* The loop thread still has its idle time to account for.
AfterExit == IF why = "timeout" THEN "account" ELSE "free"

\* Mutants: nobody, and everybody, goes on after a failed exit.
NobodyEndsAnyway == FALSE
EverybodyEndsAnyway == TRUE

\* Only AppDie goes on after a failed exit.
EndsAnyway == why = "died"

\* What the caller is told of the end; AppDie tells nobody.
Farewell ==
    CASE why = "end"     -> Told(callerToken, "end")
      [] why = "timeout" -> Told(callerToken, "interrupted.TIMEOUT")
      [] why = "anomaly" -> Told(callerToken, "interrupted.ENV_ANOMALY")
      [] OTHER           -> heard

\* The rest of End, Timeout, EnvAnomaly and AppDie.
FinishSession ==
    /\ step = "exited" \/ (step = "exitFailed" /\ EndsAnyway)
    /\ heard' = Farewell
    /\ CleanupCurrentSession
    /\ ClearState
    /\ Continue(AfterExit, "none")
    /\ UNCHANGED kioskVars
    /\ HandlerFrame

\* End, Timeout and EnvAnomaly leave the session active after a failed exit.
KeepSession ==
    /\ step = "exitFailed" /\ ~EndsAnyway
    /\ Continue(AfterExit, "none")
    /\ UNCHANGED <<sessionVars, deviceVars, stateVars, heard>>
    /\ HandlerFrame

-----------------------------------------------------------------------------
(* The loop thread *)

\* Mutant: an exit that failed once (its running lock is gone) is not retried.
DueMutant == isActive /\ callerToken # NoToken /\ deadline = "passed" /\ runningLock

\* CheckEndpointAndExecuteTask finds the session over its time.
Due == isActive /\ callerToken # NoToken /\ deadline = "passed"

\* CheckEndpointAndExecuteTask after a wait.
LoopWakes ==
    /\ LockFree /\ running = "serving"
    /\ IF Due THEN StartExit("timeout")
              ELSE /\ Continue("account", "none")
                   /\ UNCHANGED <<sessionVars, deviceVars, stateVars, heard>>
    /\ HandlerFrame

\* Mutant: one slice too many is let pass.
IdleTooLongMutant(time) == time > IdleLimit + 1

IdleTooLong(time) == time > IdleLimit

\* Mutant: a session that waits for the user does not count.
NobodyThereMutant == ~isActive

NobodyThere == ~isActive /\ examStatus = "IDLE"

\* CheckAndHandleSaIdle: a wait counts as a whole slice or, cut short, as none.
AccountIdleTime ==
    /\ step = "account"
    /\ IF NobodyThere
         THEN /\ idle' \in {idle, idle + 1}
              /\ running' = IF IdleTooLong(idle') THEN "leaving" ELSE running
         ELSE idle' = 0 /\ UNCHANGED running
    /\ Continue("free", "none")
    /\ UNCHANGED <<sessionVars, deviceVars, stateVars, heard, dialogVars, worldVars, countVars>>

-----------------------------------------------------------------------------
(* Notices that take the lock *)

\* AppDieHandle: OnProcessDied of any process of the session's application.
AppDieHandle(app) ==
    /\ LockFree /\ app \in processDeaths
    /\ processDeaths' = processDeaths \ {app}
    /\ IF isActive /\ AppOf[callerToken] = app THEN StartExit("died") ELSE Untouched
    /\ UNCHANGED <<loopVars, dialogVars, dead, remoteDeaths, screenVars, ancoVars, countVars>>

\* OnRemoteDied compares the dead stub with the current one.
OnRemoteDied(s) ==
    /\ LockFree /\ s \in remoteDeaths
    /\ remoteDeaths' = remoteDeaths \ {s}
    /\ IF s = callback THEN StartExit("died") ELSE Untouched
    /\ UNCHANGED <<loopVars, dialogVars, dead, processDeaths, screenVars, ancoVars, countVars>>

\* Mutant: the answer of the second multi-screen check is read the wrong way.
AnomalyConfirmedMutant == isActive /\ ~screen

AnomalyConfirmed == isActive /\ screen

\* OnExternalScreenConnected judges the screens again before it interrupts.
OnExternalScreenConnected ==
    /\ LockFree /\ screenNotice
    /\ screenNotice' = FALSE
    /\ \/ AnomalyConfirmed /\ StartExit("anomaly")
       \/ (AnomalyConfirmed => "screenQuery" \in MayFail) /\ Untouched
    /\ UNCHANGED <<loopVars, dialogVars, deathVars, screen, ancoVars, countVars>>

\* The lid closes or the extreme power-saving mode begins.
EnvAnomaly ==
    /\ LockFree /\ "anomaly" \in Disturbances
    /\ isActive /\ callerToken # NoToken
    /\ StartExit("anomaly")
    /\ HandlerFrame

\* Mutant: a write that was due is not crossed off.
WrittenMutant == TRUE

\* isWaittingAncoActive_ after the deferred write.
Written == FALSE

\* The deferred write of UpdateState, with the value of this moment.
AncoStateChangeCallback ==
    /\ LockFree /\ ancoNotice
    /\ ancoNotice' = FALSE
    /\ IF waitAnco
         THEN /\ persistActive' \in {isActive} \cup IF "setParameter" \in MayFail
                                                      THEN {persistActive} ELSE {}
              /\ waitAnco' = Written
         ELSE UNCHANGED <<persistActive, waitAnco>>
    /\ UNCHANGED <<step, why, sessionVars, deviceVars, sysActive, heard, loopVars, dialogVars,
                   anco, deathVars, screenVars, countVars>>

-----------------------------------------------------------------------------
(* The environment, which needs no lock *)

DeadlinePasses ==
    /\ deadline = "ahead" /\ deadline' = "passed"
    /\ UNCHANGED <<step, why, isActive, examStatus, callerToken, callback, callbacks, recipient,
                   deviceVars, stateVars, heard>>
    /\ HandlerFrame

\* The process of an ability dies; the service's observers will hear of it.
AppDies(token) ==
    /\ "death" \in Disturbances /\ token \notin dead
    /\ dead' = dead \cup {token}
    /\ processDeaths' = IF running = "down" THEN processDeaths
                                            ELSE processDeaths \cup {AppOf[token]}
    /\ remoteDeaths' = IF recipient /\ token = callerToken
                         THEN remoteDeaths \cup {callback} ELSE remoteDeaths
    /\ Untouched /\ UNCHANGED <<loopVars, dialogVars, screenVars, ancoVars, countVars>>

\* The ability manager releases the kiosk mode of a process that is gone.
KioskOwnerGone ==
    /\ kiosk \in dead /\ kiosk' = NoToken
    /\ UNCHANGED <<step, why, sessionVars, entered, appList, filters, runningLock,
                   controllerVars, stateVars, heard>>
    /\ HandlerFrame

\* The listener's OnConnect runs at once; it waits for the lock if it finds
\* the controller activated.
ScreenConnects ==
    /\ "screen" \in Disturbances /\ ~screen
    /\ screen' = TRUE
    /\ screenNotice' = (screenNotice \/ (screenListener /\ activated))
    /\ Untouched /\ UNCHANGED <<loopVars, dialogVars, deathVars, ancoVars, countVars>>

ScreenDisconnects ==
    /\ screen /\ screen' = FALSE
    /\ Untouched /\ UNCHANGED <<loopVars, dialogVars, deathVars, screenNotice, ancoVars, countVars>>

AncoSleeps ==
    /\ "anco" \in Disturbances /\ anco = "awake"
    /\ anco' = "asleep"
    /\ Untouched /\ UNCHANGED <<loopVars, dialogVars, deathVars, screenVars, ancoNotice, countVars>>

AncoWakes ==
    /\ anco = "asleep"
    /\ anco' = "awake"
    /\ ancoNotice' = (running # "down")
    /\ Untouched /\ UNCHANGED <<loopVars, dialogVars, deathVars, screenVars, countVars>>

-----------------------------------------------------------------------------
(* The end of the service process, and its next start *)

\* Its memory is lost, its registrations and running lock die with it, what
\* was on its way to it goes nowhere; the rest of the device keeps its state.
ProcessGone ==
    /\ running' = "down" /\ idle' = 0
    /\ Continue("free", "none")
    /\ isActive' = FALSE /\ examStatus' = "IDLE"
    /\ callerToken' = NoToken /\ callback' = 0 /\ ticket' = 0
    /\ callbacks' = [t \in Tokens |-> 0]
    /\ deadline' = "none" /\ recipient' = FALSE /\ waitAnco' = FALSE
    /\ activated' = FALSE /\ stage' = "idle"
    /\ callObserver' = FALSE /\ screenListener' = FALSE
    /\ runningLock' = FALSE
    /\ dialogs' = {} /\ answers' = {} /\ dialogErrors' = {}
    /\ processDeaths' = {} /\ remoteDeaths' = {}
    /\ screenNotice' = FALSE /\ ancoNotice' = FALSE
    /\ UNCHANGED <<extension, kioskVars, persistActive, sysActive, anco, screen, shown, agreed,
                   dead, sessions, heard>>

\* Destroy: the loop has ended and has the service unloaded.
Destroy == running = "leaving" /\ LockFree /\ ProcessGone

Crash == "crash" \in Disturbances /\ running # "down" /\ ProcessGone

\* Init and LoadState: if the last process left an active assessment behind,
\* its kiosk mode is released; then both parameters say there is none.
Start ==
    /\ running = "down"
    /\ running' \in {"serving"} \cup IF "subscribe" \in MayFail THEN {"down"} ELSE {}
    /\ kiosk' \in IF persistActive
                     THEN {NoToken} \cup IF "exitKiosk" \in MayFail THEN {kiosk} ELSE {}
                     ELSE {kiosk}
    /\ persistActive' = FALSE /\ sysActive' = FALSE
    /\ UNCHANGED <<step, why, sessionVars, idle, entered, appList, filters, runningLock, waitAnco,
                   controllerVars, dialogVars, worldVars, countVars, heard>>

-----------------------------------------------------------------------------

\* What the thread that holds the lock does next.
HandlerStep ==
    \/ EnvChecked \/ EnvCheckFailed \/ ActivateControl
    \/ RestrictAncoApp \/ RestrictPower \/ AddKioskApplicationList \/ EnterKioskMode
    \/ SaveSession \/ AnnounceSession \/ RefuseSession
    \/ LiftPowerOk \/ LiftPowerFailed \/ ExitKioskModeOk \/ ExitKioskModeFailed
    \/ FinishSession \/ KeepSession
    \/ AccountIdleTime

Request ==
    \/ Query
    \/ \E t \in Tokens : Begin(t) \/ BeginRejected(t) \/ End(t) \/ EndRejected(t)

Dialog ==
    \E s \in Sessions :
        \/ DialogShown(s) \/ DialogNotShown(s)
        \/ ConfirmBegin(s) \/ CancelBegin(s) \/ BeginDialogSystemError(s)
        \/ \E operation \in {"CONFIRM", "CANCEL"} :
             UserAnswers(s, operation) \/ AnswerIgnored(s, operation)

Notice ==
    \/ \E t \in Tokens : AppDieHandle(AppOf[t])
    \/ \E s \in Sessions : OnRemoteDied(s)
    \/ OnExternalScreenConnected \/ EnvAnomaly \/ AncoStateChangeCallback

Environment ==
    \/ DeadlinePasses \/ KioskOwnerGone
    \/ \E t \in Tokens : AppDies(t)
    \/ ScreenConnects \/ ScreenDisconnects \/ AncoSleeps \/ AncoWakes

Lifecycle == Destroy \/ Crash \/ Start

Next == HandlerStep \/ LoopWakes \/ Request \/ Dialog \/ Notice \/ Environment \/ Lifecycle

Spec == Init /\ [][Next]_vars

-----------------------------------------------------------------------------
(* Safety *)

\* The callback registry names the current session's caller and nobody else,
\* so no message of a session can reach the stub of another one.
RegistryNamesCaller ==
    \A t \in Tokens : callbacks[t] = IF t = callerToken THEN callback ELSE 0

\* Whenever the lock is free, an active session is a locked-down one: every
\* part of the lockdown that no failed exit takes back is in force, whichever
\* calls failed in earlier sessions.
ActiveMeansLocked ==
    isActive /\ LockFree =>
        /\ LockdownComplete /\ activated
        /\ kiosk = callerToken \/ callerToken \in dead
        /\ deadline # "none" /\ appList

\* A session becomes active only with the consent given for that very session:
\* the user confirmed its dialog, or there was no dialog to show.  Answers to
\* the dialogs of displaced sessions may still be on their way.
ActiveByConsent == isActive => callback \in agreed

\* Once the lock is free and nobody is active, nothing of a lockdown is left
\* (README_en.md:68: "the end, timeout and exception paths all release the
\* control").
NothingLeftBehind ==
    LockFree /\ ~isActive =>
        /\ kiosk = NoToken /\ ~appList
        /\ filters = {} /\ ~runningLock
        /\ ~activated /\ extension = "off"

\* An application that is alive never loses its session, by whichever of the
\* four ends and after whichever failed exits, with its kiosk mode left on;
\* only a crash of the service can do that to it.
EndsReleased ==
    [][isActive /\ ~isActive' =>
         kiosk' # callerToken \/ callerToken \in dead \/ running' = "down"]_vars

\* The service unloads itself only without a session: not while one waits for
\* the user and not in the gap between the decision and the unload.
UnloadsIdle ==
    running = "leaving" => ~isActive /\ examStatus = "IDLE" /\ callerToken = NoToken

\* The persistent parameter differs from isActive only while a write is due:
\* the container sleeps, or its change notice waits for the lock.
PersistTracksActive ==
    LockFree /\ persistActive # isActive => waitAnco /\ (anco = "asleep" \/ ancoNotice)

\* A kiosk mode that a crash leaves on for a living application was entered by
\* a session that is over and whose caller was never told that it began: once
\* onBegin(OK) is out, the next start knows of the kiosk mode and releases it.
OrphanKioskUnannounced ==
    LockFree /\ ~isActive /\ kiosk \notin dead \cup {NoToken} =>
        entered \in 1..sessions \ {callback} /\ heard[entered] = <<>>

\* Where a crash would leave a kiosk mode that the next start does not know
\* of: between EnterKioskMode and SaveState, or while the write is deferred.
KioskIsOnRecord ==
    kiosk # NoToken /\ running # "down" /\ ~persistActive =>
        step = "save" \/ waitAnco \/ kiosk \in dead

\* An active session whose caller died is about to be ended: one of the two
\* death notices is on its way, or the exit is in progress.
DeadCallerNoticed ==
    isActive /\ callerToken \in dead /\ LockFree =>
        AppOf[callerToken] \in processDeaths \/ callback \in remoteDeaths

\* What README_en.md:346 says: "end must use the same token as begin".
EndNeedsBeginToken ==
    LockFree => \A t \in Tokens : EndAccepted(t) => t = callerToken

\* What README_en.md:147 says of the caller-exit path: it is taken when "the
\* caller process is gone".
DiesWithItsCaller ==
    [][why = "died" /\ isActive /\ ~isActive' => callerToken \in dead]_vars

\* What README_en.md:102 says of a restart after an abnormal exit: "Kiosk mode
\* and all controls are released and system functions are restored".
RestartReleasesControls ==
    [][running = "down" /\ running' = "serving" => filters' = {} /\ ~appList']_vars

-----------------------------------------------------------------------------
(* Liveness *)

\* A thread that holds the lock is scheduled and its external calls return; a
\* thread that waits for the lock (the loop after its wait of at most 5 s, a
\* notice) gets it some time, though others may take it first; a call that is
\* repeated for ever succeeds some time; a container asked to wake up does.
Fairness ==
    /\ WF_vars(HandlerStep) /\ SF_vars(LoopWakes)
    /\ SF_vars(LiftPowerOk) /\ SF_vars(ExitKioskModeOk)
    /\ \A t \in Tokens : SF_vars(AppDieHandle(AppOf[t]))
    /\ SF_vars(OnExternalScreenConnected)
    /\ WF_vars(waitAnco /\ AncoWakes) /\ SF_vars(AncoStateChangeCallback)

FairSpec == Spec /\ Fairness

\* An assessment whose deadline has passed ends: a failed exit is retried.
TimeoutEnds == deadline = "passed" ~> ~isActive

\* A session does not outlive its caller for ever.
DeadCallerEnds == (isActive /\ callerToken \in dead) ~> ~isActive

\* A screen plugged in while the listener is armed, even in the middle of the
\* activation, ends the session unless it is unplugged again or the exit fails:
\* EnvAnomaly, unlike the deadline, is not tried again.
ScreenEnds ==
    (screenNotice /\ isActive) ~> (~isActive \/ ~screen \/ step = "exitFailed")

\* A deferred write of the persistent parameter is caught up with.
PersistCatchesUp == waitAnco ~> ~waitAnco

-----------------------------------------------------------------------------
(* The service keeps the promise of CallerProtocol *)

\* The phase of a session after the messages of a log; current is the session
\* the service works for.
PhaseAfter(log, s, current) ==
    CASE log = <<>> /\ s = current            -> "asked"
      [] log = <<"begin.OK">> /\ s = current  -> "running"
      [] log \in {<<>>, <<"begin.OK">>} /\ s # current -> "dropped"
      [] log \in {<<"begin.SYSTEM_ERROR">>, <<"begin.USER_CANCEL">>,
                  <<"begin.ENV_ANOMALY">>}    -> "refused"
      [] log = <<"begin.OK", "end">>          -> "ended"
      [] log \in {<<"begin.OK", "interrupted.TIMEOUT">>,
                  <<"begin.OK", "interrupted.ENV_ANOMALY">>} -> "interrupted"
      [] OTHER                                -> "broken"

PhaseOf(s) == IF s > sessions THEN "unused" ELSE PhaseAfter(heard[s], s, callback)

Protocol == INSTANCE CallerProtocol WITH
    phase <- [s \in Sessions |-> PhaseOf(s)],
    excused <- {s \in Sessions : s = callback /\ callerToken \in dead},
    serving <- running # "down"

\* Every caller gets its one answer, and a session that was begun its one end.
KeepsProtocol == Protocol!ProtocolSpec
=============================================================================
