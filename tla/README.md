# Verification of the assessment service

TLA+ models, TLC runs and TLAPS proofs for the customization assessment
configuration service: a system ability that locks a device down while an
application holds an assessment (an exam), and gives the device back at its
end. File names below are relative to `src/`; `assessment_service.cpp` stands
for `services/assessment_service/src/assessment_service.cpp`, and so on.

## 1. The system

### Parts, state and operations

| part | state | operations |
|---|---|---|
| **AssessmentService** (`assessment_service.cpp`) | one session (`isActive_`, `examStatus_`, `callerToken_`, `callback_`, ticket, deadline, death recipient), the idle clock, `isWaittingAncoActive_`; persistent and volatile parameters; all under `mutexSa_` | `Begin`, `End`, `IsActive`, `GetConfiguration`; answers and errors of the confirmation dialog; `DoLoop` (deadline, idle unload); system events; recovery in `Init`/`LoadState`; operations on AR models |
| **ProcessController** (`process_controller.cpp`) | `activated_`, the registrations of a telephony observer and a screen listener, what the extension applies; under its own `mutex_` | `Activate` in three stages with rollback, `Deactivate`, callbacks for calls and screens |
| **CallbackManager** (`callback_manager.cpp`) | ability token -> callback stub | `RegisterCallback`, `UnregisterCallback`, `OnBegin`, `OnInterrupted`, `OnEnd` |
| **AssessmentEventManager** | the connection to the dialog, the observer of common events | shows the dialog, reports its errors, forwards events |
| **EnvChecker** | none of its own; asks the device's services one after the other | recording, casting, screens, calls, virtual machine, device management |
| **ExtensionLoader** | the handle of a closed-source library and the symbols resolved from it, in order, up to the first needed one that is missing | `CheckAll`, `AwakeAnco`, `RestrictAncoApp`, `ActivateAll`, `DeactivateAll` |
| **AppStateObserver**, the death recipient | none | report the death of a process of a bundle, of a callback stub |
| **AssessmentServiceAbility** | none | `OnStart`: `Init`, then publish |
| **AssessmentServiceClient** (`interfaces/inner_api`) | proxy, load flag, condition variable, callback on death | load with a timeout, proxy cache, the four requests |
| **NAPI bridge** (`frameworks/js/napi`) | one record, the callback to tell of the service's death (`gActiveCallback`); tasks posted to the main thread | `begin`, `end`, queries; `onBegin`, `onInterrupted`, `onEnd` posted; `NotifyAssessmentServiceDied` |
| **ANI bridge** (`frameworks/js/ani`) | the function references of a session | the same requests; `onBegin` and `onEnd` called on the IPC thread, `onInterrupted` posted |
| publishers, utilities, AR models | none of their own | trace events, identifiers, permissions, forwarding to a library |

### How they interact

* Applications call `Begin` and `End` over IPC; the answer to `Begin` is only
  that it was accepted. What became of the session comes back through the
  callback stub: one `onBegin`, and later one `onEnd` or one `onInterrupted`.
* Every handler of the service holds `mutexSa_` from its start to its end,
  across all its external calls. The loop thread takes it after a wait of at
  most five seconds, the notices (a process died, a stub died, a screen was
  connected, the compatibility container woke up) when they can get it.
* `mutexSa_` is taken before `ProcessController::mutex_`, never the other way
  round: a screen notice goes on to the service without the controller's lock.
* Ability manager (kiosk mode), power manager (filtering strategies, running
  lock), telephony, display manager, parameter service and the extension are
  called from the handlers; each of the calls may fail.

### What is hard

* A `Begin` displaces a session that still waits for its confirmation, while
  the dialog of that one can still come up, be answered or report an error.
* The session begins in ten steps and ends in four, any of which may fail. A
  failed begin is undone in part; a failed end is not undone at all, and
  whether the session ends anyway depends on the reason.
* Registrations that could not be removed are kept and used by later sessions.
* Two notices tell of the death of a caller; one of them is registered only at
  the very end of the begin, and the other is ignored until then.
* The persistent parameter is written late when the container sleeps.
* The process may crash at any step; only kiosk mode is released on restart.
* The service unloads itself when it was idle for long enough.
* The checks of the environment are made one after the other, and the observers
  and listeners that take over from them are registered later: the device
  changes in between.
* The service waits for the application with `mutexSa_` held whenever it sends
  a callback, and the application's main thread waits for the service in its
  requests. Which thread of the application runs a callback differs between
  the two bridges and between callbacks.
* The record for the service's death is written when `begin` returns, and taken
  back by whoever finishes first: the end of this session, that of an older
  one, a notice of death.

### What makes each part correct

* Service: consent is never mixed up; an active session is completely locked
  down; whoever ends a session, a living caller gets its device back; a session
  ends after its deadline and after its caller's death; the unload hits nobody;
  the persistent parameter tells the next start what it must know; callers hear
  one answer and one end.
* Controller: an activation that succeeds applies every restriction, whatever
  failed before; no call rings through.
* Callback registry: the entry of the current caller and nothing else.
* Client: the proxy in use has a death recipient, a dead one is dropped, the
  death of the service is told once.
* Environment: what holds of the device during an assessment passed a check that
  could not see it, came in a window of the code, was given up by a notice whose
  second check or exit failed, or is about to be dealt with.
* Bridges: whatever parameters `begin` gets, a session is made of ones the
  service can rely on; each session hears what was sent to it, in order, and
  nothing of another's; the death of a service that is watched is told to those
  it concerns; the service is not held up.

## 2. Modules

| module | models | remarks |
|---|---|---|
| `ExtensionLoader` | which entry points of the library are resolved, and what a call through a missing one does | constants only |
| `ProcessController` | `ProcessController` and what the extension has applied | a specification of its own (`ControllerSpec`), and the actions `AssessmentService` is built from |
| `IncomingCalls` | `ProcessController` with its telephony observer, `AssessmentTelephonyObserver` and calls that come and go | composes the controller with an external telephony service |
| `EnvChecker` | `EnvChecker::CheckAll` check by check, the screens and conditions of the device, `OnExternalScreenConnected` as far as it asks again | composes the checks with `IncomingCalls`; each step is one of `CallSpec` or none |
| `AssessmentService` | `AssessmentService`, `CallbackManager`, `AppStateObserver`, the dialog connection, kiosk mode, power, parameters, crash and restart | extends `ProcessController`: one state machine for all that `mutexSa_` protects |
| `CallerProtocol` | what the callers see, as an abstract specification | `AssessmentService` implements it under the mapping `PhaseOf` |
| `SystemEvents` | hibernation and shutdown in `DispatchEvent` | on top of `AssessmentService` |
| `AssessmentClient` | `AssessmentServiceClient` with its load callbacks and death recipients, and the two places of the NAPI bridge that set the callback on death | a specification of its own: the service is a process that starts and dies |
| `BeginParameters` | `Begin` of both bridges and `ConfigCurrentSession`: what is checked and rewritten before a session is made | pure operators |
| `CallbackBridge` | both bridges: callbacks and requests on the application's threads, the record for the service's death | on top of `CallerProtocol` for the service and `BeginParameters`; of `AssessmentClient` it keeps how many recipients watch the service and which notices are due |
| `MC...` | the instances TLC checks | tokens are model values |
| `...Proofs` | theorems and proofs | see section 5 |

### The lock and the steps of a handler

A handler makes external calls in the middle, and things that need no lock go
on meanwhile: an application dies, a screen is plugged in, the container falls
asleep, the process crashes. `step` therefore names the part of the handler
that comes next, `"free"` if nobody holds `mutexSa_`, and `why` is what the
handler remembers (the reason of an exit or of a refusal). A short handler is
one action; `ConfirmationBeginLockedUnsafe` is
`EnvChecked`, `ActivateControl` (one action per stage), `RestrictAncoApp`,
`RestrictPower`, `AddKioskApplicationList`, `EnterKioskMode`, `SaveSession`,
`AnnounceSession`, with `RefuseSession` for every failure;
`ExitKioskModeLockedUnsafe` and its callers are `LiftPower...`,
`ExitKioskMode...`, and `FinishSession` or `KeepSession`. What the loop thread
has to do after the deadline check, in the same iteration, is
`AccountIdleTime`. An action that takes the lock has the guard `LockFree`. Calls
that follow one another without a branch between them share a step
(`RestrictPower`, `AnnounceSession`, `RefuseSession`, `FinishSession`): a crash
comes between two steps, not between two calls of one.

In `AssessmentClient` nothing is held for long: `mutex_` and `loadSaMutex_`
protect one access each. So every access to `assessmentService_`,
`loadSaFinished_` or `SaDiedCallback_` is an action, and `pc`, `answer` and
`notice` say where a thread, a load callback and a death notice have got. A
load is named by the number of its `LoadSystemAbility` call, and so are its
callback and its recipient; a service by the number of its start.

In `CallbackBridge` there are four actors. The service is a `CallerProtocol`
whose steps also put a `message` on its way, and it does nothing else until the
message is answered: every callback is a synchronous request made with
`mutexSa_` held. The IPC thread of the application takes the message (`PostTask`,
`CallDirectly`, `DirectCallReturns`), the main thread runs the tasks in its
`queue` one by one (`RunTask`, `TaskReturns`) and makes requests between or from
within them (`call`), and the notices of death come on threads of their own
(`TakeDiedCallback`, `NotifyServiceDied`). A refusal of a session displaced by a
`begin` is sent before that `begin` is answered, as the service does it.

The service may die, and start again, at any step. A message that an IPC thread
has taken and not handed on yet is then `late`: the thread comes to hand it on
whenever it is scheduled (`HandOnLate`), be it after the next service has sent
messages of its own, which another IPC thread takes. Nothing is assumed about
when a service starts again, or about the old thread's speed. (At most one
message of each session is left behind: the service has one on its way at a
time, and a session whose service died gets no other.) The proxy an application
begins with is either one its client has loaded and added a recipient to, or the
cached one as it is, which `GetAssessmentProxy` takes without adding any:
`BeginAssessment` leaves `watching` as it was or adds one. So a service may have
several recipients, each of which brings a notice, or none; when it can have none
is the question of `ProxyIsWatched` in `AssessmentClient`.

In `EnvChecker` the variable `check` is the check to be made next. `unattended`
belongs to the properties: it is the account of the conditions that came where
the code had no means to notice them, or that it gave up on.

### State

| variable | code |
|---|---|
| `running` | the process and `running_`: `"leaving"` is the time between `Quit` and the unload |
| `isActive` ... `deadline`, `waitAnco`, `idle` | the members of the same purpose; the session is named by the number of its accepted `Begin`, and the stub (`callback`) and the ticket by the session they were made for |
| `callbacks` | `CallbackManager::callbackMap_`, with 0 for no entry |
| `activated` ... `extension` | `ProcessController` |
| `kiosk`, `appList`, `filters`, `runningLock`, `persistActive`, `sysActive`, `anco`, `screen` | the device: they outlive the process, the running lock excepted |
| `dialogs` ... `ancoNotice` | what is on its way to the service |
| `device`, `present`, `screens`, `talking`, `ringing` | the device as `EnvChecker` and the observers see it |
| `screenNotices`, `told`, `rejecting` | callbacks of the display manager and of telephony under way |
| `message`, `inside` | a request of the service to the application's IPC thread, and whether application code runs there |
| `late` | messages of a service that died, in the hands of a thread that has not handed them on |
| `queue`, `task`, `call` | the application's main thread: posted tasks, the callback it runs, the request it waits in |
| `active`, `armed` | `gActiveCallback` and `SaDiedCallback_` |
| `watching`, `due`, `reading` | the recipients added to the running service, and the notices that have dropped the proxy or taken the callback |
| `sessions`, `dead`, `agreed`, `heard`, `entered` | what happened (`entered` is the session that was the last to enter kiosk mode); used in properties, and `dead` also by the actions of the outside world |
| `lost`, `belated`, `unwatched`, `missed`, `overlapped` | what happened in the bridges: the exceptions of the properties, section 4 says which |

### What is assumed of the outside world

None of this is in the repository; it is how the code uses it, and each of the
definitions concerned is marked external or named here.

* Kiosk mode is admitted to a living token while nobody owns it
  (`MayEnterKiosk`), and is released some time after its owner's process died
  (`KioskOwnerGone`). `ExitKioskMode` for a token that owns none says so, which
  the code takes for a success.
* The telephony service tells a new observer the current state of the call, as
  `AddStateObserver` is asked to (`IncomingCalls`).
* A removal that fails leaves the registration as it was.
* Posted tasks of one process run in the order they were posted
  (`napi_send_event` and the event handler with immediate priority), on the main
  thread, and not while a function of the application runs.
* An IPC thread may or may not be attached to the virtual machine of ANI; if it
  is not, it has no environment to call a function in.
* When the process of the service ends, its running lock and its registrations
  go with it. Kiosk mode, power filters, the application list, the extension's
  restrictions and the persistent parameter stay. The volatile parameter also
  stays, since it belongs to the device and not to the process.
* Tickets (random 64-bit strings) are never drawn twice.
* The user answers any dialog that is shown, more than once if the dialog stays;
  a displaced dialog is not taken off the screen.

### Abstractions

Messages are names; identifiers, wording, trace events and logging are left
out. The deadline is `"none"`, `"ahead"` or `"passed"`. The idle clock counts
slices: a wait of the loop counts as a whole one or, cut short, as none. The sum
is stored before it is compared with the limit, as in the code, and the service
leaves with what it has summed up. The
application list is a flag. In `AssessmentService` the verdict of `EnvChecker`
is one choice, that about the screens excepted; its checks are in
`EnvChecker`. `MayFail` is the set of external calls that may fail, and
`Disturbances` what the environment does; a run chooses both.

In `CallbackBridge` a query (`isActive`, `getConfiguration`) that finds the
service's lock free returns at once and changes nothing, so only those that have
to wait are steps. `begin` is a step only when the service accepts it: one that
is refused by a check changes nothing anywhere, and the checks of the
parameters are `BeginParameters`, where a bundle name is the sequence of its
segments and lengths are counted in segments.

## 3. Runs

The runs of the service use one or two tokens; `OwnApps` makes each an application of its own,
`SameApp` two processes of one application. Two tokens and two or three
sessions are enough for a session to be displaced by one of the same and of
another caller, for late answers to meet a later session that waits, is active
or is gone, and for leftovers of one session to be used by the next. `IdleLimit
= 1` lets the idle clock pass its limit within two waits. Each run switches on
the failures and disturbances its question is about, and between them every
action and every failure branch is taken.

| run | question and result |
|---|---|
| `svc_sessions` | three sessions, displaced, confirmed, cancelled, with dialogs that fail or answer late: types (the idle clock of a service that has not decided to leave is within its limit), `RegistryNamesCaller`, `ActiveByConsent`, `NothingLeftBehind` (in this run `EnterKioskMode` succeeds for want of a reason not to; for failures see `doc_failed_begin`), `UnloadsIdle`, and the refinement `KeepsProtocol` hold |
| `svc_failures` | registrations, entries, removals and exits fail, callers die, the container sleeps and wakes up: `ActiveMeansLocked`, `DeadCallerNoticed`, `PersistTracksActive`, `KioskIsOnRecord` and `EndsReleased` hold |
| `svc_crash` | crashes between any two steps of the handlers and restarts, with an application list that stays: `OrphanKioskUnannounced` and `KeepsProtocol` hold |
| `svc_live` | one session under fairness: `TimeoutEnds`, `DeadCallerEnds`, `ScreenEnds`, `PersistCatchesUp` hold |
| `calls_rejected` | every check of the environment on every kind of device, while recordings, screens and calls come and go and other calls fail, the exit after an anomaly among them: `NothingOverlooked`, `NoCallLetThrough` and `LockdownComplete` hold, here with a library that lacks `DeactivateAll` |
| `client_loads` | two threads load, use, lose and reload the service: `DeathToldOnce`, `ProxyIsWatched` and `DeadProxyDropped` hold |
| `bridge_calls` | two sessions through either bridge, with a service that dies and starts again at any step, watched or not: `RequestsAreSound`, `HeardAsSent`, `HeardInTurn`, `RecordIsArmed`, `RecordEndsWithSession`, `DeathIsReal`, `DeathOnItsWay`, `DeathReported` and `ServiceNotHeldUp` hold |
| `doc_end_token` | finding: `End` does not compare tokens |
| `doc_caller_exit` | finding: the death of another process of the application ends the session of a living caller |
| `doc_restart` | finding: a restart leaves power filters and the application list |
| `doc_failed_begin` | finding: so does a refused kiosk mode |
| `doc_system_events` | finding: hibernation and shutdown do not end a session |

`CHECK_DEADLOCK FALSE` is stated in all of them: the number of sessions, or of
loads, is bounded, and an application need not ever call.

`client_loads` has two threads, two loads, two starts of the service and one
accepted begin (two, if both threads are about to register): enough for the
threads to load the same service and add a recipient each, to load one service
after the other, and to miss each other's flag. A third load made the state
space exceed 40 million states. `ProxyIsWatched` and `DeadProxyDropped` except
the histories `strayed` records, of which section 4 speaks; the mutants show
that what remains depends on the code.

`bridge_calls` has two sessions of one application: enough for a session to be
displaced, for the end of one to race the begin of the next, and for a notice
of death to meet a session that was begun after it. Three sessions did not
finish within five minutes. The parameters are all lists of up to two names out
of eight (the application's own, another's, no string, and five malformed ones)
and of three out of two, with durations on both sides of zero, of the maximum
and of the width of the number; the maxima are small enough to be exceeded.
They do not depend on the state, so `RequestsAreSound` is evaluated in the
initial states only; it is proved for any requests, limits and lists. `DeathOnItsWay`
is the safety half of `DeathReported`: at every moment what will tell an
application of its service's death is there, and the fairness has only to bring
it about.

`calls_rejected` has three screens, two of them built in, three observer
callbacks and one screen notice at a time: `NothingOverlooked` asks whether
there is one, and each notice asks for all the screens. Which services the
device has is chosen freely at the start.

`KeepsProtocol` is the refinement: under `PhaseOf`, which reads the phase of a
session off the messages its stub received, every step of the service is a
step of `CallerProtocol` or leaves the phases alone. So each accepted `Begin`
is answered once, one session runs at a time, a session that began has one end,
and only a dead caller or the end of the service process excuse silence.
`PhaseOf` maps any other sequence of messages to `"broken"`, which the
protocol has no step to.

### Fairness

`FairSpec` assumes

* weak fairness of `HandlerStep`: the thread that holds the lock is scheduled
  and its external calls return (all are synchronous calls with an answer or an
  error);
* strong fairness of `LoopWakes` and of the notices: a thread that waits for a
  mutex gets it some time, although others may get it first any number of
  times. Weak fairness would say nothing, since the lock is taken and released
  all the time;
* strong fairness of `LiftPowerOk` and `ExitKioskModeOk`: a call that is
  repeated for ever succeeds some time. Without it no session has to end, for
  the code has nothing else to try;
* weak fairness of the container's waking up when the service asked for it
  (`AwakeAnco`).

`ClientSpec` assumes weak fairness of a thread inside a request (its wait ends
after four seconds whatever happens), of a load callback that has begun, and of
a death notice. A load need not be answered.

`BridgeSpec` assumes weak fairness of the IPC thread, of each kind of step of a
death notice, of the returns (a request is answered or throws, a function of the
application returns) and of `RunTask`: the application's main thread comes back
to its event loop. An ANI function that waits for the service for ever is not
assumed to return; that is what `ServiceNotHeldUp` excepts.

`PersistCatchesUp` needs a library whose `AwakeAnco` is resolved, for nobody
else wakes the container up.

Apart from that nothing is assumed of the user, the applications, the deadline
or the idle clock. `ScreenEnds` excepts a failed exit: unlike the deadline, an anomaly is
not tried again, and the session goes on with the screen connected until its
end.

## 4. Findings

The five `doc_...` runs are violations of what `README_en.md` says; each is
quoted in `PROJECT.json`. Met on the way, and not promised anywhere:

* after an anomaly whose exit failed, the running lock is already released and
  some filters may be lifted, while the session stays active until its deadline,
  with the screen connected and the notice used up
  (`assessment_service.cpp:1067`). `NothingOverlooked` excepts it by `unattended`,
  `ScreenEnds` by its disjunct for a failed exit;
* the recovery clears the persistent parameter even if releasing kiosk mode
  failed, so that the next start does not try again;
* `EndsReleased` needs one process per application (see `EndReleasesKiosk`);
* a screen plugged in between the environment check and the registration of
  the listener is noticed by nobody;
* in the client, a proxy may be cached that no recipient watches: the answer to a
  load comes after the four seconds are over; two threads load at once and one
  clears the flag of the other, which gives up; or the service dies before
  `AddDeathRecipient`, whose result is ignored. When that service is gone, every
  later request uses the dead proxy and fails, until the application restarts.
  This is what `strayed` excepts. An application that began its session through
  such a proxy, which `GetAssessmentProxy` reuses without a look
  (`assessment_service_client.cpp:216`), is not told when the service dies under
  it, although its record is there and armed; `unwatched` records these sessions,
  and `DeathOnItsWay` and `DeathReported` except them;
* two threads that load at once add a recipient each. After the first notice the
  service may be loaded again; the second one then clears the new proxy and
  reports the death of a service that runs (this needs three loads);
* a `removeObserver` that failed leaves an observer that is not registered
  again, hence is not told of a call that rings already. `NoCallLetThrough` is
  stated for a telephony service that removes it;
* a call answered before it is rejected, one that comes between the check for
  calls and the registration of the observer, a recording or a cast that starts
  after its check: nothing ends them, and the assessment goes on. These are the
  cases `unattended` collects;
* the loader stops at the first of `CheckAll`, `AwakeAnco`, `RestrictAncoApp`
  that is missing. A library without `DeactivateAll` keeps its restrictions
  after the session, although the log says that process control will be
  skipped (`extension_loader.cpp:75`);
* in the NAPI bridge, `onBegin` of a refused session leaves its record in place,
  and the application hears `onInterrupted(SYSTEM_ERROR)` of that session when the
  idle service unloads itself (`js_assessment_callback.cpp:230`);
* `end()` followed by `begin()`: the task of the old session's `onEnd` takes back
  the new session's record, and the death of the service is not told. So does a
  `begin()` from within `onInterrupted` or `onEnd`, when that function returns.
  `missed` records these sessions and `DeathReported` excepts them;
* a notice that was under way when a new session was recorded takes that
  session's callback, and reports the death of a service that runs. `overlapped`
  records these;
* a message of a service that died may be handed on after the callbacks of the
  next service; `belated` records these messages, and `HeardInTurn` excepts them.
  They reach their own session all the same, once (`HeardAsSent`);
* in ANI, `onBegin` or `onEnd` is dropped when the IPC thread is not attached to
  the virtual machine (`lost`); an `onInterrupted` that was posted may run after the
  next session's `onBegin`; the service's death is not told at all; and a
  function that calls `begin`, `end` or `isActive` from within `onBegin` or
  `onEnd` waits for a lock the service holds until the function returns.

## 5. Proofs

| module | theorem | property |
|---|---|---|
| `ProcessControllerProofs` | `LockdownIsComplete` | `ControllerSpec => []LockdownComplete` |
| `EnvCheckerProofs` | `CallsAreRejected` | `CallSpec => []NoCallLetThrough`, if removals and rejections do what they are asked to |
| | `EnvRefinesCalls`, `CallsRefineController` | `EnvSpec => CallSpec`, `CallSpec => ControllerSpec`: what is proved of the controller holds with calls, and of both with the checks and the device around them |
| | `LockdownAmidCalls` | `EnvSpec => []LockdownComplete`, by these two refinements |
| | `NothingIsOverlooked` | `EnvSpec => []NothingOverlooked`, if removals and rejections do what they are asked to |
| `AssessmentClientProofs` | `ClientTypeCorrect` | `ClientSpec => []ClientTypeOK` |
| | `DeathIsToldOnce`, `ProxyHasRecipient` | `ClientSpec => []...` of `DeathToldOnce`, `ProxyIsWatched` |
| `CallbackBridgeProofs` | `BridgeTypeCorrect`, `RecordStaysArmed`, `RecordIsReleased` | `BridgeSpec => []...` of `BridgeTypeOK`, `RecordIsArmed`, `RecordEndsWithSession` |
| | `DeathIsToldInTime`, `EveryoneHeardInTurn` | `BridgeSpec => DeathIsReal`, `BridgeSpec => HeardInTurn` |
| | `EveryWordArrives`, `DeathIsNeverForgotten`, `ParametersAreSound` | `BridgeSpec => []...` of `HeardAsSent`, `DeathOnItsWay`, `RequestsAreSound` |
| | `BridgeKeepsProtocol` | `BridgeSpec => ProtocolSpec`: the service of this model is a `CallerProtocol` |
| `BeginParametersProofs` | lemmas only | what `Selected`, `SetToSeq` and `RemoveFirst` make of lists of any length, and what each bridge hands over |
| `AssessmentServiceProofs` | `TypeCorrect`, `RegistryCorrect`, `ConsentIsNeeded`, `ActiveIsLocked`, `UnloadIsIdle`, `DeathIsNoticed` | `Spec => []...` of `TypeOK`, `RegistryNamesCaller`, `ActiveByConsent`, `ActiveMeansLocked`, `UnloadsIdle`, `DeadCallerNoticed` |
| | `EndReleasesKiosk` | `Spec => EndsReleased`, if every application has one process |
| `CallerProtocolProofs` | `ServiceKeepsProtocol` | `Spec => KeepsProtocol`: the service implements `CallerProtocol`, if every application has one process |
| `DeviceStateProofs` | `PersistIsTracked` | `Spec => []PersistTracksActive`, if no parameter write fails |
| | `KioskIsRecorded` | `Spec => []KioskIsOnRecord`, if besides there is no crash and every application has one process |
| | `OrphanIsUnannounced` | `Spec => []OrphanKioskUnannounced`, crashes included, if no parameter write and no release at the start fails, the container stays awake and every application has one process |
| | `NothingIsLeftBehind` | `Spec => []NothingLeftBehind`, if nobody dies and no call fails that restricts or releases the device, other than an exit of kiosk mode |

They hold for every set of tokens, threads and screens, every number of
sessions, loads, starts, callbacks and idle slices, every library, every set of
failing calls and disturbances. The assumptions are `LibraryAssumption` (a
library exports no other names), `CallAssumption`, `ServiceAssumption`,
`ClientAssumption`, `EnvAssumption` (a null token is no token, the bounds are
natural numbers, the screens are finitely many and include those built in) and
`ParametersAssumption` (a list is a list, a number an integer, the limits are
positive); TLC evaluates them in the runs.

**The argument.** `LockdownComplete` follows from what each stage of `Activate`
has achieved when the next one is due (`ControllerStages`). The lemmas say that
each action of the controller keeps `ControllerInv`, and the proofs about
`IncomingCalls` and `AssessmentService`, which take the same actions, cite them.

The properties of the service are not inductive: they speak of an active
session with the lock free, and a session becomes so by ten steps with the lock
held. `ServiceInv` carries them through the handlers:

* `SessionOK`: the members of a session are set and reset together, each step
  works for a session in the state it needs, a service that leaves has none;
* `RegistryNamesCaller`, as it stands;
* `ConsentOK`: what is true of an active session is true from the confirmation
  on, because a confirmation on its way was given;
* `ControlOK`: the controller is between two stages exactly in the control
  step, and activated from then on until the session is cleaned up;
* `KioskOK`: kiosk mode is the caller's, or the caller is dead, from the entry
  until an exit succeeded;
* `DeathOK`: notices speak of the dead. A caller that dies after its kiosk mode
  was admitted is reported by one notice that cannot be taken before the
  session is active, since the lock is held. A stub's notice about the
  current session is there only while it is active.

Each part is kept by every step (`SessionKept`, `RegistryKept`, ...: one step
per action, with the actions that touch none of the session's state gathered in
`QuietStep`). The three parts of `TypeOK` that need it and `HeardTypeOK` have a
lemma each. `EndReleasesKiosk` adds `ExitOK`: after a successful exit the
caller owns no kiosk mode or is dead, and only a dead caller's exit has the
reason `"died"`, which is where one process per application is needed.

The refinement `KeepsProtocol` reads a session's phase off the messages its stub
has received, so `SpeechInv` adds what those can be: nothing while the session
waits or is about to be announced, `onBegin(OK)` alone while it runs, and
afterwards a complete log or one cut short by the caller's death or the end of
the process (`LogsOK`). `StepKinds` sorts the 37 actions of
the service into nine kinds, by what they say to whom (`Asks`, `Announces`, `Refuses`,
`Ends`, `Vanishes` and those that say nothing); each of the nine is then one step
of the protocol or none.

The theorems of `DeviceStateProofs` name the failures they exclude, because each
of them is false with one of those failures. `PersistInv` says that a write that
is due has its occasion ahead. `KioskOwner` says that kiosk mode is off, a dead
process's, or the session's from the moment it is entered; `KioskKnown` weakens it
for crashes by the two ways out: the parameter tells the next start of it, or
the session that entered it is over and was never announced. That it is that
session, and no other, is `EntryIsCurrent`: between the entry and the write of
the parameter, which is when a crash leaves the next start without knowledge,
`entered` names the current session. `ResidueInv` says of every part of
the lockdown from which step on it can be in force and before which it is
taken back.

`NothingOverlooked` speaks of an activated controller; `EnvInv` says of every
condition, already while the checks go on, that once its check is past it either
does not hold, is `unattended`, or has a notice (`AllAccounted`). One lemma per
action of the code, of the device and of the calls keeps it; the part about
calls is `CallInv`, which the refinement carries over.

`ProxyIsWatched` needs `WatchInv`: a load number belongs to one thread
(`LoadsAreOwned`), a recipient to one load and one proxy (`RecipientsAreOwned`),
and for a cached proxy that did not stray there is a recipient whose notice has
not cleared the cache, or a thread that waits for it, fetches it or is about to
add a recipient (`ProxyFollowed`). `DeathToldOnce` is kept because
the callback is moved out of the client before it is called.

`DeathIsReal` follows from `NoticeInv`: a session on record was begun
(`RecordedWasBegun`), and while a session waits for its end on a living service,
the notices under way are older than it, so that it is in `overlapped` if its
record can be read (`NoticesAreOld`). `RecordIsArmed` is kept together with the
types and with the fact that the ANI bridge never has a record (`ArmedInv`).
`RecordEndsWithSession` needs the session that is about to be recorded as well:
it may be over before its `begin` has returned (`ReleaseInv`). `HeardInTurn`
follows from `TurnInv`: sessions are used one after the other, nothing is held
of one that was not begun, and the message, the queue and what was heard are in
the order of the sessions, the reports of deaths apart. What a dead service has
left with a thread is apart too: its session is over and will be spoken to no
more, and the message is in `belated` (`LateIsOver`). The bounds of the runs
play no part in these proofs.

`HeardAsSent` compares what a session has heard and is going to hear
(`Reached`: its calls, the queue, the message in hand and the one a dead service
has left, without the reports of deaths) with what the service has said to it (`Sayings`). It is not inductive:
when a word is lost, what remains must still fit once the session goes on, so
`Sound` adds that a session that lost something was answered, and has heard
nothing while it runs. `HearingInv` joins it to `TurnInv`, because a direct call
of ANI overtakes the queue unless the queue holds nothing of its session. Each
step then changes `Reached` in one of three ways, for which there are lemmas: a word is added at the end (`SendingAdds`), it moves from the message to
the queue or from the queue to the calls (`PostingKeeps`, `RunningKeeps`), or it
stays where it is (`NoticeKeeps`, `StillKeeps`). `Reached` is taken from a
sequence by `Selected`, a recursive function: that it returns the members of the
set, all of them, and takes two lists apart as it takes their concatenation
(`SelectedItems`, `SelectedOfConcat`), is proved by the least length of a
counterexample, for which the library's well-founded order on the naturals is
enough (`LeastNumber`).

`DeathOnItsWay` speaks of sessions that went down with their service; what will
tell them must have been there while they lived, so `RecordGuards` says the same
of sessions that wait or run: the record is theirs and armed, or their `begin`
has not returned. That an `end` or a task takes only a record whose owner needs
it no more, or puts the owner in `missed`, is what the other parts of `DeathInv`
are for: the `end` that waits was made (`EndIsMade`), the last words on their way
are true (`FinalsAreTrue`), and a death told by a task was heard (`TaskWasHeard`).
That a notice is due for an armed record follows at the death itself, from the
recipients the service had at that moment, or the session is `unwatched`.

`BridgeKeepsProtocol` closes the circle with `ServiceKeepsProtocol`: the bridges
are modelled against the protocol the real service implements, and they leave it
that protocol. The step to look at is `ServiceDies`, which drops every session at
once where the protocol drops one; there is at most one, by `PhasesInTurn`.

`RequestsAreSound` needs no step: it is about what the operators of
`BeginParameters` return. NAPI's set becomes a list by a bijection with its
cardinality (`ListOfSet`), ANI's list loses the first own name and gets it back at
the end (`ItemsWithoutFirst`).

**Only model-checked**: liveness under fairness (`TimeoutEnds`, `DeadCallerEnds`,
`ScreenEnds`, `PersistCatchesUp`, `DeadProxyDropped`, `DeathReported`,
`ServiceNotHeldUp`), which this prover does not do. Every invariant and every
action property of the passing runs is proved.

## 6. Not modelled

* Operations on AR models forward to a closed-source library.
* `AssessmentEventPublisher`: trace events nobody reads back.
* Permissions, device types, identifiers: queries that reject a call before it
  reaches any state.
* A wall clock that is set back (`DeadlinePasses` may come at any time, which
  covers one that is set forward), and the contents of the application list:
  input methods and the system applications that are always allowed.
* A failing recovery: `Start` has it, but the code promises nothing of it.
* In the bridges, the conversion of the answers of `getConfiguration` to
  objects of the language, the creation of errors and the binding of functions
  by name: data on its way, which no other part depends on. In the client
  library, the parameters and results of the requests.
* The event observer (`AssessmentEventManager`) only forwards, and `OnStart` of
  the ability only publishes: both are part of the actions they lead to.

## 7. Plan

Done, in this order: the controller; the service with sessions, dialogs and
ends; its failures; crash, restart and the persistent parameter; liveness;
incoming calls; the client library; the extension's missing symbols; the
environment checks with their windows; the parameters of `begin`; the two
language bridges; the proofs of section 5.

What is left, in the order of its worth:

1. The contents of the kiosk application list, which is built at the begin and
   again at the exit from the input method of that moment.
2. Under the liveness properties, the safety halves that are not stated yet: for
   `TimeoutEnds` that a passed deadline always finds the loop thread there to see
   it, for `ScreenEnds` that a notice outlives the handler it waits for
   (`DeadCallerEnds` and `DeathReported` have theirs: `DeadCallerNoticed` and
   `DeathOnItsWay`).
3. The AR models, if their library's behaviour is ever documented: their
   operations load and release a model and have no bearing on a session.
