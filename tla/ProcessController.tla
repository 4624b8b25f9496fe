-------------------------- MODULE ProcessController --------------------------
(***************************************************************************)
(* The process controller of the assessment service: it locks the device   *)
(* down for an assessment (a telephony observer that rejects calls, a      *)
(* screen hotplug listener, the closed-source extension's restrictions)    *)
(* and lifts the lockdown again.                                           *)
(*                                                                         *)
(* Activate runs in three stages, each of which may fail and roll back the *)
(* stages before it.  A callback of another thread can run between two     *)
(* stages, so each stage is an action.  A rollback and Deactivate are one  *)
(* action each: both clear activated first, and a callback that finds it   *)
(* FALSE does nothing.                                                     *)
(***************************************************************************)

EXTENDS ExtensionLoader

CONSTANT
    MayFail         \* the external calls that may fail (any set of strings)

VARIABLES
    activated,      \* activated_
    stage,          \* how far Activate got; "idle" outside Activate
    callObserver,   \* callObserverRegistered_
    screenListener, \* screenListenerRegistered_
    extension       \* what the extension currently applies to the device

controllerVars == <<activated, stage, callObserver, screenListener, extension>>

Stages == {"idle", "observer", "listener", "extension"}
ExtensionStates == {"off", "partial", "full"}

ControllerTypeOK ==
    /\ activated \in BOOLEAN
    /\ stage \in Stages
    /\ callObserver \in BOOLEAN
    /\ screenListener \in BOOLEAN
    /\ extension \in ExtensionStates

ControllerInit ==
    /\ activated = FALSE
    /\ stage = "idle"
    /\ callObserver = FALSE
    /\ screenListener = FALSE
    /\ extension = "off"

\* Values a registration flag can have once its removal was tried: the flag
\* is cleared only when the external removal succeeds.
Removed(flag, removal) == {FALSE} \cup IF removal \in MayFail THEN {flag} ELSE {}

\* Values of extension once DeactivateAll was called in one of the states
\* applied: the extension restores as much as it can; a library without this
\* entry point restores nothing.
Restored(applied) ==
    IF "DeactivateAll" \in Resolved
      THEN {"off"} \cup IF "deactivateAll" \in MayFail THEN {"partial"} ELSE {}
      ELSE applied

-----------------------------------------------------------------------------

\* The flag is set before anything is registered, so that a callback that
\* fires during the activation already sees it.
Activate ==
    /\ stage = "idle"
    /\ activated' = TRUE
    /\ stage' = "observer"
    /\ UNCHANGED <<callObserver, screenListener, extension>>

\* Undo the completed stages, best effort.
RollbackActivate(done) ==
    /\ activated' = FALSE
    /\ stage' = "idle"
    /\ callObserver' \in IF "observer" \in done
                           THEN Removed(callObserver, "removeObserver") ELSE {callObserver}
    /\ screenListener' \in IF "listener" \in done
                             THEN Removed(screenListener, "removeListener") ELSE {screenListener}
    /\ extension' \in IF "extension" \in done
                        THEN Restored({extension, "partial"}) ELSE {extension}

\* A flag left over from an earlier assessment counts as registered.
RegisterCallObserver ==
    /\ stage = "observer"
    /\ \/ /\ callObserver' = TRUE
          /\ stage' = "listener"
          /\ UNCHANGED <<activated, screenListener, extension>>
       \/ /\ ~callObserver
          /\ "addObserver" \in MayFail
          /\ RollbackActivate({})

\* Mutant: a listener that cannot be registered is done without.
RegisterScreenListenerMutant ==
    /\ stage = "listener"
    /\ screenListener' \in {TRUE} \cup IF "addListener" \in MayFail THEN {FALSE} ELSE {}
    /\ stage' = "extension"
    /\ UNCHANGED <<activated, callObserver, extension>>

RegisterScreenListener ==
    /\ stage = "listener"
    /\ \/ /\ screenListener' = TRUE
          /\ stage' = "extension"
          /\ UNCHANGED <<activated, callObserver, extension>>
       \/ /\ ~screenListener
          /\ "addListener" \in MayFail
          /\ RollbackActivate({"observer"})

\* The extension's own undo is scheduled before it is called: ActivateAll may
\* have applied a part of its restrictions by the time it reports a failure.
ActivateExtension ==
    /\ stage = "extension"
    /\ \/ /\ extension' = IF "ActivateAll" \in Resolved THEN "full" ELSE extension
          /\ stage' = "idle"
          /\ UNCHANGED <<activated, callObserver, screenListener>>
       \/ /\ "ActivateAll" \in Resolved
          /\ "activateAll" \in MayFail
          /\ RollbackActivate({"observer", "listener", "extension"})

\* A stage of Activate, whichever is next.
ActivateStage == RegisterCallObserver \/ RegisterScreenListener \/ ActivateExtension

\* No-op unless activated.  Every removal is tried once; a failure is logged.
Deactivate ==
    IF activated
      THEN /\ activated' = FALSE
           /\ screenListener' \in Removed(screenListener, "removeListener")
           /\ callObserver' \in Removed(callObserver, "removeObserver")
           /\ extension' \in Restored({extension})
           /\ UNCHANGED stage
      ELSE UNCHANGED controllerVars

\* The service activates only a controller that is not activated.
ControllerNext ==
    \/ ~activated /\ Activate
    \/ ActivateStage
    \/ stage = "idle" /\ Deactivate

ControllerSpec == ControllerInit /\ [][ControllerNext]_controllerVars

-----------------------------------------------------------------------------

\* What an active assessment relies on: a controller that is activated and
\* past its last stage applies every restriction, whatever failed before.
LockdownComplete ==
    activated /\ stage = "idle" =>
        /\ callObserver
        /\ screenListener
        /\ "ActivateAll" \in Resolved => extension = "full"
=============================================================================
