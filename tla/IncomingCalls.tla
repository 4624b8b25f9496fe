---------------------------- MODULE IncomingCalls ----------------------------
(***************************************************************************)
(* The telephony observer and the process controller on their threads.     *)
(* The observer is registered with the request to be told the current call *)
(* state at once, so a call that already rings is not missed; it rejects   *)
(* the call that rings, but only if it finds the controller activated.     *)
(* The callbacks run on IPC threads: a call may be gone, and another one   *)
(* ring, before the callback of the first one gets to its rejection.       *)
(***************************************************************************)
EXTENDS Naturals, ProcessController

CONSTANT
    MaxCallbacks    \* bound: callbacks of the observer in progress

ASSUME CallAssumption == MaxCallbacks \in Nat \ {0}

VARIABLES
    ringing,    \* a call rings (telephony)
    told,       \* OnCallStateUpdated callbacks on their way
    rejecting   \* callbacks that saw activated_ and are about to reject

callVars == <<ringing, told, rejecting>>
allVars == <<controllerVars, callVars>>

CallTypeOK ==
    /\ ControllerTypeOK
    /\ ringing \in BOOLEAN
    /\ told \in 0..MaxCallbacks /\ rejecting \in 0..MaxCallbacks
    /\ told + rejecting <= MaxCallbacks

CallInit == ControllerInit /\ ringing = FALSE /\ told = 0 /\ rejecting = 0

\* The telephony service: a call comes in, or its caller hangs up.  The last
\* callback of the bound is kept for the registration of the observer.
CallRings ==
    /\ ~ringing /\ ringing' = TRUE
    /\ told + rejecting + 1 < MaxCallbacks
    /\ told' = IF callObserver THEN told + 1 ELSE told
    /\ UNCHANGED <<controllerVars, rejecting>>

CallHangsUp ==
    /\ ringing /\ ringing' = FALSE
    /\ UNCHANGED <<controllerVars, told, rejecting>>

OnCallStateUpdated ==
    /\ told > 0
    /\ told' = told - 1
    /\ rejecting' = IF activated THEN rejecting + 1 ELSE rejecting
    /\ UNCHANGED <<controllerVars, ringing>>

\* The answer of RejectCall is only logged: after a failure the call rings on.
RejectCall ==
    /\ rejecting > 0
    /\ rejecting' = rejecting - 1
    /\ ringing' \in {FALSE} \cup IF "rejectCall" \in MayFail THEN {ringing} ELSE {}
    /\ UNCHANGED <<controllerVars, told>>

\* Mutant: the observer is registered without asking for the current state.
ObserveCallsMutant == RegisterCallObserver /\ UNCHANGED callVars

\* AddStateObserver tells a new observer the current state of the call.
ObserveCalls ==
    /\ RegisterCallObserver
    /\ ringing /\ ~callObserver => told + rejecting < MaxCallbacks
    /\ told' = IF ringing /\ ~callObserver /\ callObserver' THEN told + 1 ELSE told
    /\ UNCHANGED <<ringing, rejecting>>

ControllerStep ==
    /\ \/ ~activated /\ Activate
       \/ RegisterScreenListener
       \/ ActivateExtension
       \/ stage = "idle" /\ Deactivate
    /\ UNCHANGED callVars

CallNext ==
    \/ CallRings \/ CallHangsUp \/ OnCallStateUpdated \/ RejectCall
    \/ ObserveCalls \/ ControllerStep

CallSpec == CallInit /\ [][CallNext]_allVars

-----------------------------------------------------------------------------

\* Once the observer stage is over, a call that rings is about to be rejected,
\* one that rang before the assessment as well as one that came in while it
\* was being set up (process_controller.cpp:111-113 sets the flag first for
\* this reason).  It needs a telephony service that does what it is asked to:
\* a leftover observer is not registered again and hears of no earlier call.
NoCallLetThrough ==
    activated /\ stage # "observer" /\ ringing => told + rejecting > 0
=============================================================================
