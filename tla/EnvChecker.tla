------------------------------ MODULE EnvChecker ------------------------------
(***************************************************************************)
(* The checks of the environment before an assessment, composed with the   *)
(* process controller and the telephony observer that take over from them. *)
(*                                                                         *)
(* CheckAll asks one service after the other, and the device changes       *)
(* meanwhile.  What comes after its own check is noticed only if it is a   *)
(* call or a screen, once the controller has registered for it.  The       *)
(* variable unattended keeps account of what the code cannot know; the rest *)
(* must have been refused, or be on its way to be dealt with.              *)
(***************************************************************************)
EXTENDS Sequences, FiniteSets, IncomingCalls

CONSTANTS
    Screens,        \* the screens that may be connected
    BuiltIn,        \* those known to be built in
    MaxNotices      \* bound: OnConnect callbacks on their way

ASSUME EnvAssumption ==
    /\ IsFiniteSet(Screens) /\ BuiltIn \subseteq Screens
    /\ MaxNotices \in Nat \ {0}

VARIABLES
    device,         \* what kind of device it is, see Features
    check,          \* the check CheckAll makes next; 0 outside, Passed after it
    present,        \* the conditions of the device besides screens and calls
    screens,        \* the connected screens
    talking,        \* a call that was answered goes on
    screenNotices,  \* OnConnect callbacks that saw activated_ and wait for the service
    unattended      \* conditions that hold unknown to the code, or given up by it

envVars == <<device, check, present, screens, talking, screenNotices, unattended>>

Features == {"capture", "telephony", "2in1"}
Conditions == {"recording", "casting", "vm", "admin"}

Checks == <<"recording", "casting", "screens", "call", "vm", "admin">>
Passed == Len(Checks) + 1

\* CheckAll is past this check.
Past(c) == \E i \in 1..Len(Checks) : Checks[i] = c /\ i < check

\* What comes now is not noticed: until the controller has registered for it,
\* or, if it never does, to the end of the assessment.
InWindow(c) ==
    /\ Past(c)
    /\ c = "call" => ~activated \/ stage = "observer"
    /\ c = "screens" => ~activated \/ stage \in {"observer", "listener"}

EnvTypeOK ==
    /\ device \subseteq Features
    /\ check \in 0..Passed
    /\ present \subseteq Conditions /\ screens \subseteq Screens
    /\ talking \in BOOLEAN /\ screenNotices \in 0..MaxNotices
    /\ unattended \subseteq Conditions \cup {"screens", "call"}

EnvInit ==
    /\ CallInit
    /\ device \in SUBSET Features
    /\ check = 0 /\ present \in SUBSET Conditions /\ screens \in SUBSET Screens
    /\ talking \in BOOLEAN /\ screenNotices = 0 /\ unattended = {}

-----------------------------------------------------------------------------

\* A device without a screen of its own may have one external screen; a screen
\* that cannot say what it is counts as external.
IsMultiScreen(connected) == Cardinality(connected) > 1 /\ ~(connected \subseteq BuiltIn)

\* HasCall: a call that rings counts as well.
IsInCall == ringing \/ talking

Holds(c) ==
    CASE c = "screens"      -> IsMultiScreen(screens)
      [] c = "call"         -> IsInCall
      [] c \in Conditions   -> c \in present

\* A check the device, or the extension, has no means for passes.
CanSee(c) ==
    CASE c = "recording"    -> "capture" \in device
      [] c = "call"         -> "telephony" \in device
      [] c = "vm"           -> "2in1" \in device /\ "CheckAll" \in Resolved
      [] OTHER              -> TRUE

\* So does one whose service cannot be asked; these three can fail.
Query == [recording |-> "monitor", screens |-> "getAllScreens", admin |-> "getAdmins"]
MayFailOpen(c) == c \in DOMAIN Query /\ Query[c] \in MayFail

\* What the check of c may answer.
Answers(c) == {Holds(c) /\ CanSee(c)} \cup IF MayFailOpen(c) THEN {FALSE} ELSE {}

StartCheck ==
    /\ check = 0 /\ ~activated
    /\ check' = 1 /\ unattended' = {}
    /\ UNCHANGED <<device, allVars, present, screens, talking, screenNotices>>

\* The first anomaly ends CheckAll and the session is refused.
MakeCheck ==
    /\ check \in 1..Len(Checks)
    /\ LET c == Checks[check]
       IN  \/ /\ TRUE \in Answers(c)
              /\ check' = 0 /\ unattended' = {}
           \/ /\ FALSE \in Answers(c)
              /\ check' = check + 1
              /\ unattended' = IF Holds(c) THEN unattended \cup {c} ELSE unattended
    /\ UNCHANGED <<device, allVars, present, screens, talking, screenNotices>>

\* The account of what is unattended is kept for one assessment.
Kept(account) ==
    /\ check' = IF activated' THEN check ELSE 0
    /\ unattended' = IF activated' THEN account ELSE {}

\* The controller is activated after the last check; its end is the session's.
Control ==
    /\ \/ check = Passed /\ ~activated /\ Activate
       \/ RegisterScreenListener
       \/ ActivateExtension
       \/ stage = "idle" /\ activated /\ Deactivate
    /\ Kept(unattended)
    /\ UNCHANGED <<device, callVars, present, screens, talking, screenNotices>>

\* A new observer hears of the call that rings.
ControlCalls ==
    /\ ObserveCalls
    /\ Kept(IF told' > told /\ ~talking THEN unattended \ {"call"} ELSE unattended)
    /\ UNCHANGED <<device, present, screens, talking, screenNotices>>

\* ExitKioskMode lifts the power filters and leaves kiosk mode.
ExitMayFail == {"setPower", "exitKiosk"} \cap MayFail # {}

\* OnExternalScreenConnected waits until the handler that activates has
\* finished, asks for the screens again and interrupts the session.  EnvAnomaly
\* gives up if the exit fails: the session goes on with the screen.
OnExternalScreenConnected ==
    /\ screenNotices > 0 /\ stage = "idle" /\ check \in {0, Passed}
    /\ screenNotices' = screenNotices - 1
    /\ IF activated
         THEN \/ TRUE \in Answers("screens") /\ Deactivate /\ Kept({})
              \/ /\ FALSE \in Answers("screens") \/ ExitMayFail
                 /\ UNCHANGED <<controllerVars, check>>
                 /\ unattended' = IF Holds("screens") THEN unattended \cup {"screens"}
                                                      ELSE unattended
         ELSE UNCHANGED <<controllerVars, check, unattended>>
    /\ UNCHANGED <<device, callVars, present, screens, talking>>

-----------------------------------------------------------------------------
(* The device *)

ConditionComes(c) ==
    /\ c \notin present /\ present' = present \cup {c}
    /\ unattended' = IF InWindow(c) THEN unattended \cup {c} ELSE unattended
    /\ UNCHANGED <<device, allVars, check, screens, talking, screenNotices>>

ConditionGoes(c) ==
    /\ c \in present /\ present' = present \ {c}
    /\ unattended' = unattended \ {c}
    /\ UNCHANGED <<device, allVars, check, screens, talking, screenNotices>>

\* Mutant: the listener is armed only when the activation is complete.
NoticedMutant == screenListener /\ activated /\ stage = "idle"

\* OnConnect of the listener, which may be a leftover, looks at activated_.
Noticed == screenListener /\ activated

ScreenConnects(s) ==
    /\ s \notin screens /\ screens' = screens \cup {s}
    /\ Noticed => screenNotices < MaxNotices
    /\ screenNotices' = IF Noticed THEN screenNotices + 1 ELSE screenNotices
    /\ unattended' = IF InWindow("screens") /\ IsMultiScreen(screens')
                      THEN unattended \cup {"screens"} ELSE unattended
    /\ UNCHANGED <<device, allVars, check, present, talking>>

ScreenDisconnects(s) ==
    /\ s \in screens /\ screens' = screens \ {s}
    /\ unattended' = IF IsMultiScreen(screens') THEN unattended ELSE unattended \ {"screens"}
    /\ UNCHANGED <<device, allVars, check, present, talking, screenNotices>>

CallComes ==
    /\ CallRings
    /\ unattended' = IF InWindow("call") THEN unattended \cup {"call"} ELSE unattended
    /\ UNCHANGED <<device, check, present, screens, talking, screenNotices>>

\* The user is quicker than the rejection, and nobody ends an answered call.
CallAnswered ==
    /\ ringing /\ ~talking /\ talking' = TRUE
    /\ CallHangsUp
    /\ unattended' = IF told + rejecting > 0 THEN unattended \cup {"call"} ELSE unattended
    /\ UNCHANGED <<device, check, present, screens, screenNotices>>

CallEnds ==
    /\ \/ CallHangsUp /\ UNCHANGED talking
       \/ talking /\ talking' = FALSE /\ UNCHANGED allVars
    /\ unattended' = IF IsInCall' THEN unattended ELSE unattended \ {"call"}
    /\ UNCHANGED <<device, check, present, screens, screenNotices>>

CallHandled ==
    /\ OnCallStateUpdated \/ RejectCall
    /\ UNCHANGED <<device, check, present, screens, talking, screenNotices>>
    /\ unattended' = IF IsInCall' THEN unattended ELSE unattended \ {"call"}

EnvNext ==
    \/ StartCheck \/ MakeCheck
    \/ Control \/ ControlCalls \/ OnExternalScreenConnected
    \/ \E c \in Conditions : ConditionComes(c) \/ ConditionGoes(c)
    \/ \E s \in Screens : ScreenConnects(s) \/ ScreenDisconnects(s)
    \/ CallComes \/ CallAnswered \/ CallEnds \/ CallHandled

EnvSpec == EnvInit /\ [][EnvNext]_<<allVars, envVars>>

-----------------------------------------------------------------------------

\* During an assessment nothing holds of the device that it should have been
\* refused or interrupted for, unless it came after its check where nobody
\* listens (yet), no check could see it, the user was quicker than the
\* rejection of the call, or the exit that the screen led to failed: a call that
\* rings is about to be rejected, and a screen is about to end the session.
NothingOverlooked ==
    activated /\ stage = "idle" =>
        \A c \in Conditions \cup {"screens", "call"} : Holds(c) =>
            \/ c \in unattended
            \/ c = "screens" /\ screenNotices > 0
            \/ c = "call" /\ ~talking /\ told + rejecting > 0
=============================================================================
