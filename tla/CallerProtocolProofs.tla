------------------------- MODULE CallerProtocolProofs -------------------------
(***************************************************************************)
(* The proof that AssessmentService implements CallerProtocol.             *)
(*                                                                         *)
(* A caller's phase is read off the messages its stub has received, so the *)
(* invariant says which messages those can be while the session waits, is  *)
(* about to be announced, runs and is over.  Every step of the service is  *)
(* then of one of a few kinds, and each kind is a step of the protocol.    *)
(***************************************************************************)
EXTENDS AssessmentServiceProofs, SequenceTheorems

Refusals == {"begin.SYSTEM_ERROR", "begin.USER_CANCEL", "begin.ENV_ANOMALY"}
Endings == {"end", "interrupted.TIMEOUT", "interrupted.ENV_ANOMALY"}

\* Sequences of up to two messages are equal only message by message.
LEMMA LogsDiffer ==
    ASSUME NEW a, NEW b, NEW c, NEW d
    PROVE  /\ <<>> # <<a>> /\ <<>> # <<a, b>> /\ <<a>> # <<b, c>>
           /\ <<a>> = <<b>> => a = b
           /\ <<a, b>> = <<c, d>> => a = c /\ b = d
           /\ Append(<<>>, a) = <<a>> /\ Append(<<a>>, b) = <<a, b>>
<1>1. <<>> # <<a>> /\ <<>> # <<a, b>> /\ <<a>> # <<b, c>>
  <2>1. Len(<<>>) = 0 /\ Len(<<a>>) = 1 /\ Len(<<a, b>>) = 2 /\ Len(<<b, c>>) = 2
    OBVIOUS
  <2>2. QED
    BY <2>1
<1>2. <<a>> = <<b>> => a = b
  <2>1. <<a>>[1] = a /\ <<b>>[1] = b
    OBVIOUS
  <2>2. QED
    BY <2>1, Zenon
<1>3. <<a, b>> = <<c, d>> => a = c /\ b = d
  <2>1. <<a, b>>[1] = a /\ <<a, b>>[2] = b /\ <<c, d>>[1] = c /\ <<c, d>>[2] = d
    OBVIOUS
  <2>2. QED
    BY <2>1, Zenon
<1>4. Append(<<>>, a) = <<a>> /\ Append(<<a>>, b) = <<a, b>>
  <2>1. <<>> \in Seq({a, b}) /\ <<a>> \in Seq({a, b}) /\ <<a, b>> \in Seq({a, b})
    OBVIOUS
  <2>2. /\ Append(<<>>, a) \in Seq({a, b}) /\ Len(Append(<<>>, a)) = 1
        /\ Append(<<>>, a)[1] = a
    BY <2>1
  <2>3. /\ Append(<<a>>, b) \in Seq({a, b}) /\ Len(Append(<<a>>, b)) = 2
        /\ Append(<<a>>, b)[1] = a /\ Append(<<a>>, b)[2] = b
    BY <2>1
  <2>4. Append(<<>>, a) = <<a>>
    BY <2>1, <2>2, SeqEqual
  <2>5. Append(<<a>>, b) = <<a, b>>
    <3>1. Len(<<a, b>>) = 2 /\ \A i \in 1..2 : Append(<<a>>, b)[i] = <<a, b>>[i]
      BY <2>3
    <3>2. QED
      BY <2>1, <2>3, <3>1, SeqEqual, Zenon
  <2>6. QED
    BY <2>4, <2>5
<1>5. QED
  BY <1>1, <1>2, <1>3, <1>4

\* The phase of every log the code can have written.
LEMMA PhaseValues ==
    ASSUME NEW s, NEW current
    PROVE  /\ s = current => PhaseAfter(<<>>, s, current) = "asked"
           /\ s # current => PhaseAfter(<<>>, s, current) = "dropped"
           /\ s = current => PhaseAfter(<<"begin.OK">>, s, current) = "running"
           /\ s # current => PhaseAfter(<<"begin.OK">>, s, current) = "dropped"
           /\ \A m \in Refusals : PhaseAfter(<<m>>, s, current) = "refused"
           /\ PhaseAfter(<<"begin.OK", "end">>, s, current) = "ended"
           /\ \A m \in Endings : m # "end" => PhaseAfter(<<"begin.OK", m>>, s, current) = "interrupted"
<1>1. s = current => PhaseAfter(<<>>, s, current) = "asked"
  BY Zenon, LogsDiffer DEF PhaseAfter
<1>2. s # current => PhaseAfter(<<>>, s, current) = "dropped"
  BY Zenon, LogsDiffer DEF PhaseAfter
<1>3. s = current => PhaseAfter(<<"begin.OK">>, s, current) = "running"
  BY Zenon, LogsDiffer DEF PhaseAfter
<1>4. s # current => PhaseAfter(<<"begin.OK">>, s, current) = "dropped"
  BY Zenon, LogsDiffer DEF PhaseAfter
<1>5. \A m \in Refusals : PhaseAfter(<<m>>, s, current) = "refused"
  BY Zenon, LogsDiffer DEF PhaseAfter, Refusals
<1>6. PhaseAfter(<<"begin.OK", "end">>, s, current) = "ended"
  BY Zenon, LogsDiffer DEF PhaseAfter
<1>7. \A m \in Endings : m # "end" => PhaseAfter(<<"begin.OK", m>>, s, current) = "interrupted"
  BY Zenon, LogsDiffer DEF PhaseAfter, Endings
<1>8. QED
  BY <1>1, <1>2, <1>3, <1>4, <1>5, <1>6, <1>7
\* A log the code can have written.
Logs == {<<>>, <<"begin.OK">>} \cup {<<m>> : m \in Refusals}
                              \cup {<<"begin.OK", m>> : m \in Endings}

\* The current session was told nothing before it is announced, and that it
\* began from then on; sessions to come were told nothing at all.
LogsOK ==
    /\ \A s \in Sessions : heard[s] \in Logs
    /\ \A s \in Sessions : s > sessions => heard[s] = <<>>
    /\ callback # 0 =>
         /\ \/ heard[callback] = <<>>
            \/ heard[callback] = <<"begin.OK">> /\ isActive /\ step # "announce"
         /\ isActive /\ step # "announce" /\ callerToken \notin dead =>
              heard[callback] = <<"begin.OK">>

\* An exit remembers which of the four ends it belongs to.
ReasonOK == step \in ExitSteps => why \in {"end", "timeout", "anomaly", "died"}

SpeechInv == ServiceInv /\ ExitOK /\ LogsOK /\ ReasonOK

\* The frames and guards are expanded throughout.
USE DEF HandlerFrame, Untouched, Continue, StartExit, LiftPower, TakeAnswer,
    CleanupCurrentSession, ProcessGone, LockFree, EndAccepted, AnswerCounts,
    DialogErrorCounts, AnomalyConfirmed, Due, NobodyThere, AfterExit, EndsAnyway,
    sessionVars, loopVars, kioskVars, stateVars, dialogVars, deathVars, screenVars,
    ancoVars, countVars, deviceVars, worldVars, controllerVars, vars

-----------------------------------------------------------------------------

\* The kinds of step, by what they say to the callers.

\* Nothing is said, and the session is where it was.
Silent ==
    /\ UNCHANGED <<heard, callback, callerToken, sessions, isActive, dead>>
    /\ running' = "down" <=> running = "down"
    /\ step' = "announce" <=> step = "announce"

Asks ==
    /\ running # "down" /\ running' # "down"
    /\ ~isActive /\ ~isActive' /\ UNCHANGED dead
    /\ sessions < MaxSessions /\ sessions' = sessions + 1 /\ callback' = sessions'
    /\ heard' = IF callerToken # NoToken THEN Told(callerToken, "begin.SYSTEM_ERROR") ELSE heard

Saves ==
    /\ ~isActive /\ isActive' /\ step' = "announce"
    /\ UNCHANGED <<heard, callback, callerToken, sessions, dead, running>>

Announces ==
    /\ isActive /\ step = "announce" /\ step' # "announce" /\ callerToken # NoToken
    /\ heard' = Told(callerToken, "begin.OK")
    /\ UNCHANGED <<isActive, callback, callerToken, sessions, dead, running>>

\* The session is over, and its caller was told one of these messages.
Over(messages) ==
    /\ callerToken # NoToken /\ callerToken' = NoToken /\ callback' = 0 /\ ~isActive'
    /\ UNCHANGED <<sessions, dead, running>>
    /\ \/ \E m \in messages : heard' = Told(callerToken, m)
       \/ heard' = heard /\ callerToken \in dead

Refuses == ~isActive /\ Over(Refusals)
Ends == isActive /\ step # "announce" /\ Over(Endings)

Dies ==
    /\ dead \subseteq dead'
    /\ UNCHANGED <<heard, callback, callerToken, sessions, isActive, step, running>>

Vanishes ==
    /\ running' = "down" /\ callback' = 0 /\ callerToken' = NoToken /\ ~isActive'
    /\ UNCHANGED <<heard, sessions, dead>>

\* A start, which may fail.
Starts ==
    /\ callback = 0 /\ ~isActive
    /\ UNCHANGED <<heard, callback, callerToken, sessions, isActive, dead>>

Kind == Silent \/ Asks \/ Saves \/ Announces \/ Refuses \/ Ends \/ Dies \/ Vanishes \/ Starts

\* Every step of the service is of one of these kinds.
LEMMA StepKinds ==
    ASSUME SpeechInv, [Next]_vars
    PROVE  Kind
<1> USE ServiceAssumption DEF Kind, SessionOK, ReasonOK, ExitOK, Entering, CheckSteps, ExitSteps
<1>0. SessionTypeOK /\ SessionOK /\ ReasonOK /\ ExitOK
  BY DEF SpeechInv, ServiceInv, TypeOK
<1>1. CASE QuietStep
  BY <1>0, <1>1, QuietStepsAreQuiet DEF Quiet, Silent
<1>2. CASE EnvChecked
  BY <1>0, <1>2 DEF EnvChecked, Silent
<1>3. CASE EnvCheckFailed
  BY <1>0, <1>3 DEF EnvCheckFailed, Silent
<1>4. CASE ActivateControl
  BY <1>0, <1>4 DEF ActivateControl, Silent
<1>5. CASE RestrictAncoApp
  BY <1>0, <1>5 DEF RestrictAncoApp, Silent
<1>6. CASE RestrictPower
  BY <1>0, <1>6 DEF RestrictPower, Silent
<1>7. CASE AddKioskApplicationList
  BY <1>0, <1>7 DEF AddKioskApplicationList, Silent
<1>8. CASE EnterKioskMode
  BY <1>0, <1>8 DEF EnterKioskMode, Silent
<1>9. CASE SaveSession
  BY <1>0, <1>9 DEF SaveSession, Saves
<1>10. CASE AnnounceSession
  BY <1>0, <1>10 DEF AnnounceSession, Announces
<1>11. CASE RefuseSession
  BY <1>0, <1>11 DEF RefuseSession, Refuses, Over, Refusals
<1>12. CASE LiftPowerOk
  BY <1>0, <1>12 DEF LiftPowerOk, Silent
<1>13. CASE LiftPowerFailed
  BY <1>0, <1>13 DEF LiftPowerFailed, Silent
<1>14. CASE ExitKioskModeOk
  BY <1>0, <1>14 DEF ExitKioskModeOk, Silent
<1>15. CASE ExitKioskModeFailed
  BY <1>0, <1>15 DEF ExitKioskModeFailed, Silent
<1>16. CASE FinishSession
  BY <1>0, <1>16 DEF FinishSession, Ends, Over, Endings, Farewell
<1>17. CASE KeepSession
  BY <1>0, <1>17 DEF KeepSession, Silent
<1>18. CASE AccountIdleTime
  BY <1>0, <1>18 DEF AccountIdleTime, Silent
<1>19. CASE LoopWakes
  BY <1>0, <1>19 DEF LoopWakes, Silent
<1>20. ASSUME NEW t \in Tokens, Begin(t)
      PROVE  Kind
  <2>1. TurnAway = IF callerToken # NoToken THEN Told(callerToken, "begin.SYSTEM_ERROR") ELSE heard
    BY <1>0, <1>20 DEF Begin, TurnAway, SessionTypeOK
  <2>2. QED
    BY <1>0, <1>20, <2>1 DEF Begin, Asks
<1>21. ASSUME NEW t \in Tokens, End(t)
      PROVE  Kind
  BY <1>0, <1>21 DEF End, Silent
<1>22. ASSUME NEW s \in Sessions, ConfirmBegin(s)
      PROVE  Kind
  BY <1>0, <1>22 DEF ConfirmBegin, Silent
<1>23. ASSUME NEW s \in Sessions, CancelBegin(s)
      PROVE  Kind
  BY <1>0, <1>23 DEF CancelBegin, Refuses, Over, Refusals
<1>24. ASSUME NEW s \in Sessions, BeginDialogSystemError(s)
      PROVE  Kind
  <2>1. CASE DialogErrorCounts(s) /\ callerToken # NoToken
    BY <1>0, <1>24, <2>1 DEF BeginDialogSystemError, Refuses, Over, Refusals
  <2>2. CASE DialogErrorCounts(s) /\ callerToken = NoToken
    <3>1. Told(callerToken, "begin.SYSTEM_ERROR") = heard
      BY <2>2 DEF Told
    <3>2. /\ heard' = heard /\ callback' = 0 /\ callerToken' = NoToken /\ isActive' = FALSE
          /\ UNCHANGED <<sessions, dead, running, step>>
      BY <1>24, <2>2, <3>1 DEF BeginDialogSystemError
    <3>3. callback = 0 /\ isActive = FALSE
      BY <1>0, <2>2 DEF SessionTypeOK
    <3>4. QED
      BY <2>2, <3>2, <3>3 DEF Silent
  <2>3. CASE ~DialogErrorCounts(s)
    BY <1>0, <1>24, <2>3 DEF BeginDialogSystemError, Silent
  <2>4. QED
    BY <2>1, <2>2, <2>3
<1>25. ASSUME NEW s \in Sessions, NEW o \in {"CONFIRM", "CANCEL"}, UserAnswers(s, o)
      PROVE  Kind
  BY <1>0, <1>25 DEF UserAnswers, Silent
<1>26. ASSUME NEW s \in Sessions, NEW o \in {"CONFIRM", "CANCEL"}, AnswerIgnored(s, o)
      PROVE  Kind
  BY <1>0, <1>26 DEF AnswerIgnored, Silent
<1>27. ASSUME NEW t \in Tokens, AppDieHandle(AppOf[t])
      PROVE  Kind
  BY <1>0, <1>27 DEF AppDieHandle, Silent
<1>28. ASSUME NEW s \in Sessions, OnRemoteDied(s)
      PROVE  Kind
  BY <1>0, <1>28 DEF OnRemoteDied, Silent
<1>29. CASE OnExternalScreenConnected
  BY <1>0, <1>29 DEF OnExternalScreenConnected, Silent
<1>30. CASE EnvAnomaly
  BY <1>0, <1>30 DEF EnvAnomaly, Silent
<1>31. CASE AncoStateChangeCallback
  BY <1>0, <1>31 DEF AncoStateChangeCallback, Silent
<1>32. CASE DeadlinePasses
  BY <1>0, <1>32 DEF DeadlinePasses, Silent
<1>33. CASE KioskOwnerGone
  BY <1>0, <1>33 DEF KioskOwnerGone, Silent
<1>34. ASSUME NEW t \in Tokens, AppDies(t)
      PROVE  Kind
  BY <1>0, <1>34 DEF AppDies, Dies
<1>35. CASE Destroy
  BY <1>0, <1>35 DEF Destroy, Vanishes
<1>36. CASE Crash
  BY <1>0, <1>36 DEF Crash, Vanishes
<1>37. CASE Start
  BY <1>0, <1>37 DEF Start, Starts
<1>38. QED
  BY <1>1, <1>2, <1>3, <1>4, <1>5, <1>6, <1>7, <1>8, <1>9, <1>10, <1>11, <1>12,
     <1>13, <1>14, <1>15, <1>16, <1>17, <1>18, <1>19, <1>20, <1>21, <1>22, <1>23,
     <1>24, <1>25, <1>26, <1>27, <1>28, <1>29, <1>30, <1>31, <1>32, <1>33, <1>34,
     <1>35, <1>36, <1>37
     DEF Next, HandlerStep, Request, Dialog, Notice, Environment, Lifecycle, QuietStep

\* No step takes up an exit without a reason.
LEMMA ReasonKept ==
    ASSUME SpeechInv, [Next]_vars
    PROVE  ReasonOK'
<1> USE DEF ReasonOK, CheckSteps, ExitSteps
<1>0. ReasonOK
  BY DEF SpeechInv
<1>1. CASE QuietStep
  BY <1>0, <1>1, QuietStepsAreQuiet DEF Quiet
<1>2. CASE EnvChecked
  BY <1>0, <1>2 DEF EnvChecked
<1>3. CASE EnvCheckFailed
  BY <1>0, <1>3 DEF EnvCheckFailed
<1>4. CASE ActivateControl
  BY <1>0, <1>4 DEF ActivateControl
<1>5. CASE RestrictAncoApp
  BY <1>0, <1>5 DEF RestrictAncoApp
<1>6. CASE RestrictPower
  BY <1>0, <1>6 DEF RestrictPower
<1>7. CASE AddKioskApplicationList
  BY <1>0, <1>7 DEF AddKioskApplicationList
<1>8. CASE EnterKioskMode
  BY <1>0, <1>8 DEF EnterKioskMode
<1>9. CASE SaveSession
  BY <1>0, <1>9 DEF SaveSession
<1>10. CASE AnnounceSession
  BY <1>0, <1>10 DEF AnnounceSession
<1>11. CASE RefuseSession
  BY <1>0, <1>11 DEF RefuseSession
<1>12. CASE LiftPowerOk
  BY <1>0, <1>12 DEF LiftPowerOk
<1>13. CASE LiftPowerFailed
  BY <1>0, <1>13 DEF LiftPowerFailed
<1>14. CASE ExitKioskModeOk
  BY <1>0, <1>14 DEF ExitKioskModeOk
<1>15. CASE ExitKioskModeFailed
  BY <1>0, <1>15 DEF ExitKioskModeFailed
<1>16. CASE FinishSession
  BY <1>0, <1>16 DEF FinishSession
<1>17. CASE KeepSession
  BY <1>0, <1>17 DEF KeepSession
<1>18. CASE AccountIdleTime
  BY <1>0, <1>18 DEF AccountIdleTime
<1>19. CASE LoopWakes
  BY <1>0, <1>19 DEF LoopWakes
<1>20. ASSUME NEW t \in Tokens, Begin(t)
      PROVE  ReasonOK'
  BY <1>0, <1>20 DEF Begin
<1>21. ASSUME NEW t \in Tokens, End(t)
      PROVE  ReasonOK'
  BY <1>0, <1>21 DEF End
<1>22. ASSUME NEW s \in Sessions, ConfirmBegin(s)
      PROVE  ReasonOK'
  BY <1>0, <1>22 DEF ConfirmBegin
<1>23. ASSUME NEW s \in Sessions, CancelBegin(s)
      PROVE  ReasonOK'
  BY <1>0, <1>23 DEF CancelBegin
<1>24. ASSUME NEW s \in Sessions, BeginDialogSystemError(s)
      PROVE  ReasonOK'
  BY <1>0, <1>24 DEF BeginDialogSystemError
<1>25. ASSUME NEW s \in Sessions, NEW o \in {"CONFIRM", "CANCEL"}, UserAnswers(s, o)
      PROVE  ReasonOK'
  BY <1>0, <1>25 DEF UserAnswers
<1>26. ASSUME NEW s \in Sessions, NEW o \in {"CONFIRM", "CANCEL"}, AnswerIgnored(s, o)
      PROVE  ReasonOK'
  BY <1>0, <1>26 DEF AnswerIgnored
<1>27. ASSUME NEW t \in Tokens, AppDieHandle(AppOf[t])
      PROVE  ReasonOK'
  BY <1>0, <1>27 DEF AppDieHandle
<1>28. ASSUME NEW s \in Sessions, OnRemoteDied(s)
      PROVE  ReasonOK'
  BY <1>0, <1>28 DEF OnRemoteDied
<1>29. CASE OnExternalScreenConnected
  BY <1>0, <1>29 DEF OnExternalScreenConnected
<1>30. CASE EnvAnomaly
  BY <1>0, <1>30 DEF EnvAnomaly
<1>31. CASE AncoStateChangeCallback
  BY <1>0, <1>31 DEF AncoStateChangeCallback
<1>32. CASE DeadlinePasses
  BY <1>0, <1>32 DEF DeadlinePasses
<1>33. CASE KioskOwnerGone
  BY <1>0, <1>33 DEF KioskOwnerGone
<1>34. ASSUME NEW t \in Tokens, AppDies(t)
      PROVE  ReasonOK'
  BY <1>0, <1>34 DEF AppDies
<1>35. CASE Destroy
  BY <1>0, <1>35 DEF Destroy
<1>36. CASE Crash
  BY <1>0, <1>36 DEF Crash
<1>37. CASE Start
  BY <1>0, <1>37 DEF Start
<1>38. QED
  BY <1>1, <1>2, <1>3, <1>4, <1>5, <1>6, <1>7, <1>8, <1>9, <1>10, <1>11, <1>12,
     <1>13, <1>14, <1>15, <1>16, <1>17, <1>18, <1>19, <1>20, <1>21, <1>22, <1>23,
     <1>24, <1>25, <1>26, <1>27, <1>28, <1>29, <1>30, <1>31, <1>32, <1>33, <1>34,
     <1>35, <1>36, <1>37
     DEF Next, HandlerStep, Request, Dialog, Notice, Environment, Lifecycle, QuietStep

-----------------------------------------------------------------------------

\* A message reaches the stub of the current session and no other, and nobody
\* when the caller is dead.
LEMMA ToldIs ==
    ASSUME ServiceInv, callerToken # NoToken, NEW m
    PROVE  /\ callback \in Sessions /\ callback = ticket /\ callback <= sessions
           /\ Told(callerToken, m) = IF callerToken \in dead THEN heard
                                     ELSE [heard EXCEPT ![callback] = Append(heard[callback], m)]
<1>1. callerToken \in Tokens /\ callback # 0 /\ callback = ticket
  BY DEF ServiceInv, TypeOK, SessionTypeOK, SessionOK
<1>2. callback \in Sessions /\ callback <= sessions
  BY <1>1, ServiceAssumption DEF ServiceInv, TypeOK, SessionTypeOK, SessionOK, Sessions
<1>3. callbacks[callerToken] = callback
  BY <1>1, Zenon DEF ServiceInv, RegistryNamesCaller
<1>4. CASE callerToken \in dead
  BY <1>1, <1>2, <1>4 DEF Told
<1>5. CASE callerToken \notin dead
  BY <1>1, <1>2, <1>3, <1>5, Zenon DEF Told
<1>6. QED
  BY <1>4, <1>5

\* What a message adds to the log of a session that waits, or that runs, is a
\* log the code can have written.
LEMMA LogsGrow ==
    /\ <<>> \in Logs /\ Append(<<>>, "begin.OK") \in Logs
    /\ \A m \in Refusals : Append(<<>>, m) \in Logs
    /\ \A m \in Endings : Append(<<"begin.OK">>, m) \in Logs
<1>1. <<>> \in Logs /\ <<"begin.OK">> \in Logs
  BY Zenon DEF Logs
<1>2. \A m \in Refusals : <<m>> \in Logs
  BY Zenon DEF Logs
<1>3. \A m \in Endings : <<"begin.OK", m>> \in Logs
  BY Zenon DEF Logs
<1>4. \A m : Append(<<>>, m) = <<m>> /\ Append(<<"begin.OK">>, m) = <<"begin.OK", m>>
  BY LogsDiffer, Zenon
<1>5. QED
  BY <1>1, <1>2, <1>3, <1>4, Zenon

\* The log of the current session, as LogsOK has it.
LEMMA CurrentLog ==
    ASSUME SpeechInv, callerToken # NoToken
    PROVE  /\ callback \in Sessions
           /\ ~isActive \/ step = "announce" => heard[callback] = <<>>
           /\ isActive /\ step # "announce" /\ callerToken \notin dead =>
                heard[callback] = <<"begin.OK">>
           /\ heard[callback] \in {<<>>, <<"begin.OK">>}
           /\ heard[callback] = <<"begin.OK">> => isActive
           /\ heard \in [Sessions -> Seq(Messages)] /\ sessions \in Nat
<1>1. callback \in Sessions /\ callback # 0
  BY ToldIs DEF SpeechInv, Sessions
<1>2. heard \in [Sessions -> Seq(Messages)] /\ sessions \in Nat
  BY ServiceAssumption DEF SpeechInv, ServiceInv, TypeOK, HeardTypeOK, SessionTypeOK
<1>3. <<>> # <<"begin.OK">>
  BY LogsDiffer, Zenon
<1>4. QED
  BY <1>1, <1>2, <1>3 DEF SpeechInv, LogsOK

\* Every kind of step keeps the logs what LogsOK says of them.
LEMMA LogsKept ==
    ASSUME SpeechInv, Kind
    PROVE  LogsOK'
<1> USE DEF LogsOK
<1>0. LogsOK /\ heard \in [Sessions -> Seq(Messages)] /\ sessions \in Nat
  BY ServiceAssumption DEF SpeechInv, ServiceInv, TypeOK, HeardTypeOK, SessionTypeOK
<1>a. callback = 0 <=> callerToken = NoToken
  BY DEF SpeechInv, ServiceInv, SessionOK
<1>b. callback # 0 => callback \in Sessions /\ callback <= sessions
  BY <1>a, ToldIs DEF SpeechInv
<1>1. CASE Silent
  BY <1>0, <1>1 DEF Silent
<1>2. CASE Asks
  <2>1. heard' \in [Sessions -> Logs] /\ \A s \in Sessions : s # callback => heard'[s] = heard[s]
    <3>1. CASE callerToken = NoToken \/ callerToken \in dead
      BY <1>0, <1>2, <3>1, ToldIs DEF Asks, SpeechInv
    <3>2. CASE callerToken # NoToken /\ callerToken \notin dead
      <4>1. heard' = [heard EXCEPT ![callback] = Append(<<>>, "begin.SYSTEM_ERROR")]
        BY <1>2, <3>2, ToldIs, CurrentLog DEF Asks, SpeechInv
      <4>2. Append(<<>>, "begin.SYSTEM_ERROR") \in Logs
        BY LogsGrow DEF Refusals
      <4>3. QED
        BY <1>0, <4>1, <4>2
    <3>3. QED
      BY <3>1, <3>2
  <2>2. sessions' \in Sessions /\ sessions' > sessions /\ sessions' # callback
    BY <1>0, <1>2, <1>b, ServiceAssumption DEF Asks, Sessions
  <2>3. heard'[sessions'] = <<>> /\ callback' = sessions' /\ isActive' = FALSE
    BY <1>0, <1>2, <2>1, <2>2 DEF Asks
  <2>4. \A s \in Sessions : s > sessions' => heard'[s] = <<>>
    BY <1>0, <1>2, <1>b, <2>1 DEF Asks, Sessions
  <2>5. \A s \in Sessions : heard'[s] \in Logs
    BY <2>1
  <2>6. QED
    BY <2>3, <2>4, <2>5
<1>3. CASE Saves
  BY <1>0, <1>3 DEF Saves
<1>4. CASE Announces
  <2>1. heard[callback] = <<>> /\ callback \in Sessions
    BY <1>4, CurrentLog DEF Announces
  <2>2. CASE callerToken \in dead
    BY <1>0, <1>4, <2>1, <2>2, ToldIs DEF Announces, SpeechInv
  <2>3. CASE callerToken \notin dead
    <3>1. heard' = [heard EXCEPT ![callback] = <<"begin.OK">>]
      BY <1>4, <2>1, <2>3, ToldIs, LogsDiffer DEF Announces, SpeechInv
    <3>2. <<"begin.OK">> \in Logs
      BY Zenon DEF Logs
    <3>3. \A s \in Sessions : heard'[s] = IF s = callback THEN <<"begin.OK">> ELSE heard[s]
      BY <1>0, <3>1
    <3>4. UNCHANGED <<callback, callerToken, sessions, dead, isActive>>
          /\ isActive /\ step' # "announce" /\ callback <= sessions
      BY <1>4, <1>b, <2>1 DEF Announces, Sessions
    <3>5. (\A s \in Sessions : heard[s] \in Logs) /\ \A s \in Sessions : s > sessions => heard[s] = <<>>
      BY <1>0
    <3>6. \A s \in Sessions : heard'[s] \in Logs
      BY <3>2, <3>3, <3>5
    <3>7. \A s \in Sessions : s > sessions' => heard'[s] = <<>>
      BY <1>0, <3>3, <3>4, <3>5 DEF Sessions
    <3>8. QED
      BY <2>1, <3>3, <3>4, <3>6, <3>7
  <2>4. QED
    BY <2>2, <2>3
<1>5. ASSUME Refuses \/ Ends
      PROVE  LogsOK'
  <2>1. /\ callback' = 0 /\ sessions' = sessions /\ callback \in Sessions
        /\ callback <= sessions
    BY <1>5, <1>a, <1>b DEF Refuses, Ends, Over
  <2>2. CASE heard' = heard
    BY <1>0, <2>1, <2>2
  <2>3. CASE heard' # heard
    <3>1. PICK log \in Logs : heard' = [heard EXCEPT ![callback] = log]
      <4>1. CASE Refuses
        BY <2>3, <4>1, ToldIs, CurrentLog, LogsGrow DEF Refuses, Over, SpeechInv
      <4>2. CASE Ends
        BY <2>3, <4>2, ToldIs, CurrentLog, LogsGrow DEF Ends, Over, SpeechInv
      <4>3. QED
        BY <1>5, <4>1, <4>2
    <3>2. \A s \in Sessions : heard'[s] = IF s = callback THEN log ELSE heard[s]
      BY <1>0, <3>1
    <3>3. \A s \in Sessions : heard'[s] \in Logs
      BY <1>0, <3>2
    <3>4. \A s \in Sessions : s > sessions' => heard'[s] = <<>>
      BY <1>0, <2>1, <3>2 DEF Sessions
    <3>5. QED
      BY <2>1, <3>3, <3>4
  <2>4. QED
    BY <2>2, <2>3
<1>6. CASE Dies
  BY <1>0, <1>6 DEF Dies
<1>7. CASE Vanishes
  BY <1>0, <1>7 DEF Vanishes
<1>8. CASE Starts
  BY <1>0, <1>8 DEF Starts
<1>9. QED
  BY <1>1, <1>2, <1>3, <1>4, <1>5, <1>6, <1>7, <1>8 DEF Kind

-----------------------------------------------------------------------------

\* The phases a session does not leave any more.
OverPhases == {"refused", "ended", "interrupted", "dropped"}

\* A session the service does not work for is over, whichever it works for.
LEMMA PhaseOver ==
    ASSUME NEW log \in Logs, NEW s, NEW c, NEW d, s # c, s # d
    PROVE  PhaseAfter(log, s, c) = PhaseAfter(log, s, d) /\ PhaseAfter(log, s, c) \in OverPhases
<1>1. CASE log = <<>>
  <2>1. PhaseAfter(log, s, c) = "dropped" /\ PhaseAfter(log, s, d) = "dropped"
    BY <1>1, PhaseValues
  <2>2. QED
    BY <2>1 DEF OverPhases
<1>2. CASE log = <<"begin.OK">>
  <2>1. PhaseAfter(log, s, c) = "dropped" /\ PhaseAfter(log, s, d) = "dropped"
    BY <1>2, PhaseValues
  <2>2. QED
    BY <2>1 DEF OverPhases
<1>3. ASSUME NEW m \in Refusals, log = <<m>>
      PROVE  PhaseAfter(log, s, c) = PhaseAfter(log, s, d) /\ PhaseAfter(log, s, c) \in OverPhases
  <2>1. PhaseAfter(log, s, c) = "refused" /\ PhaseAfter(log, s, d) = "refused"
    BY <1>3, PhaseValues
  <2>2. QED
    BY <2>1 DEF OverPhases
<1>4. ASSUME NEW m \in Endings, log = <<"begin.OK", m>>
      PROVE  PhaseAfter(log, s, c) = PhaseAfter(log, s, d) /\ PhaseAfter(log, s, c) \in OverPhases
  <2>1. CASE m = "end"
    <3>1. PhaseAfter(log, s, c) = "ended" /\ PhaseAfter(log, s, d) = "ended"
      BY <1>4, <2>1, PhaseValues
    <3>2. QED
      BY <3>1 DEF OverPhases
  <2>2. CASE m # "end"
    <3>1. PhaseAfter(log, s, c) = "interrupted" /\ PhaseAfter(log, s, d) = "interrupted"
      BY <1>4, <2>2, PhaseValues DEF Endings
    <3>2. QED
      BY <3>1 DEF OverPhases
  <2>3. QED
    BY <2>1, <2>2
<1>5. QED
  BY <1>1, <1>2, <1>3, <1>4 DEF Logs

\* The phases of all sessions, as the invariant has them.
LEMMA PhasesNow ==
    ASSUME SpeechInv, NEW s \in Sessions
    PROVE  /\ s > sessions => PhaseOf(s) = "unused"
           /\ s <= sessions /\ s # callback => PhaseOf(s) \in OverPhases
           /\ s = callback /\ heard[s] = <<>> => PhaseOf(s) = "asked"
           /\ s = callback /\ heard[s] = <<"begin.OK">> => PhaseOf(s) = "running"
           /\ s = callback => PhaseOf(s) \in {"asked", "running"}
           /\ PhaseOf(s) = "running" => isActive /\ s = callback
<1>0. s \in Nat /\ s # 0 /\ sessions \in Nat /\ heard[s] \in Logs
  BY ServiceAssumption DEF SpeechInv, ServiceInv, TypeOK, SessionTypeOK, LogsOK, Sessions
<1>1. s = callback => callerToken # NoToken /\ callback <= sessions
  BY <1>0, ToldIs DEF SpeechInv, ServiceInv, SessionOK
<1>2. s > sessions => PhaseOf(s) = "unused"
  BY Zenon DEF PhaseOf
<1>3. s <= sessions => ~(s > sessions)
  BY <1>0
<1>4. ~(s > sessions) => PhaseOf(s) = PhaseAfter(heard[s], s, callback)
  BY Zenon DEF PhaseOf
<1>5. s # callback => PhaseAfter(heard[s], s, callback) \in OverPhases
  BY <1>0, PhaseOver
<1>6. s = callback => heard[s] = <<>> \/ (heard[s] = <<"begin.OK">> /\ isActive)
  <2>1. LogsOK
    BY DEF SpeechInv
  <2>2. QED
    BY <1>0, <2>1, Zenon DEF LogsOK
<1>7. /\ s = callback /\ heard[s] = <<>> => PhaseAfter(heard[s], s, callback) = "asked"
      /\ s = callback /\ heard[s] = <<"begin.OK">> => PhaseAfter(heard[s], s, callback) = "running"
  BY PhaseValues
<1>8. QED
  BY <1>0, <1>1, <1>2, <1>3, <1>4, <1>5, <1>6, <1>7 DEF OverPhases

\* A session nothing is said to, and that stays or does not become the one the
\* service works for, keeps its phase.
LEMMA SamePhase ==
    ASSUME SpeechInv, NEW s \in Sessions, heard'[s] = heard[s],
           s = callback <=> s = callback', s > sessions <=> s > sessions'
    PROVE  PhaseOf(s)' = PhaseOf(s)
<1>0. heard[s] \in Logs
  BY DEF SpeechInv, LogsOK
<1>1. PhaseAfter(heard[s], s, callback') = PhaseAfter(heard[s], s, callback)
  <2>1. CASE s = callback
    BY <2>1, Zenon
  <2>2. CASE s # callback
    BY <1>0, <2>2, PhaseOver
  <2>3. QED
    BY <2>1, <2>2
<1>2. PhaseOf(s)' = IF s > sessions' THEN "unused" ELSE PhaseAfter(heard'[s], s, callback')
  BY Zenon DEF PhaseOf, PhaseAfter
<1>3. PhaseOf(s) = IF s > sessions THEN "unused" ELSE PhaseAfter(heard[s], s, callback)
  BY Zenon DEF PhaseOf
<1>4. QED
  BY <1>1, <1>2, <1>3

\* The protocol's step of one session.
LEMMA BecomesIs ==
    ASSUME NEW s \in Sessions, NEW from, NEW to, PhaseOf(s) \in from, PhaseOf(s)' = to,
           \A o \in Sessions : o # s => PhaseOf(o)' = PhaseOf(o)
    PROVE  Protocol!Becomes(s, from, to)
BY DEF Protocol!Becomes, Sessions


\* A step that says nothing and keeps the session changes no phase.
LEMMA NoPhaseChanges ==
    ASSUME SpeechInv, UNCHANGED <<heard, callback, sessions>>
    PROVE  Protocol!ProtocolNext
<1>1. \A s \in Sessions : PhaseOf(s)' = PhaseOf(s)
  BY SamePhase
<1>2. QED
  BY <1>1 DEF Protocol!ProtocolNext

\* The phases after a step that gives the current session a new log.
LEMMA CallbackStep ==
    ASSUME SpeechInv, callerToken # NoToken, NEW log \in Logs, NEW s \in Sessions, s = callback,
           heard' = [heard EXCEPT ![callback] = log], callback' \in {0, callback}, UNCHANGED sessions
    PROVE  /\ \A o \in Sessions : o # s => PhaseOf(o)' = PhaseOf(o)
           /\ PhaseOf(s)' = PhaseAfter(log, s, callback')
<1>0. /\ s <= sessions /\ 0 \notin Sessions
      /\ heard \in [Sessions -> Seq(Messages)] /\ sessions \in Nat /\ s \in Nat
  BY ToldIs, CurrentLog DEF SpeechInv, Sessions
<1>1. ASSUME NEW o \in Sessions, o # s
      PROVE  PhaseOf(o)' = PhaseOf(o)
  <2>1. heard'[o] = heard[o] /\ o # callback'
    BY <1>0, <1>1
  <2>2. QED
    BY <1>1, <2>1, SamePhase
<1>2. heard'[s] = log
  BY <1>0
<1>3. PhaseOf(s)' = IF s > sessions' THEN "unused" ELSE PhaseAfter(heard'[s], s, callback')
  BY DEF PhaseOf, PhaseAfter
<1>4. QED
  BY <1>0, <1>1, <1>2, <1>3

\* The session the service works for is dropped only when its caller is dead or
\* the service goes away, and counts as dropped then.
LEMMA DropStep ==
    ASSUME SpeechInv, callerToken # NoToken, callback' = 0, UNCHANGED <<heard, sessions>>,
           callerToken \in dead \/ running' = "down"
    PROVE  Protocol!ProtocolNext
<1>1. PICK s \in Sessions : s = callback
  BY ToldIs DEF SpeechInv
<1>2. heard[s] \in {<<>>, <<"begin.OK">>} /\ heard[s] \in Logs /\ 0 \notin Sessions
  BY <1>1, CurrentLog DEF SpeechInv, LogsOK, Sessions
<1>3. heard' = [heard EXCEPT ![callback] = heard[s]]
  BY <1>1, CurrentLog
<1>4. /\ \A o \in Sessions : o # s => PhaseOf(o)' = PhaseOf(o)
      /\ PhaseOf(s)' = PhaseAfter(heard[s], s, 0)
  BY <1>1, <1>2, <1>3, CallbackStep
<1>5. PhaseAfter(heard[s], s, 0) = "dropped"
  BY <1>1, <1>2, PhaseValues
<1>6. PhaseOf(s) \in Protocol!Waiting
  BY <1>1, PhasesNow DEF Protocol!Waiting
<1>7. Protocol!Becomes(s, Protocol!Waiting, "dropped")
  BY <1>4, <1>5, <1>6, BecomesIs
<1>8. Protocol!MayDrop(s)
  BY <1>1 DEF Protocol!MayDrop
<1>9. QED
  BY <1>7, <1>8 DEF Protocol!ProtocolNext, Protocol!Drop, Protocol!Session, Sessions

\* A session that waits is refused.
LEMMA RefuseStep ==
    ASSUME SpeechInv, Refuses
    PROVE  Protocol!ProtocolNext
<1>1. PICK s \in Sessions : s = callback
  BY ToldIs DEF SpeechInv, Refuses, Over
<1>2. CASE callerToken \in dead
  <2>1. heard' = heard
    BY <1>2, ToldIs DEF SpeechInv, Refuses, Over
  <2>2. QED
    BY <1>2, <2>1, DropStep DEF Refuses, Over
<1>3. CASE callerToken \notin dead
  <2>1. PICK m \in Refusals : heard' = Told(callerToken, m)
    BY <1>3 DEF Refuses, Over
  <2>2. heard[s] = <<>>
    BY <1>1, CurrentLog DEF Refuses, Over
  <2>3. heard' = [heard EXCEPT ![callback] = <<m>>]
    BY <1>1, <1>3, <2>1, <2>2, ToldIs, LogsDiffer DEF SpeechInv, Refuses, Over
  <2>4. <<m>> \in Logs
    BY DEF Logs
  <2>5. /\ \A o \in Sessions : o # s => PhaseOf(o)' = PhaseOf(o)
        /\ PhaseOf(s)' = PhaseAfter(<<m>>, s, 0)
    BY <1>1, <2>3, <2>4, CallbackStep DEF Refuses, Over
  <2>6. PhaseOf(s)' = "refused" /\ PhaseOf(s) = "asked"
    BY <1>1, <2>1, <2>2, <2>5, PhaseValues, PhasesNow DEF Refusals
  <2>7. Protocol!Refuse(s)
    BY <2>5, <2>6, BecomesIs DEF Protocol!Refuse
  <2>8. QED
    BY <2>7 DEF Protocol!ProtocolNext, Protocol!Session, Sessions
<1>4. QED
  BY <1>2, <1>3

\* A session that runs is over.
LEMMA EndStep ==
    ASSUME SpeechInv, Ends
    PROVE  Protocol!ProtocolNext
<1>1. PICK s \in Sessions : s = callback
  BY ToldIs DEF SpeechInv, Ends, Over
<1>2. CASE callerToken \in dead
  <2>1. heard' = heard
    BY <1>2, ToldIs DEF SpeechInv, Ends, Over
  <2>2. QED
    BY <1>2, <2>1, DropStep DEF Ends, Over
<1>3. CASE callerToken \notin dead
  <2>1. PICK m \in Endings : heard' = Told(callerToken, m)
    BY <1>3 DEF Ends, Over
  <2>2. heard[s] = <<"begin.OK">>
    BY <1>1, <1>3, CurrentLog DEF Ends, Over
  <2>3. heard' = [heard EXCEPT ![callback] = <<"begin.OK", m>>]
    BY <1>1, <1>3, <2>1, <2>2, ToldIs, LogsDiffer DEF SpeechInv, Ends, Over
  <2>4. <<"begin.OK", m>> \in Logs
    BY DEF Logs
  <2>5. /\ \A o \in Sessions : o # s => PhaseOf(o)' = PhaseOf(o)
        /\ PhaseOf(s)' = PhaseAfter(<<"begin.OK", m>>, s, 0)
    BY <1>1, <2>3, <2>4, CallbackStep DEF Ends, Over
  <2>6. PhaseOf(s)' \in {"ended", "interrupted"} /\ PhaseOf(s) = "running"
    BY <1>1, <2>2, <2>5, PhaseValues, PhasesNow DEF Endings
  <2>7. Protocol!Finish(s)
    BY <2>5, <2>6, BecomesIs DEF Protocol!Finish
  <2>8. QED
    BY <2>7 DEF Protocol!ProtocolNext, Protocol!Session, Sessions
<1>4. QED
  BY <1>2, <1>3

\* The caller of a session that waits is told that it runs.
LEMMA AcceptStep ==
    ASSUME SpeechInv, Announces
    PROVE  Protocol!ProtocolNext
<1>1. PICK s \in Sessions : s = callback
  BY ToldIs DEF SpeechInv, Announces
<1>2. CASE callerToken \in dead
  <2>1. heard' = heard
    BY <1>2, ToldIs DEF SpeechInv, Announces
  <2>2. QED
    BY <2>1, NoPhaseChanges DEF Announces
<1>3. CASE callerToken \notin dead
  <2>1. heard[s] = <<>>
    BY <1>1, CurrentLog DEF Announces
  <2>2. heard' = [heard EXCEPT ![callback] = <<"begin.OK">>]
    BY <1>1, <1>3, <2>1, ToldIs, LogsDiffer DEF SpeechInv, Announces
  <2>3. <<"begin.OK">> \in Logs
    BY DEF Logs
  <2>4. /\ \A o \in Sessions : o # s => PhaseOf(o)' = PhaseOf(o)
        /\ PhaseOf(s)' = PhaseAfter(<<"begin.OK">>, s, callback)
    BY <1>1, <2>2, <2>3, CallbackStep DEF Announces
  <2>5. PhaseOf(s)' = "running" /\ PhaseOf(s) = "asked"
    BY <1>1, <2>1, <2>4, PhaseValues, PhasesNow
  <2>6. \A o \in Sessions : PhaseOf(o) # "running"
    BY <1>1, <2>5, PhasesNow
  <2>7. Protocol!Accept(s)
    BY <2>4, <2>5, <2>6, BecomesIs DEF Protocol!Accept, Protocol!Session, Sessions
  <2>8. QED
    BY <2>7 DEF Protocol!ProtocolNext, Protocol!Session, Sessions
<1>4. QED
  BY <1>2, <1>3

\* A new session is asked for, in the place of one that waits.
LEMMA AskStep ==
    ASSUME SpeechInv, Asks
    PROVE  Protocol!ProtocolNext
<1> DEFINE word == [o \in Sessions |-> IF o = callback /\ callerToken \in dead THEN "dropped" ELSE "refused"]
<1>1. PICK n \in Sessions : n = sessions + 1
  BY ServiceAssumption DEF SpeechInv, ServiceInv, TypeOK, SessionTypeOK, Asks, Sessions
<1>2. /\ sessions \in Nat /\ callback \in Nat /\ 0 \notin Sessions /\ Sessions \subseteq Nat
      /\ heard \in [Sessions -> Seq(Messages)]
      /\ callback = 0 <=> callerToken = NoToken
  BY ServiceAssumption DEF SpeechInv, ServiceInv, TypeOK, SessionTypeOK, HeardTypeOK, SessionOK, Sessions
<1>3. callerToken # NoToken => callback \in Sessions /\ callback <= sessions /\ heard[callback] = <<>>
  BY ToldIs, CurrentLog DEF SpeechInv, Asks
<1>4. n > sessions /\ n # callback /\ callback' = n /\ sessions' = n
  BY <1>1, <1>2, <1>3 DEF Asks
<1>5. heard' = IF callerToken # NoToken /\ callerToken \notin dead
                 THEN [heard EXCEPT ![callback] = <<"begin.SYSTEM_ERROR">>] ELSE heard
  <2>1. Append(<<>>, "begin.SYSTEM_ERROR") = <<"begin.SYSTEM_ERROR">>
    BY LogsDiffer
  <2>2. CASE callerToken = NoToken \/ callerToken \in dead
    BY <2>2, ToldIs DEF SpeechInv, Asks
  <2>3. CASE callerToken # NoToken /\ callerToken \notin dead
    BY <1>3, <2>1, <2>3, ToldIs DEF SpeechInv, Asks
  <2>4. QED
    BY <2>2, <2>3
<1>6. PhaseOf(n) = "unused" /\ PhaseOf(n)' = "asked"
  <2>1. heard'[n] = <<>>
    BY <1>1, <1>4, <1>2, <1>5 DEF SpeechInv, LogsOK
  <2>2. PhaseOf(n)' = IF n > sessions' THEN "unused" ELSE PhaseAfter(heard'[n], n, callback')
    BY DEF PhaseOf, PhaseAfter
  <2>3. PhaseAfter(<<>>, n, n) = "asked"
    BY PhaseValues
  <2>4. QED
    BY <1>1, <1>2, <1>4, <2>1, <2>2, <2>3, PhasesNow
<1>7. ASSUME NEW o \in Sessions, o # n, o # callback
      PROVE  PhaseOf(o)' = PhaseOf(o) /\ PhaseOf(o) \notin {"asked", "running"}
  <2>1. heard'[o] = heard[o] /\ o # callback' /\ (o > sessions <=> o > sessions')
    BY <1>1, <1>2, <1>4, <1>5, <1>7
  <2>2. PhaseOf(o)' = PhaseOf(o)
    BY <1>7, <2>1, SamePhase
  <2>3. o > sessions \/ o <= sessions
    BY <1>2
  <2>4. QED
    BY <1>7, <2>2, <2>3, PhasesNow DEF OverPhases
<1>8. ASSUME NEW o \in Sessions, o = callback
      PROVE  PhaseOf(o) = "asked" /\ PhaseOf(o)' = word[o]
  <2>1. callerToken # NoToken /\ o # callback' /\ ~(o > sessions')
    BY <1>1, <1>2, <1>3, <1>4, <1>8
  <2>2. PhaseOf(o)' = IF o > sessions' THEN "unused" ELSE PhaseAfter(heard'[o], o, callback')
    BY DEF PhaseOf, PhaseAfter
  <2>3. heard'[o] = IF callerToken \in dead THEN <<>> ELSE <<"begin.SYSTEM_ERROR">>
    BY <1>2, <1>3, <1>5, <1>8, <2>1
  <2>4. /\ PhaseAfter(<<>>, o, callback') = "dropped"
        /\ PhaseAfter(<<"begin.SYSTEM_ERROR">>, o, callback') = "refused"
    BY <2>1, PhaseValues DEF Refusals
  <2>5. PhaseOf(o) = "asked"
    BY <1>3, <1>8, <2>1, PhasesNow
  <2>6. QED
    BY <1>8, <2>1, <2>2, <2>3, <2>4, <2>5
<1>9. Protocol!Ask(n)
  <2>1. \A o \in Sessions : PhaseOf(o) # "running"
    BY <1>6, <1>7, <1>8
  <2>2. word \in [Sessions -> {"refused", "dropped"}]
    OBVIOUS
  <2>3. \A o \in Sessions : word[o] = "dropped" => Protocol!MayDrop(o)
    BY DEF Protocol!MayDrop
  <2>4. \A o \in Sessions : PhaseOf(o)' = CASE o = n -> "asked"
                                            [] PhaseOf(o) = "asked" -> word[o]
                                            [] OTHER -> PhaseOf(o)
    BY <1>6, <1>7, <1>8
  <2>5. running # "down"
    BY DEF Asks
  <2>6. QED
    BY <1>1, <1>6, <2>1, <2>2, <2>3, <2>4, <2>5 DEF Protocol!Ask, Protocol!Session, Sessions
<1>10. QED
  BY <1>1, <1>9 DEF Protocol!ProtocolNext, Protocol!Session, Sessions

\* The process goes away, and with it the session it may have had.
LEMMA VanishStep ==
    ASSUME SpeechInv, Vanishes
    PROVE  Protocol!ProtocolNext
<1>1. CASE callerToken = NoToken
  <2>1. callback = 0
    BY <1>1 DEF SpeechInv, ServiceInv, SessionOK
  <2>2. QED
    BY <2>1, NoPhaseChanges DEF Vanishes
<1>2. CASE callerToken # NoToken
  BY <1>2, DropStep DEF Vanishes
<1>3. QED
  BY <1>1, <1>2

\* Every step is one the protocol allows, or says nothing to anybody.
LEMMA KindIsProtocol ==
    ASSUME SpeechInv, Kind
    PROVE  Protocol!ProtocolNext
<1>1. CASE Silent \/ Saves \/ Dies \/ Starts
  BY <1>1, NoPhaseChanges DEF Silent, Saves, Dies, Starts
<1>2. QED
  BY <1>1, AskStep, AcceptStep, RefuseStep, EndStep, VanishStep DEF Kind

\* A fresh service has said nothing.
LEMMA InitMakesSpeechInv == Init => SpeechInv
<1> SUFFICES ASSUME Init PROVE SpeechInv
  OBVIOUS
<1>1. ServiceInv
  BY InitMakesServiceInv
<1>2. ExitOK /\ ReasonOK
  BY DEF Init, ExitOK, ReasonOK, ExitSteps
<1>3. LogsOK
  BY LogsGrow, Zenon DEF Init, LogsOK
<1>4. QED
  BY <1>1, <1>2, <1>3 DEF SpeechInv

\* With one process to an application the logs are always as LogsOK has them.
LEMMA SpeechInvHolds ==
    ASSUME OneProcess
    PROVE  Spec => []SpeechInv
<1>1. SpeechInv /\ [Next]_vars => SpeechInv'
  BY ServiceInvKept, ExitKept, StepKinds, LogsKept, ReasonKept DEF SpeechInv
<1>2. QED
  BY <1>1, InitMakesSpeechInv, PTL DEF Spec

\* The sessions are given their messages as the protocol has it: one onBegin,
\* after a success one onEnd or one onInterrupted, one session at a time, and
\* silence only for a dead caller or a service that is gone.
THEOREM ServiceKeepsProtocol ==
    ASSUME OneProcess
    PROVE  Spec => KeepsProtocol
<1>1. Init => Protocol!ProtocolInit
  <2> SUFFICES ASSUME Init PROVE Protocol!ProtocolInit
    OBVIOUS
  <2>1. \A s \in Sessions : PhaseOf(s) = "unused"
    BY DEF Init, PhaseOf, Sessions
  <2>2. \A s \in Sessions : s # callback
    BY DEF Init, Sessions
  <2>3. running # "down"
    BY DEF Init
  <2>4. QED
    BY <2>1, <2>2, <2>3 DEF Protocol!ProtocolInit, Protocol!Session, Sessions
<1>2. SpeechInv /\ [Next]_vars => [Protocol!ProtocolNext]_Protocol!protocolVars
  BY StepKinds, KindIsProtocol
<1>3. QED
  BY <1>1, <1>2, SpeechInvHolds, PTL DEF Spec, KeepsProtocol, Protocol!ProtocolSpec
=============================================================================
