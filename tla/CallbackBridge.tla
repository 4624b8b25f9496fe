---------------------------- MODULE CallbackBridge ----------------------------
(***************************************************************************)
(* From the service's callbacks to the functions of the application: the   *)
(* two language bridges of one application process.                        *)
(*                                                                         *)
(* The service sends one synchronous message at a time, with its locks     *)
(* held; an IPC thread of the application takes it.  NAPI posts everything *)
(* to the main thread.  ANI calls onBegin and onEnd on the IPC thread and  *)
(* posts onInterrupted.  The main thread runs posted tasks one by one and  *)
(* the application's own requests, also from within a callback.  With NAPI *)
(* the library also remembers one callback (gActiveCallback) to tell when  *)
(* the service dies; that comes as onInterrupted, here the word "died".    *)
(*                                                                         *)
(* The service is the one of CallerProtocol, which AssessmentService is    *)
(* shown to implement; the client library between is AssessmentClient.     *)
(***************************************************************************)
EXTENDS CallerProtocol, BeginParameters

VARIABLES
    bridge,     \* the bridge the application uses
    \* the IPC thread
    message,    \* the message it works on, while the service waits
    inside,     \* it runs application code, perhaps stuck in a call to the service
    late,       \* what threads hold that took a message of a service now dead
    \* the main thread
    queue,      \* the tasks posted to it
    task,       \* the callback it is in
    call,       \* the request it waits for: a begin, an end, a query, or one whose answer is lost
    \* the library's record for the service's death
    active,     \* gActiveCallback, the session it belongs to
    armed,      \* SaDiedCallback_ is set
    watching,   \* death recipients this application added to the running service
    due,        \* death notices that have dropped the proxy
    reading,    \* death notices that have moved SaDiedCallback_ out
    \* what happened
    heard,      \* the calls each session's functions received
    lost,       \* sessions with a message the IPC thread could not hand on
    belated,    \* messages whose service died before they were handed on
    unwatched,  \* sessions whose service died without a recipient
    missed,     \* sessions whose record was dropped by another one's, or came too late
    overlapped  \* sessions recorded while a death notice was under way

lateVars == <<late, belated>>
ipcVars == <<message, inside, lateVars>>
mainVars == <<queue, task, call>>
recordVars == <<active, armed>>
watchVars == <<watching, unwatched>>
deathVars == <<watchVars, due, reading>>
historyVars == <<lost, missed, overlapped>>
bridgeVars == <<protocolVars, bridge, ipcVars, mainVars, recordVars, deathVars, heard, historyVars>>

NoSession == 0
Words == {"ok", "refused", "interrupted", "ended", "died"}
Message == [what : Words, of : Session]
NoMessage == [what |-> "none", of |-> NoSession]
NoCall == [at |-> "none", of |-> NoSession]

BridgeTypeOK ==
    /\ phase \in [Session -> Phases] /\ excused = {} /\ serving \in BOOLEAN
    /\ bridge \in Bridges
    /\ message \in Message \cup {NoMessage} /\ inside \in {"no", "app", "stuck"}
    /\ queue \in Seq(Message) /\ task \in Message \cup {NoMessage}
    /\ call \in [at : {"begin", "end", "lost"}, of : Session] \cup
               [at : {"query", "lost"}, of : {NoSession}] \cup {NoCall}
    /\ active \in Session \cup {NoSession} /\ armed \in BOOLEAN
    /\ watching \in Nat /\ due \in Nat /\ reading \in Nat
    /\ late \in [Session -> Words \cup {"none"}] /\ belated \subseteq Message
    /\ heard \in [Session -> Seq(Words)] /\ unwatched \subseteq Session
    /\ lost \subseteq Session /\ missed \subseteq Session /\ overlapped \subseteq Session

BridgeInit ==
    /\ ProtocolInit
    /\ bridge \in Bridges
    /\ message = NoMessage /\ inside = "no"
    /\ late = [s \in Session |-> "none"] /\ belated = {}
    /\ queue = <<>> /\ task = NoMessage /\ call = NoCall
    /\ active = NoSession /\ armed = FALSE
    /\ watching = 0 /\ unwatched = {} /\ due = 0 /\ reading = 0
    /\ heard = [s \in Session |-> <<>>]
    /\ lost = {} /\ missed = {} /\ overlapped = {}

Word(what, s) == [what |-> what, of |-> s]

\* One of the functions of a session is called.
Calls(m) == heard' = [heard EXCEPT ![m.of] = Append(@, m.what)]

-----------------------------------------------------------------------------
(* The service, and its requests to the IPC thread *)

LockIsFree == serving /\ message = NoMessage

Sends(what, s) == LockIsFree /\ message' = Word(what, s)

\* The IPC thread has the message and has done nothing with it yet.
Pending == message # NoMessage /\ inside = "no"

ServiceFrame ==
    UNCHANGED <<excused, serving, bridge, inside, lateVars, mainVars, recordVars, deathVars, heard,
                historyVars>>

ServiceAccepts(s) == Accept(s) /\ Sends("ok", s) /\ ServiceFrame
ServiceRefuses(s) == Refuse(s) /\ Sends("refused", s) /\ ServiceFrame
ServiceInterrupts(s) == Becomes(s, {"running"}, "interrupted") /\ Sends("interrupted", s) /\ ServiceFrame

\* The application's main thread waits for an answer that cannot have come yet:
\* the handler is still occupied with what it has to say first.
Unanswered == message # NoMessage /\ (call.at = "end" \/ message.of # call.of)

\* It crashes, or unloads itself when it is idle.  A session it had is gone; a
\* message that was sent is handed on all the same.
ServiceDies ==
    /\ serving /\ serving' = FALSE
    /\ phase' = [s \in Session |-> IF phase[s] \in Waiting THEN "dropped" ELSE phase[s]]
    /\ unwatched' = IF watching = 0 THEN unwatched \cup {s \in Session : phase[s] \in Waiting}
                                    ELSE unwatched
    /\ due' = due + watching /\ watching' = 0
    /\ late' = IF Pending THEN [late EXCEPT ![message.of] = message.what] ELSE late
    /\ belated' = IF Pending THEN belated \cup {message} ELSE belated
    /\ message' = NoMessage /\ inside' = "no"
    /\ call' \in {[call EXCEPT !.at = "lost"]} \cup IF Unanswered THEN {} ELSE {call}
    /\ call = NoCall => call' = NoCall
    /\ UNCHANGED <<excused, bridge, queue, task, recordVars, reading, heard, historyVars>>

ServiceStarts ==
    /\ ~serving /\ serving' = TRUE
    /\ UNCHANGED <<phase, excused, bridge, ipcVars, mainVars, recordVars, deathVars, heard, historyVars>>

-----------------------------------------------------------------------------
(* The IPC thread *)

\* Mutant: NAPI calls onBegin at once, as ANI does.
CalledDirectlyMutant(what) == what \in {"ok", "refused"} \/ (bridge = "ani" /\ what = "ended")

CalledDirectly(what) == bridge = "ani" /\ what # "interrupted"

\* Mutant: the task is put in front of those that wait.
PostedMutant(m) == <<m>> \o queue

Posted(m) == Append(queue, m)

\* Mutant: the IPC thread waits until the main thread has time for the task.
PostTaskMutant ==
    /\ message # NoMessage /\ inside = "no" /\ ~CalledDirectly(message.what)
    /\ task = NoMessage /\ call = NoCall
    /\ queue' = Posted(message) /\ message' = NoMessage
    /\ UNCHANGED <<protocolVars, bridge, inside, lateVars, task, call, recordVars, deathVars, heard,
                   historyVars>>

\* OnRemoteRequest of NAPI, and onInterrupted of ANI: the reply goes out at once.
PostTask ==
    /\ message # NoMessage /\ inside = "no" /\ ~CalledDirectly(message.what)
    /\ queue' = Posted(message) /\ message' = NoMessage
    /\ UNCHANGED <<protocolVars, bridge, inside, lateVars, task, call, recordVars, deathVars, heard,
                   historyVars>>

\* CallJsOnBegin and CallJsOnEnd of ANI: an IPC thread that is not attached to
\* the virtual machine gets no environment, and the message is dropped.
CallDirectly ==
    /\ message # NoMessage /\ inside = "no" /\ CalledDirectly(message.what)
    /\ \/ /\ inside' = "app" /\ Calls(message)
          /\ UNCHANGED <<message, lost>>
       \/ /\ message' = NoMessage /\ lost' = lost \cup {message.of}
          /\ UNCHANGED <<inside, heard>>
    /\ UNCHANGED <<protocolVars, bridge, lateVars, mainVars, recordVars, deathVars, missed, overlapped>>

DirectCallReturns ==
    /\ inside = "app"
    /\ inside' = "no" /\ message' = NoMessage
    /\ UNCHANGED <<protocolVars, bridge, lateVars, mainVars, recordVars, deathVars, heard, historyVars>>

\* The application's function asks the service something; the service holds
\* the lock that the answer needs until the function returns.
DirectCallReenters ==
    /\ inside = "app" /\ serving
    /\ inside' = "stuck"
    /\ UNCHANGED <<protocolVars, bridge, message, lateVars, mainVars, recordVars, deathVars, heard,
                   historyVars>>

\* A thread that took a message of a service now dead comes to the same point,
\* which may be when the next service has spoken.
HandOnLate(s) ==
    /\ late[s] # "none" /\ late' = [late EXCEPT ![s] = "none"]
    /\ IF CalledDirectly(late[s])
         THEN /\ \/ Calls(Word(late[s], s)) /\ UNCHANGED lost
                 \/ lost' = lost \cup {s} /\ UNCHANGED heard
              /\ UNCHANGED queue
         ELSE queue' = Posted(Word(late[s], s)) /\ UNCHANGED <<heard, lost>>
    /\ UNCHANGED <<protocolVars, bridge, message, inside, belated, task, call, recordVars,
                   deathVars, missed, overlapped>>

-----------------------------------------------------------------------------
(* The record for the service's death, NAPI only *)

\* Mutant: the callback for the death is set only if there is no record yet.
RegisterMutant(s) ==
    /\ active' = s /\ armed' = (active = NoSession \/ armed)
    /\ missed' = missed \cup ({active} \ {NoSession}) \cup
                 IF phase[s] = "dropped" THEN {s} ELSE {}
    /\ overlapped' = IF due + reading > 0 THEN overlapped \cup {s} ELSE overlapped

\* RegisterActiveAssessmentCallback.
Register(s) ==
    /\ active' = s /\ armed' = TRUE
    /\ missed' = missed \cup ({active} \ {NoSession}) \cup
                 IF phase[s] = "dropped" THEN {s} ELSE {}
    /\ overlapped' = IF due + reading > 0 THEN overlapped \cup {s} ELSE overlapped

\* UnregisterActiveAssessmentCallback compares nothing: whoever asks, the
\* record of this moment goes.
Unregister(s) ==
    /\ active' = NoSession /\ armed' = FALSE
    /\ missed' = missed \cup ({active} \ {NoSession, s})
    /\ UNCHANGED overlapped

RecordFrame == UNCHANGED <<recordVars, missed, overlapped>>

\* OnRemoteDied, once the proxy is dropped: the callback is moved out of the client.
TakeDiedCallback ==
    /\ due > 0 /\ due' = due - 1
    /\ reading' = IF armed THEN reading + 1 ELSE reading
    /\ armed' = FALSE
    /\ UNCHANGED <<protocolVars, bridge, ipcVars, mainVars, active, watchVars, heard, historyVars>>

\* Mutant: the callback of the latest begin is taken, recorded or not.
ReportedMutant ==
    IF \E s \in Session : phase[s] # "unused"
      THEN CHOOSE s \in Session : phase[s] # "unused" /\ \A o \in Session : o > s => phase[o] = "unused"
      ELSE NoSession

\* Mutant: nobody is told.
NobodyReported == NoSession

\* NotifyAssessmentServiceDied looks the callback up when it is called.
Reported == active

\* Mutant: the callback is used without looking whether there is one.
DeathTaskMutant(s) == <<Word("died", s)>>

DeathTask(s) == IF s = NoSession THEN <<>> ELSE <<Word("died", s)>>

NotifyServiceDied ==
    /\ reading > 0 /\ reading' = reading - 1
    /\ queue' = queue \o DeathTask(Reported)
    /\ UNCHANGED <<protocolVars, bridge, ipcVars, task, call, recordVars, watchVars, due, heard,
                   historyVars>>

-----------------------------------------------------------------------------
(* The main thread *)

MainFrame == UNCHANGED <<excused, bridge, inside, lateVars, due, reading, lost>>

\* begin with parameters that pass the checks of BeginParameters, accepted by
\* the service: a session of this application that still waits for its answer
\* is refused first.  The proxy is taken as it is cached, watched or not, or
\* loaded and watched (GetAssessmentProxy; see strayed in AssessmentClient).
BeginAssessment(s) ==
    /\ call = NoCall /\ LockIsFree
    /\ \A o \in Session : o < s => phase[o] # "unused"
    /\ UNCHANGED serving /\ Ask(s)
    /\ message' = IF \E o \in Session : phase[o] = "asked"
                    THEN Word("refused", CHOOSE o \in Session : phase[o] = "asked")
                    ELSE NoMessage
    /\ call' = [at |-> "begin", of |-> s]
    /\ watching' \in {watching, watching + 1}
    /\ MainFrame /\ UNCHANGED <<queue, task, heard, unwatched>> /\ RecordFrame

BeginReturns ==
    /\ call.at = "begin" /\ message = NoMessage
    /\ call' = NoCall
    /\ IF bridge = "napi" THEN Register(call.of) ELSE RecordFrame
    /\ MainFrame /\ UNCHANGED <<phase, serving, message, queue, task, watchVars, heard>>

EndAssessment(s) ==
    /\ call = NoCall /\ LockIsFree
    /\ Becomes(s, {"running"}, "ended")
    /\ message' = Word("ended", s)
    /\ call' = [at |-> "end", of |-> s]
    /\ MainFrame /\ UNCHANGED <<serving, queue, task, watchVars, heard>> /\ RecordFrame

EndReturns ==
    /\ call.at = "end" /\ message = NoMessage
    /\ call' = NoCall
    /\ IF bridge = "napi" THEN Unregister(call.of) ELSE RecordFrame
    /\ MainFrame /\ UNCHANGED <<phase, serving, message, queue, task, watchVars, heard>>

\* isActive and getConfiguration, when they have to wait for the service to
\* finish with its message (otherwise they return at once and change nothing).
AskService ==
    /\ call = NoCall /\ serving /\ message # NoMessage
    /\ call' = [at |-> "query", of |-> NoSession]
    /\ MainFrame /\ UNCHANGED <<phase, serving, message, queue, task, watchVars, heard>> /\ RecordFrame

QueryReturns ==
    /\ call.at = "query" /\ message = NoMessage
    /\ call' = NoCall
    /\ MainFrame /\ UNCHANGED <<phase, serving, message, queue, task, watchVars, heard>> /\ RecordFrame

\* The service died under the request, which throws; nothing is recorded.
RequestThrows ==
    /\ call.at = "lost"
    /\ call' = NoCall /\ missed' = missed \cup ({call.of} \ {NoSession})
    /\ MainFrame
    /\ UNCHANGED <<phase, serving, message, queue, task, watchVars, heard, recordVars, overlapped>>

\* A task begins: the application's function is called.
RunTask ==
    /\ call = NoCall /\ task = NoMessage /\ queue # <<>>
    /\ task' = Head(queue) /\ queue' = Tail(queue)
    /\ Calls(Head(queue))
    /\ MainFrame /\ UNCHANGED <<phase, serving, message, call, watchVars>> /\ RecordFrame

\* Mutant: after onInterrupted the record is kept.
LastWordsMutant == {"ended"}

\* CallJsOnInterrupted and CallJsOnEnd take the record back when the function
\* has returned, CallJsOnBegin does not, even if the session was refused.
LastWords == {"interrupted", "ended", "died"}

TaskReturns ==
    /\ call = NoCall /\ task # NoMessage
    /\ task' = NoMessage
    /\ IF bridge = "napi" /\ task.what \in LastWords THEN Unregister(task.of) ELSE RecordFrame
    /\ MainFrame /\ UNCHANGED <<phase, serving, message, queue, call, watchVars, heard>>

-----------------------------------------------------------------------------

IpcStep == PostTask \/ CallDirectly \/ DirectCallReturns
NoticeStep == TakeDiedCallback \/ NotifyServiceDied
Returns == BeginReturns \/ EndReturns \/ QueryReturns \/ RequestThrows \/ TaskReturns

BridgeNext ==
    \/ \E s \in Session : ServiceAccepts(s) \/ ServiceRefuses(s) \/ ServiceInterrupts(s)
    \/ \E s \in Session : BeginAssessment(s) \/ EndAssessment(s)
    \/ AskService \/ ServiceDies \/ ServiceStarts
    \/ IpcStep \/ DirectCallReenters \/ NoticeStep
    \/ \E s \in Session : HandOnLate(s)
    \/ Returns \/ RunTask

\* IPC threads and death notices are scheduled; the application's functions
\* return, and its main thread comes back to its event loop.
BridgeSpec ==
    /\ BridgeInit /\ [][BridgeNext]_bridgeVars
    /\ WF_bridgeVars(IpcStep) /\ WF_bridgeVars(TakeDiedCallback) /\ WF_bridgeVars(NotifyServiceDied)
    /\ WF_bridgeVars(Returns) /\ WF_bridgeVars(RunTask)

-----------------------------------------------------------------------------

\* Whatever list an application passes, the one a session is made of names the
\* application itself last: the service takes that name for the caller's when
\* it matches process deaths (bundleName_).  No name that was given is left
\* out, the duration is one the deadline can be built from, and NAPI hands over
\* no name twice.  (The parameters do
\* not depend on the state: they are looked at before the first session.)
RequestsAreSound ==
    phase = [s \in Session |-> "unused"] => \A request \in SessionRequests(bridge) :
        LET handed == Handed(bridge, request)
        IN  /\ SessionBundle(handed) = Own
            /\ ToSet(handed.apps) = Strings(request.apps) \cup {Own}
            /\ SessionDuration(handed) \in 1..MaxDuration
            /\ bridge = "napi" => IsInjective(handed.apps)

\* What the service has said in a session, by the phase that brought it to.
Sayings(s) ==
    LET p     == phase[s]
        begun == <<Word("ok", s)>>
    IN  CASE p \in {"unused", "asked"} -> {<<>>}
          [] p = "dropped"             -> {<<>>, begun}
          [] p = "running"             -> {begun}
          [] p = "refused"             -> {<<Word("refused", s)>>}
          [] p \in {"ended", "interrupted"} -> {Append(begun, Word(p, s))}

\* The calls a session's functions received, the tasks that wait, and the
\* messages that are still to be handed on.
Trail(s) ==
    [i \in 1..Len(heard[s]) |-> Word(heard[s][i], s)] \o queue
      \o (IF Pending THEN <<message>> ELSE <<>>)
      \o (IF late[s] # "none" THEN <<Word(late[s], s)>> ELSE <<>>)

\* What a session has heard and is going to hear from the service.
Reached(s) == Selected(Trail(s), {Word(what, s) : what \in Words \ {"died"}})

\* Every callback reaches the functions of its own session, once and in the
\* order it was sent, through whichever threads; only a session whose message
\* met an IPC thread without an environment misses some.
HeardAsSent ==
    \A s \in Session :
        IF s \in lost
          THEN \E saying \in Sayings(s) :
                 Reached(s) \in {<<>>} \cup {<<word>> : word \in ToSet(saying)}
          ELSE Reached(s) \in Sayings(s)

\* Once a session has heard something, no older one hears anything more but the
\* report of a death: a late answer is never taken for the new session's.  The
\* interruptions of ANI, which are posted while onBegin is not, may come late,
\* and so may a message whose service died before a thread handed it on.
HeardInTurn ==
    [][\A s \in Session :
         LET word == Last(heard'[s])
         IN  heard'[s] # heard[s] /\ word # "died" /\ Word(word, s) \notin belated
           /\ (bridge = "napi" \/ word # "interrupted")
               => \A o \in Session : o > s => heard[o] = <<>>]_bridgeVars

\* A record that the service's death cannot use any more is about to go: its
\* notice is reading it, or a task that takes it back is there.
RecordIsArmed ==
    active # NoSession /\ ~armed =>
        \/ reading > 0
        \/ \E i \in 1..Len(queue) : queue[i].what \in {"interrupted", "ended", "died"}
        \/ task.what \in {"interrupted", "ended", "died"}

\* The record of a session that is over is kept only while the session's last
\* callback is on its way; afterwards no death of the service is reported to
\* it.  (The record of a refused session stays, and its onInterrupted is called
\* when the idle service unloads itself.)
RecordEndsWithSession ==
    active # NoSession /\ phase[active] \in {"ended", "interrupted"} =>
        \/ message = Word(phase[active], active) \/ late[active] = phase[active]
        \/ \E i \in 1..Len(queue) : queue[i] = Word(phase[active], active)
        \/ task = Word(phase[active], active)

\* A session that lives is told of the death of its service only if it was
\* recorded while the notice of an older service's death was under way.
DeathIsReal ==
    [][\A s \in Session :
         queue' = Append(queue, Word("died", s)) =>
             phase[s] \notin Waiting \/ s \in overlapped]_bridgeVars

\* The application was told that a session of it is gone, will be by a task that
\* waits, or has lost or never had the record by which it would be told.
ToldOfDeath(s) == s \in missed \/ "died" \in ToSet(heard[s]) \/ Word("died", s) \in ToSet(queue)

\* A notice is reading the session's record, or its begin has not returned yet.
ReportComes(s) == (active = s /\ reading > 0) \/ (call.of = s /\ call.at \in {"begin", "lost"})

\* NAPI: at every moment after the service took a session down with it, the
\* application was told, the report is on its way, or the record that will
\* raise it is armed and a notice of the death still to come.  No end, task or
\* begin of another session silently takes that record away.  A service whose
\* cached proxy has no recipient (GetAssessmentProxy adds one only to a proxy it
\* has just loaded) dies unnoticed.
DeathOnItsWay ==
    \A s \in Session :
        phase[s] = "dropped" /\ bridge = "napi" /\ s \notin unwatched =>
            ToldOfDeath(s) \/ ReportComes(s) \/ (active = s /\ armed /\ due > 0)

\* NAPI: an application whose session went down with the service is told so,
\* by a call of onInterrupted or an exception of its own request, unless the
\* record was taken back for an older session, was replaced, or came too late,
\* or no recipient watched the service.
\* ANI keeps no record and tells nobody.
DeathReported ==
    \A s \in Session :
        phase[s] = "dropped" /\ bridge = "napi" /\ s \notin unwatched ~>
            s \in missed \/ "died" \in ToSet(heard[s])

\* The service, which waits with its locks held, is never held up by what the
\* application's main thread does; with ANI an application that asks the
\* service something from within onBegin or onEnd holds it up for ever.
ServiceNotHeldUp ==
    message # NoMessage ~> (message = NoMessage \/ (bridge = "ani" /\ inside = "stuck"))
=============================================================================
