------------------------- MODULE CallbackBridgeProofs -------------------------
(***************************************************************************)
(* Proofs about the bridges from the service to the application: for any   *)
(* number of sessions, and death notices, and for any parameters.          *)
(***************************************************************************)
EXTENDS CallbackBridge, BeginParametersProofs

\* The parts of the type invariant.  What the service sends is no death.
Said == [what : Words \ {"died"}, of : Session]
PhasesOK == phase \in [Session -> Phases] /\ excused = {} /\ bridge \in Bridges
MessagesOK ==
    /\ message \in Said \cup {NoMessage}
    /\ queue \in Seq(Message) /\ task \in Message \cup {NoMessage}
    /\ heard \in [Session -> Seq(Words)]
    /\ late \in [Session -> (Words \ {"died"}) \cup {"none"}] /\ belated \subseteq Said
RecordsOK ==
    /\ call \in [at : {"begin", "end", "lost"}, of : Session] \cup
               [at : {"query", "lost"}, of : {NoSession}] \cup {NoCall}
    /\ active \in Session \cup {NoSession}
    /\ watching \in Nat /\ due \in Nat /\ reading \in Nat
HistoryOK ==
    /\ lost \subseteq Session /\ unwatched \subseteq Session
    /\ missed \subseteq Session /\ overlapped \subseteq Session
SwitchesOK ==
    /\ serving \in BOOLEAN /\ armed \in BOOLEAN
    /\ inside \in {"no", "app", "stuck"}
TypesOK == PhasesOK /\ MessagesOK /\ RecordsOK /\ HistoryOK

\* The actions, one name each.
ServiceSpeaks(s) == ServiceAccepts(s) \/ ServiceRefuses(s) \/ ServiceInterrupts(s)
BridgeAction ==
    \/ \E s \in Session : ServiceSpeaks(s) \/ BeginAssessment(s) \/ EndAssessment(s)
    \/ AskService \/ ServiceDies \/ ServiceStarts
    \/ PostTask \/ CallDirectly \/ DirectCallReturns \/ DirectCallReenters
    \/ TakeDiedCallback \/ NotifyServiceDied
    \/ BeginReturns \/ EndReturns \/ QueryReturns \/ RequestThrows \/ TaskReturns \/ RunTask
    \/ \E s \in Session : HandOnLate(s)

LEMMA NextIsAction == BridgeNext => BridgeAction
BY Zenon DEF BridgeNext, BridgeAction, ServiceSpeaks, IpcStep, NoticeStep, Returns

\* A session goes forward only: begin makes an unused one wait, and no other.
Forward(s) ==
    /\ phase'[s] = "unused" => phase[s] = "unused"
    /\ phase'[s] \in Waiting => phase[s] \in Waiting \/ BeginAssessment(s)

LEMMA PhaseMoves ==
    ASSUME PhasesOK, [BridgeNext]_bridgeVars
    PROVE  PhasesOK' /\ \A s \in Session : Forward(s)
<1> USE DEF PhasesOK, Phases, Waiting, Forward
<1>1. ASSUME NEW s \in Session, ServiceSpeaks(s) PROVE PhasesOK' /\ \A o \in Session : Forward(o)
  BY <1>1 DEF ServiceSpeaks, ServiceAccepts, ServiceRefuses, ServiceInterrupts, ServiceFrame,
     Accept, Refuse, Becomes
<1>2. ASSUME NEW s \in Session, BeginAssessment(s)
      PROVE  PhasesOK' /\ \A o \in Session : Forward(o)
  <2>1. UNCHANGED <<excused, bridge>>
    BY <1>2, Zenon DEF BeginAssessment, MainFrame
  <2>2. PICK word \in [Session -> {"refused", "dropped"}] :
          phase' = [o \in Session |-> CASE o = s -> "asked" [] phase[o] = "asked" -> word[o]
                                        [] OTHER -> phase[o]]
    BY <1>2, Zenon DEF BeginAssessment, Ask
  <2>3. \A o \in Session : phase'[o] \in {"asked", "refused", "dropped", phase[o]}
    BY <2>2
  <2>4. \A o \in Session \ {s} : phase'[o] \in {"refused", "dropped", phase[o]}
    BY <2>2
  <2>5. phase'[s] = "asked" /\ DOMAIN phase' = Session
    <3>1. phase[s] = "unused"
      BY <1>2, Zenon DEF BeginAssessment, Ask
    <3>2. QED
      BY <2>2, <3>1
  <2>6. PhasesOK'
    BY <2>1, <2>2, <2>3
  <2>7. \A o \in Session : Forward(o)
    BY <1>2, <2>4, <2>5
  <2>8. QED
    BY <2>6, <2>7
<1>3. ASSUME NEW s \in Session, EndAssessment(s) PROVE PhasesOK' /\ \A o \in Session : Forward(o)
  BY <1>3 DEF EndAssessment, MainFrame, Becomes
<1>4. CASE ServiceDies
  BY <1>4 DEF ServiceDies
<1>5. CASE UNCHANGED <<phase, excused, bridge>>
  BY <1>5
<1>6. BridgeAction =>
        \/ \E s \in Session : ServiceSpeaks(s) \/ BeginAssessment(s) \/ EndAssessment(s)
        \/ ServiceDies \/ UNCHANGED <<phase, excused, bridge>>
  BY Zenon DEF BridgeAction, AskService, ServiceStarts, PostTask, CallDirectly, DirectCallReturns,
     DirectCallReenters, TakeDiedCallback, NotifyServiceDied, BeginReturns, EndReturns,
     QueryReturns, RequestThrows, TaskReturns, RunTask, HandOnLate, MainFrame, protocolVars
<1>7. UNCHANGED bridgeVars => UNCHANGED <<phase, excused, bridge>>
  BY Zenon DEF bridgeVars, protocolVars
<1>8. QED
  BY <1>1, <1>2, <1>3, <1>4, <1>5, <1>6, <1>7, NextIsAction, Zenon

LEMMA MessagesKept ==
    ASSUME TypesOK, [BridgeNext]_bridgeVars PROVE MessagesOK'
<1> USE DEF TypesOK, MessagesOK, Said, Words, Message, Word, NoMessage
<1>1. ASSUME NEW s \in Session, ServiceSpeaks(s) PROVE MessagesOK'
  <2>1. UNCHANGED <<queue, task, heard, late, belated>>
    BY <1>1, Zenon DEF ServiceSpeaks, ServiceAccepts, ServiceRefuses, ServiceInterrupts,
       ServiceFrame, mainVars, lateVars
  <2>2. message' \in {Word(w, s) : w \in {"ok", "refused", "interrupted"}}
    BY <1>1 DEF ServiceSpeaks, ServiceAccepts, ServiceRefuses, ServiceInterrupts, Sends
  <2>3. QED
    BY <2>1, <2>2
<1>2. ASSUME NEW s \in Session, BeginAssessment(s) PROVE MessagesOK'
  <2>1. UNCHANGED <<queue, task, heard, late, belated>>
    BY <1>2, Zenon DEF BeginAssessment, MainFrame, lateVars
  <2>2. CASE \E o \in Session : phase[o] = "asked"
    <3>1. message' = Word("refused", CHOOSE o \in Session : phase[o] = "asked")
      BY <1>2, <2>2, Zenon DEF BeginAssessment
    <3>2. (CHOOSE o \in Session : phase[o] = "asked") \in Session
      BY <2>2
    <3>3. QED
      BY <2>1, <3>1, <3>2
  <2>3. CASE ~\E o \in Session : phase[o] = "asked"
    <3>1. message' = NoMessage
      BY <1>2, <2>3, Zenon DEF BeginAssessment
    <3>2. QED
      BY <2>1, <3>1
  <2>4. QED
    BY <2>2, <2>3
<1>3. ASSUME NEW s \in Session, EndAssessment(s) PROVE MessagesOK'
  BY <1>3 DEF EndAssessment, MainFrame, lateVars
<1>4. CASE PostTask
  BY <1>4 DEF PostTask, Posted, lateVars
<1>5. CASE CallDirectly
  <2>1. message \in Said /\ UNCHANGED <<queue, task, late, belated>>
    BY <1>5 DEF CallDirectly, mainVars, lateVars
  <2>2. CASE Calls(message) /\ UNCHANGED message
    BY <2>1, <2>2 DEF Calls
  <2>3. CASE message' = NoMessage /\ UNCHANGED heard
    BY <2>1, <2>3
  <2>4. QED
    BY <1>5, <2>2, <2>3, Zenon DEF CallDirectly
<1>6. CASE DirectCallReturns
  BY <1>6 DEF DirectCallReturns, mainVars, lateVars
<1>7. CASE NotifyServiceDied
  <2>1. queue' = queue \o DeathTask(active) /\ UNCHANGED <<message, task, heard, late, belated>>
    BY <1>7, Zenon DEF NotifyServiceDied, Reported, ipcVars, lateVars
  <2>2. DeathTask(active) \in Seq(Message)
    <3>1. CASE active = NoSession
      BY <3>1 DEF DeathTask
    <3>2. CASE active # NoSession
      <4>1. Word("died", active) \in Message
        BY <3>2 DEF RecordsOK
      <4>2. DeathTask(active) = <<Word("died", active)>>
        BY <3>2, Zenon DEF DeathTask
      <4>3. \A m \in Message : <<m>> \in Seq(Message)
        OBVIOUS
      <4>4. QED
        BY <4>1, <4>2, <4>3, Zenon
    <3>3. QED
      BY <3>1, <3>2
  <2>3. QED
    BY <2>1, <2>2
<1>8. CASE RunTask
  <2>1. queue # <<>> /\ task' = Head(queue) /\ queue' = Tail(queue) /\ message' = message
        /\ Calls(Head(queue)) /\ UNCHANGED <<late, belated>>
    BY <1>8, Zenon DEF RunTask, MainFrame, lateVars
  <2>2. Head(queue) \in Message /\ Tail(queue) \in Seq(Message)
    <3>1. queue \in Seq(Message)
      OBVIOUS
    <3>2. QED
      BY <2>1, <3>1, HeadTailProperties, Zenon
  <2>3. heard' \in [Session -> Seq(Words)]
    BY <2>1, <2>2 DEF Calls
  <2>4. QED
    BY <2>1, <2>2, <2>3
<1>9. CASE TaskReturns
  BY <1>9 DEF TaskReturns, MainFrame, lateVars
<1>10. CASE UNCHANGED <<message, queue, task, heard, late, belated>>
  BY <1>10
<1>a. CASE ServiceDies
  <2>1. /\ message' = NoMessage /\ UNCHANGED <<queue, task, heard>>
        /\ late' = IF Pending THEN [late EXCEPT ![message.of] = message.what] ELSE late
        /\ belated' = IF Pending THEN belated \cup {message} ELSE belated
    BY <1>a, Zenon DEF ServiceDies
  <2>2. CASE Pending
    <3>1. message \in Said
      BY <2>2 DEF Pending
    <3>2. QED
      BY <2>1, <2>2, <3>1
  <2>3. CASE ~Pending
    BY <2>1, <2>3
  <2>4. QED
    BY <2>2, <2>3
<1>b. ASSUME NEW s \in Session, HandOnLate(s) PROVE MessagesOK'
  <2>1. /\ UNCHANGED <<message, task, belated>> /\ late' = [late EXCEPT ![s] = "none"]
        /\ late[s] # "none"
        /\ \/ UNCHANGED <<queue, heard>>
           \/ queue' = Append(queue, Word(late[s], s)) /\ UNCHANGED heard
           \/ Calls(Word(late[s], s)) /\ UNCHANGED queue
    BY <1>b, Zenon DEF HandOnLate, Posted
  <2>2. Word(late[s], s) \in Message /\ late[s] \in Words
    BY <2>1
  <2>3. heard' \in [Session -> Seq(Words)]
    <3>1. Calls(Word(late[s], s)) => heard' = [heard EXCEPT ![s] = Append(@, late[s])]
      BY DEF Calls
    <3>2. Append(heard[s], late[s]) \in Seq(Words)
      BY <2>2
    <3>3. QED
      BY <2>1, <3>1, <3>2
  <2>4. queue' \in Seq(Message)
    <3>1. queue \in Seq(Message) /\ Append(queue, Word(late[s], s)) \in Seq(Message)
      BY <2>2
    <3>2. QED
      BY <2>1, <3>1, Zenon
  <2>5. QED
    BY <2>1, <2>3, <2>4
<1>11. BridgeAction =>
         \/ \E s \in Session : ServiceSpeaks(s) \/ BeginAssessment(s) \/ EndAssessment(s)
         \/ PostTask \/ CallDirectly \/ DirectCallReturns \/ NotifyServiceDied \/ RunTask
         \/ TaskReturns \/ ServiceDies \/ (\E s \in Session : HandOnLate(s))
         \/ UNCHANGED <<message, queue, task, heard, late, belated>>
  BY Zenon DEF BridgeAction, AskService, ServiceStarts, DirectCallReenters,
     TakeDiedCallback, BeginReturns, EndReturns, QueryReturns, RequestThrows, MainFrame, mainVars,
     ipcVars, lateVars
<1>12. UNCHANGED bridgeVars => UNCHANGED <<message, queue, task, heard, late, belated>>
  BY Zenon DEF bridgeVars, mainVars, ipcVars, lateVars
<1>13. QED
  BY <1>1, <1>2, <1>3, <1>4, <1>5, <1>6, <1>7, <1>8, <1>9, <1>10, <1>11, <1>12, <1>a, <1>b,
     NextIsAction, Zenon

LEMMA RecordsKept ==
    ASSUME TypesOK, [BridgeNext]_bridgeVars PROVE RecordsOK' /\ HistoryOK'
<1> USE DEF TypesOK, RecordsOK, HistoryOK, NoCall
<1>1. ASSUME NEW s \in Session, BeginAssessment(s) \/ EndAssessment(s)
      PROVE  RecordsOK' /\ HistoryOK'
  <2>1. call' \in [at : {"begin", "end"}, of : Session]
    BY <1>1 DEF BeginAssessment, EndAssessment
  <2>2. UNCHANGED <<active, due, reading, lost, unwatched, missed, overlapped>>
    BY <1>1, Zenon DEF BeginAssessment, EndAssessment, MainFrame, RecordFrame, recordVars, watchVars
  <2>3. watching' \in {watching, watching + 1}
    BY <1>1 DEF BeginAssessment, EndAssessment, watchVars
  <2>4. QED
    BY <2>1, <2>2, <2>3
<1>2. CASE ServiceDies
  <2>1. call' \in {[call EXCEPT !.at = "lost"], call} /\ (call = NoCall => call' = NoCall)
    BY <1>2 DEF ServiceDies
  <2>2. due' = due + watching /\ watching' = 0
        /\ UNCHANGED <<active, reading, lost, missed, overlapped>>
    BY <1>2, Zenon DEF ServiceDies, recordVars, historyVars
  <2>3. unwatched' \subseteq Session
    BY <1>2 DEF ServiceDies
  <2>4. QED
    BY <2>1, <2>2, <2>3
<1>3. CASE CallDirectly
  <2>1. UNCHANGED <<call, active, watching, due, reading, unwatched, missed, overlapped>>
    BY <1>3, Zenon DEF CallDirectly, mainVars, recordVars, deathVars, watchVars
  <2>2. message.of \in Session
    BY <1>3 DEF CallDirectly, MessagesOK, Said
  <2>3. lost' = lost \/ lost' = lost \cup {message.of}
    BY <1>3, Zenon DEF CallDirectly
  <2>4. QED
    BY <2>1, <2>2, <2>3
<1>4. CASE TakeDiedCallback
  <2>1. due > 0 /\ due' = due - 1 /\ reading' \in {reading, reading + 1}
        /\ UNCHANGED <<call, active, watching, lost, unwatched, missed, overlapped>>
    BY <1>4, Zenon DEF TakeDiedCallback, mainVars, historyVars, watchVars
  <2>2. QED
    BY <2>1
<1>5. CASE NotifyServiceDied
  <2>1. reading > 0 /\ reading' = reading - 1
        /\ UNCHANGED <<call, active, watching, due, lost, unwatched, missed, overlapped>>
    BY <1>5, Zenon DEF NotifyServiceDied, recordVars, historyVars, watchVars
  <2>2. QED
    BY <2>1
<1>6. CASE BeginReturns
  <2>1. call.of \in Session /\ call' = NoCall /\ UNCHANGED <<watching, due, reading, lost, unwatched>>
    BY <1>6 DEF BeginReturns, MainFrame, watchVars
  <2>2. CASE Register(call.of)
    BY <2>1, <2>2 DEF Register
  <2>3. CASE RecordFrame
    BY <2>1, <2>3 DEF RecordFrame, recordVars
  <2>4. QED
    BY <1>6, <2>2, <2>3, Zenon DEF BeginReturns
<1>7. CASE EndReturns \/ TaskReturns
  <2>1. call' = NoCall /\ UNCHANGED <<watching, due, reading, lost, unwatched>>
    BY <1>7, Zenon DEF EndReturns, TaskReturns, MainFrame, watchVars
  <2>2. ASSUME NEW o, Unregister(o) PROVE RecordsOK' /\ HistoryOK'
    BY <2>1, <2>2 DEF Unregister
  <2>3. CASE RecordFrame
    BY <2>1, <2>3 DEF RecordFrame, recordVars
  <2>4. QED
    BY <1>7, <2>2, <2>3, Zenon DEF EndReturns, TaskReturns
<1>8. CASE AskService \/ QueryReturns
  <2>1. call' \in {[at |-> "query", of |-> NoSession], NoCall}
    BY <1>8 DEF AskService, QueryReturns
  <2>2. UNCHANGED <<active, watching, due, reading, lost, unwatched, missed, overlapped>>
    BY <1>8, Zenon DEF AskService, QueryReturns, MainFrame, RecordFrame, recordVars, watchVars
  <2>3. QED
    BY <2>1, <2>2
<1>9. CASE RequestThrows
  <2>1. call' = NoCall /\ UNCHANGED <<active, watching, due, reading, lost, unwatched, overlapped>>
        /\ missed' = missed \cup ({call.of} \ {NoSession}) /\ call.at = "lost"
    BY <1>9, Zenon DEF RequestThrows, MainFrame, recordVars, watchVars
  <2>2. QED
    BY <2>1
<1>10. CASE UNCHANGED <<call, active, watching, due, reading, lost, unwatched, missed, overlapped>>
  BY <1>10
<1>a. ASSUME NEW s \in Session, HandOnLate(s) PROVE RecordsOK' /\ HistoryOK'
  <2>1. UNCHANGED <<call, active, watching, due, reading, unwatched, missed, overlapped>>
        /\ lost' \in {lost, lost \cup {s}}
    BY <1>a DEF HandOnLate, recordVars, deathVars, watchVars
  <2>2. QED
    BY <2>1
<1>11. BridgeAction =>
         \/ \E s \in Session : BeginAssessment(s) \/ EndAssessment(s)
         \/ ServiceDies \/ CallDirectly \/ TakeDiedCallback \/ NotifyServiceDied \/ BeginReturns
         \/ EndReturns \/ TaskReturns \/ AskService \/ QueryReturns \/ RequestThrows
         \/ (\E s \in Session : HandOnLate(s))
         \/ UNCHANGED <<call, active, watching, due, reading, lost, unwatched, missed, overlapped>>
  BY Zenon DEF BridgeAction, ServiceSpeaks, ServiceAccepts, ServiceRefuses, ServiceInterrupts,
     ServiceFrame, ServiceStarts, PostTask, DirectCallReturns, DirectCallReenters, RunTask,
     MainFrame, RecordFrame, mainVars, recordVars, deathVars, watchVars, historyVars
<1>12. UNCHANGED bridgeVars =>
         UNCHANGED <<call, active, watching, due, reading, lost, unwatched, missed, overlapped>>
  BY Zenon DEF bridgeVars, mainVars, recordVars, deathVars, watchVars, historyVars
<1>13. QED
  BY <1>1, <1>2, <1>3, <1>4, <1>5, <1>6, <1>7, <1>8, <1>9, <1>10, <1>11, <1>12, <1>a,
     NextIsAction, Zenon

LEMMA SwitchesKept ==
    ASSUME SwitchesOK, [BridgeNext]_bridgeVars PROVE SwitchesOK'
<1> USE DEF SwitchesOK
<1>1. ASSUME NEW s \in Session, ServiceSpeaks(s) PROVE SwitchesOK'
  BY <1>1, Zenon DEF ServiceSpeaks, ServiceAccepts, ServiceRefuses, ServiceInterrupts,
     ServiceFrame, recordVars, deathVars
<1>2. ASSUME NEW s \in Session, BeginAssessment(s) \/ EndAssessment(s) PROVE SwitchesOK'
  BY <1>2, Zenon DEF BeginAssessment, EndAssessment, MainFrame, RecordFrame, recordVars
<1>3. CASE AskService \/ ServiceDies \/ ServiceStarts \/ PostTask
  BY <1>3, Zenon DEF AskService, ServiceDies, ServiceStarts, PostTask, MainFrame, RecordFrame,
     ipcVars, recordVars, deathVars, protocolVars
<1>4. CASE CallDirectly \/ DirectCallReturns \/ DirectCallReenters
  BY <1>4, Zenon DEF CallDirectly, DirectCallReturns, DirectCallReenters, recordVars, deathVars,
     protocolVars
<1>5. CASE TakeDiedCallback \/ NotifyServiceDied
  BY <1>5, Zenon DEF TakeDiedCallback, NotifyServiceDied, ipcVars, recordVars, protocolVars
<1>6. CASE BeginReturns \/ EndReturns \/ TaskReturns
  BY <1>6, Zenon DEF BeginReturns, EndReturns, TaskReturns, MainFrame, RecordFrame, Register,
     Unregister, recordVars
<1>7. CASE QueryReturns \/ RequestThrows \/ RunTask
  BY <1>7, Zenon DEF QueryReturns, RequestThrows, RunTask, MainFrame, RecordFrame, recordVars
<1>8. CASE UNCHANGED bridgeVars
  BY <1>8, Zenon DEF bridgeVars, ipcVars, recordVars, deathVars, protocolVars
<1>a. ASSUME NEW s \in Session, HandOnLate(s) PROVE SwitchesOK'
  BY <1>a, Zenon DEF HandOnLate, recordVars, protocolVars
<1>9. QED
  BY <1>a, <1>1, <1>2, <1>3, <1>4, <1>5, <1>6, <1>7, <1>8, NextIsAction, Zenon DEF BridgeAction

LEMMA BridgeTypesInitially == BridgeInit => TypesOK /\ SwitchesOK
<1> SUFFICES ASSUME BridgeInit PROVE TypesOK /\ SwitchesOK
  OBVIOUS
<1>1. PhasesOK
  BY DEF BridgeInit, ProtocolInit, PhasesOK, Phases
<1>2. MessagesOK
  BY DEF BridgeInit, MessagesOK
<1>3. RecordsOK /\ HistoryOK
  BY DEF BridgeInit, RecordsOK, HistoryOK
<1>4. SwitchesOK
  BY Zenon DEF BridgeInit, ProtocolInit, SwitchesOK
<1>5. QED
  BY <1>1, <1>2, <1>3, <1>4 DEF TypesOK

\* The types of the bridges' state, for any number of sessions and notices.
THEOREM BridgeTypeCorrect == BridgeSpec => []BridgeTypeOK
<1>1. TypesOK /\ SwitchesOK /\ [BridgeNext]_bridgeVars => TypesOK' /\ SwitchesOK'
  BY PhaseMoves, MessagesKept, RecordsKept, SwitchesKept DEF TypesOK
<1>2. TypesOK /\ SwitchesOK => BridgeTypeOK
  <2> SUFFICES ASSUME TypesOK, SwitchesOK PROVE BridgeTypeOK
    OBVIOUS
  <2>1. message \in Message \cup {NoMessage} /\ belated \subseteq Message
    BY DEF TypesOK, MessagesOK, Said, Message
  <2>3. late \in [Session -> Words \cup {"none"}]
    BY DEF TypesOK, MessagesOK, Said
  <2>2. QED
    BY <2>1, <2>3, Zenon
       DEF TypesOK, PhasesOK, MessagesOK, RecordsOK, HistoryOK, SwitchesOK, BridgeTypeOK
<1>3. QED
  BY BridgeTypesInitially, <1>1, <1>2, PTL DEF BridgeSpec

-----------------------------------------------------------------------------

\* A session that is recorded, or about to be, was begun.
RecordedWasBegun ==
    \A s \in Session :
        active = s \/ (call.at = "begin" /\ call.of = s) => phase[s] # "unused"

\* While a death notice is under way, a recorded session that lives was
\* recorded under that notice's nose.
NoticesAreOld ==
    \A s \in Session :
        active = s /\ due + reading > 0 /\ phase[s] \in Waiting => s \in overlapped

NoticeInv == TypesOK /\ RecordedWasBegun /\ NoticesAreOld

LEMMA RecordedStaysBegun ==
    ASSUME NoticeInv, [BridgeNext]_bridgeVars PROVE RecordedWasBegun'
<1> USE DEF NoticeInv, RecordedWasBegun
<1>0. \A s \in Session : phase'[s] = "unused" => phase[s] = "unused"
  BY PhaseMoves DEF TypesOK, Forward
<1>1. ASSUME NEW s \in Session, BeginAssessment(s) PROVE RecordedWasBegun'
  <2>1. call' = [at |-> "begin", of |-> s] /\ active' = active
    BY <1>1, Zenon DEF BeginAssessment, RecordFrame, recordVars
  <2>2. phase'[s] = "asked"
    <3>1. phase[s] = "unused"
      BY <1>1, Zenon DEF BeginAssessment, Ask
    <3>2. QED
      BY <1>1, <3>1 DEF BeginAssessment, Ask
  <2>3. QED
    BY <1>0, <2>1, <2>2
<1>2. CASE BeginReturns
  <2>1. call.at = "begin" /\ call' = NoCall /\ active' \in {active, call.of}
    BY <1>2 DEF BeginReturns, Register, RecordFrame, recordVars
  <2>2. QED
    BY <1>0, <2>1 DEF NoCall
<1>3. CASE \/ active' \in {active, NoSession}
              /\ (call' = call \/ call'.at # "begin")
  BY <1>0, <1>3 DEF TypesOK, RecordsOK, NoSession, Session
<1>4. ASSUME NEW s \in Session, EndAssessment(s)
      PROVE  active' = active /\ call'.at # "begin"
  BY <1>4 DEF EndAssessment, RecordFrame, recordVars
<1>5. CASE ServiceDies
  <2>1. active' = active /\ (call' = call \/ call'.at = "lost")
    BY <1>5 DEF ServiceDies, recordVars, TypesOK, RecordsOK, NoCall
  <2>2. QED
    BY <1>3, <2>1
<1>6. CASE EndReturns \/ TaskReturns
  <2>1. active' \in {active, NoSession}
    BY <1>6 DEF EndReturns, TaskReturns, Unregister, RecordFrame, recordVars
  <2>2. call' = call \/ call'.at # "begin"
    BY <1>6 DEF EndReturns, TaskReturns, NoCall
  <2>3. QED
    BY <1>3, <2>1, <2>2
<1>7. CASE AskService \/ QueryReturns \/ RequestThrows
  BY <1>3, <1>7 DEF AskService, QueryReturns, RequestThrows, RecordFrame, recordVars, NoCall
<1>8. BridgeAction =>
         \/ \E s \in Session : BeginAssessment(s) \/ EndAssessment(s)
         \/ BeginReturns \/ ServiceDies \/ EndReturns \/ TaskReturns
         \/ AskService \/ QueryReturns \/ RequestThrows \/ UNCHANGED <<active, call>>
  BY Zenon DEF BridgeAction, ServiceSpeaks, ServiceAccepts, ServiceRefuses, ServiceInterrupts,
     ServiceFrame, ServiceStarts, PostTask, CallDirectly, DirectCallReturns, DirectCallReenters,
     TakeDiedCallback, NotifyServiceDied, RunTask, HandOnLate, MainFrame, RecordFrame, mainVars,
     recordVars
<1>9. UNCHANGED bridgeVars => UNCHANGED <<active, call>>
  BY Zenon DEF bridgeVars, mainVars, recordVars
<1>10. QED
  BY <1>1, <1>2, <1>3, <1>4, <1>5, <1>6, <1>7, <1>8, <1>9, NextIsAction

LEMMA NoticesStayOld ==
    ASSUME NoticeInv, [BridgeNext]_bridgeVars PROVE NoticesAreOld'
<1> USE DEF NoticeInv, NoticesAreOld
<1>0. \A s \in Session : Forward(s)
  BY PhaseMoves DEF TypesOK
<1>1. ASSUME NEW s \in Session, BeginAssessment(s) PROVE NoticesAreOld'
  <2>1. phase[s] = "unused" /\ UNCHANGED <<active, due, reading, overlapped>>
    BY <1>1, Zenon DEF BeginAssessment, Ask, MainFrame, RecordFrame, recordVars
  <2>2. active # s
    BY <2>1 DEF RecordedWasBegun
  <2>3. \A o \in Session \ {s} : phase'[o] \in Waiting => phase[o] \in Waiting
    <3>1. phase[s] = "unused"
      BY <2>1
    <3>2. PICK word \in [Session -> {"refused", "dropped"}] :
            phase' = [o \in Session |-> CASE o = s -> "asked" [] phase[o] = "asked" -> word[o]
                                          [] OTHER -> phase[o]]
      BY <1>1, Zenon DEF BeginAssessment, Ask
    <3>3. \A o \in Session \ {s} : phase'[o] \in {"refused", "dropped", phase[o]}
      BY <3>2
    <3>4. QED
      BY <3>3 DEF Waiting
  <2>4. QED
    BY <2>1, <2>2, <2>3
<1>2. CASE ServiceDies
  <2>1. \A s \in Session : phase'[s] \notin Waiting
    BY <1>2 DEF ServiceDies, Waiting
  <2>2. QED
    BY <2>1
<1>3. CASE BeginReturns
  <2>1. CASE Register(call.of)
    <3>1. active' = call.of /\ UNCHANGED <<due, reading>>
          /\ (due + reading > 0 => call.of \in overlapped')
      BY <1>3, <2>1, Zenon DEF BeginReturns, Register, MainFrame
    <3>2. QED
      BY <3>1
  <2>2. CASE RecordFrame
    <3>1. UNCHANGED <<phase, active, due, reading, overlapped>>
      BY <1>3, <2>2, Zenon DEF BeginReturns, MainFrame, RecordFrame, recordVars
    <3>2. QED
      BY <3>1
  <2>3. QED
    BY <1>3, <2>1, <2>2, Zenon DEF BeginReturns
<1>4. CASE EndReturns \/ TaskReturns
  <2>1. UNCHANGED <<phase, due, reading, overlapped>>
    BY <1>4, Zenon DEF EndReturns, TaskReturns, MainFrame, Unregister, RecordFrame
  <2>2. active' \in {active, NoSession}
    BY <1>4 DEF EndReturns, TaskReturns, Unregister, RecordFrame, recordVars
  <2>3. QED
    BY <2>1, <2>2 DEF NoSession, Session
<1>5. CASE TakeDiedCallback \/ NotifyServiceDied
  <2>1. UNCHANGED <<phase, active, overlapped>>
    BY <1>5, Zenon DEF TakeDiedCallback, NotifyServiceDied, protocolVars, recordVars, historyVars
  <2>2. (due' = due - 1 /\ due > 0 /\ reading' \in {reading, reading + 1})
        \/ (reading' = reading - 1 /\ due' = due)
    BY <1>5, Zenon DEF TakeDiedCallback, NotifyServiceDied
  <2>3. due \in Nat /\ reading \in Nat
    BY DEF TypesOK, RecordsOK
  <2>4. due' + reading' > 0 => due + reading > 0
    BY <2>2, <2>3
  <2>5. QED
    BY <2>1, <2>4
<1>6. CASE UNCHANGED <<active, due, reading, overlapped>> /\ \A s \in Session : ~BeginAssessment(s)
  BY <1>0, <1>6 DEF Forward
<1>7. BridgeAction =>
         \/ \E s \in Session : BeginAssessment(s)
         \/ ServiceDies \/ BeginReturns \/ EndReturns \/ TaskReturns
         \/ TakeDiedCallback \/ NotifyServiceDied \/ UNCHANGED <<active, due, reading, overlapped>>
  BY Zenon DEF BridgeAction, ServiceSpeaks, ServiceAccepts, ServiceRefuses, ServiceInterrupts,
     ServiceFrame, EndAssessment, AskService, QueryReturns, RequestThrows, ServiceStarts, PostTask,
     CallDirectly, DirectCallReturns, DirectCallReenters, RunTask, HandOnLate, MainFrame, RecordFrame,
     recordVars, deathVars, historyVars
<1>8. UNCHANGED bridgeVars => UNCHANGED <<active, due, reading, overlapped>>
  BY Zenon DEF bridgeVars, recordVars, deathVars, historyVars
<1>9. QED
  BY <1>1, <1>2, <1>3, <1>4, <1>5, <1>6, <1>7, <1>8, NextIsAction, Zenon

LEMMA NoticeInvHolds == BridgeSpec => []NoticeInv
<1>1. BridgeInit => NoticeInv
  <2> SUFFICES ASSUME BridgeInit PROVE NoticeInv
    OBVIOUS
  <2>1. active = NoSession /\ call = NoCall
    BY DEF BridgeInit
  <2>2. QED
    BY <2>1, BridgeTypesInitially
       DEF NoticeInv, RecordedWasBegun, NoticesAreOld, NoSession, NoCall, Session
<1>2. NoticeInv /\ [BridgeNext]_bridgeVars => NoticeInv'
  <2> SUFFICES ASSUME NoticeInv, [BridgeNext]_bridgeVars PROVE NoticeInv'
    OBVIOUS
  <2>1. TypesOK'
    BY PhaseMoves, MessagesKept, RecordsKept DEF NoticeInv, TypesOK
  <2>2. QED
    BY <2>1, RecordedStaysBegun, NoticesStayOld DEF NoticeInv
<1>3. QED
  BY <1>1, <1>2, PTL DEF BridgeSpec

\* What the queue gets to hear of a session's death, it gets from a notice.
LEMMA DeathsAreNoticed ==
    ASSUME TypesOK, [BridgeNext]_bridgeVars, NEW s \in Session,
           queue' = Append(queue, Word("died", s))
    PROVE  reading > 0 /\ active = s
<1>0. queue \in Seq(Message) /\ queue' # queue
  BY DEF TypesOK, MessagesOK
<1>1. ~PostTask
  <2> SUFFICES ASSUME PostTask PROVE FALSE
    OBVIOUS
  <2>1. queue' = Append(queue, message) /\ message \in Said
    BY DEF PostTask, Posted, TypesOK, MessagesOK
  <2>2. queue'[Len(queue) + 1] = message /\ queue'[Len(queue) + 1] = Word("died", s)
    BY <1>0, <2>1
  <2>3. QED
    BY <2>1, <2>2 DEF Said, Word
<1>2. ~RunTask
  <2> SUFFICES ASSUME RunTask PROVE FALSE
    OBVIOUS
  <2>1. queue # <<>> /\ queue' = Tail(queue)
    BY DEF RunTask
  <2>2. Len(queue') = Len(queue) - 1 /\ Len(queue') = Len(queue) + 1 /\ Len(queue) \in Nat
    BY <1>0, <2>1, HeadTailProperties
  <2>3. QED
    BY <2>2
<1>h. ASSUME NEW o \in Session, HandOnLate(o) PROVE FALSE
  <2>1. late[o] \in Words \ {"died"}
    BY <1>h DEF HandOnLate, TypesOK, MessagesOK
  <2>2. queue' = queue \/ queue' = Append(queue, Word(late[o], o))
    BY <1>h, Zenon DEF HandOnLate, Posted
  <2>3. queue'[Len(queue) + 1] = Word("died", s)
    BY <1>0
  <2>4. queue' = Append(queue, Word(late[o], o)) => queue'[Len(queue) + 1] = Word(late[o], o)
    BY <1>0
  <2>5. QED
    BY <1>0, <2>1, <2>2, <2>3, <2>4 DEF Word
<1>3. NotifyServiceDied
  BY <1>0, <1>1, <1>2, <1>h, NextIsAction, Zenon
     DEF BridgeAction, bridgeVars, mainVars, ServiceSpeaks, ServiceAccepts, ServiceRefuses,
         ServiceInterrupts, ServiceFrame, BeginAssessment, EndAssessment, AskService, QueryReturns,
         RequestThrows, BeginReturns, EndReturns, TaskReturns, ServiceDies, ServiceStarts,
         CallDirectly, DirectCallReturns, DirectCallReenters, TakeDiedCallback
<1>4. reading > 0 /\ queue' = queue \o DeathTask(active)
  BY <1>3, Zenon DEF NotifyServiceDied, Reported
<1>5. CASE active = NoSession
  BY <1>0, <1>4, <1>5 DEF DeathTask
<1>6. CASE active # NoSession
  <2>1. queue' = queue \o <<Word("died", active)>>
    BY <1>4, <1>6 DEF DeathTask
  <2>2. queue'[Len(queue) + 1] = Word("died", active) /\ queue'[Len(queue) + 1] = Word("died", s)
    BY <1>0, <2>1
  <2>3. QED
    BY <1>4, <2>2 DEF Word
<1>7. QED
  BY <1>5, <1>6

\* A session that lives is told that its service died only if its begin was
\* recorded while the notice of an older death was under way
\* (NotifyAssessmentServiceDied, js_assessment_callback.cpp).
THEOREM DeathIsToldInTime == BridgeSpec => DeathIsReal
<1>1. ASSUME NoticeInv, [BridgeNext]_bridgeVars, NEW s \in Session,
             queue' = Append(queue, Word("died", s))
      PROVE  phase[s] \notin Waiting \/ s \in overlapped
  <2>1. reading > 0 /\ active = s
    BY <1>1, DeathsAreNoticed DEF NoticeInv
  <2>2. due + reading > 0
    BY <1>1, <2>1 DEF NoticeInv, TypesOK, RecordsOK
  <2>3. QED
    BY <1>1, <2>1, <2>2 DEF NoticeInv, NoticesAreOld
<1>2. NoticeInv /\ [BridgeNext]_bridgeVars =>
        [\A s \in Session : queue' = Append(queue, Word("died", s)) =>
             phase[s] \notin Waiting \/ s \in overlapped]_bridgeVars
  BY <1>1
<1>3. QED
  BY <1>2, NoticeInvHolds, PTL DEF BridgeSpec, DeathIsReal

-----------------------------------------------------------------------------

\* A last word is in the queue.
LastWordQueued == \E i \in 1..Len(queue) : queue[i].what \in LastWords

ArmedInv ==
    /\ TypesOK /\ RecordIsArmed
    /\ bridge = "ani" => active = NoSession

LEMMA ArmedKept ==
    ASSUME ArmedInv, [BridgeNext]_bridgeVars PROVE ArmedInv'
<1>0. TypesOK' /\ UNCHANGED bridge
  <2>1. TypesOK'
    BY PhaseMoves, MessagesKept, RecordsKept DEF ArmedInv, TypesOK
  <2>2. UNCHANGED bridge
    BY NextIsAction, Zenon
       DEF BridgeAction, bridgeVars, ServiceSpeaks, ServiceAccepts, ServiceRefuses,
           ServiceInterrupts, ServiceFrame, BeginAssessment, EndAssessment, AskService,
           QueryReturns, RequestThrows, BeginReturns, EndReturns, TaskReturns, ServiceDies,
           ServiceStarts, PostTask, CallDirectly, DirectCallReturns, DirectCallReenters,
           TakeDiedCallback, NotifyServiceDied, RunTask, HandOnLate, MainFrame
  <2>3. QED
    BY <2>1, <2>2
<1> USE DEF ArmedInv, RecordIsArmed, LastWords
<1>1. CASE PostTask
  <2>1. queue' = Append(queue, message) /\ UNCHANGED <<active, armed, reading, task>>
    BY <1>1, Zenon DEF PostTask, Posted, recordVars, deathVars
  <2>2. queue \in Seq(Message)
    BY DEF TypesOK, MessagesOK
  <2>3. LastWordQueued => LastWordQueued'
    BY <2>1, <2>2 DEF LastWordQueued
  <2>4. QED
    BY <1>0, <2>1, <2>3 DEF LastWordQueued
<1>2. CASE TakeDiedCallback
  <2>1. UNCHANGED <<active, queue, task>>
    BY <1>2, Zenon DEF TakeDiedCallback, mainVars
  <2>2. CASE armed
    <3>1. reading' = reading + 1 /\ reading \in Nat
      BY <1>2, <2>2 DEF TakeDiedCallback, TypesOK, RecordsOK
    <3>2. QED
      BY <1>0, <2>1, <3>1
  <2>3. CASE ~armed
    <3>1. reading' = reading
      BY <1>2, <2>3 DEF TakeDiedCallback
    <3>2. QED
      BY <1>0, <2>1, <2>3, <3>1
  <2>4. QED
    BY <2>2, <2>3
<1>3. CASE NotifyServiceDied
  <2>1. queue' = queue \o DeathTask(active) /\ UNCHANGED <<active, armed, task>>
    BY <1>3, Zenon DEF NotifyServiceDied, Reported, recordVars
  <2>2. CASE active = NoSession
    BY <1>0, <2>1, <2>2
  <2>3. CASE active # NoSession
    <3>1. queue' = queue \o <<Word("died", active)>> /\ queue \in Seq(Message)
      BY <2>1, <2>3 DEF DeathTask, TypesOK, MessagesOK
    <3>2. queue'[Len(queue) + 1] = Word("died", active) /\ Len(queue') = Len(queue) + 1
          /\ Len(queue) \in Nat
      BY <3>1
    <3>3. queue'[Len(queue')].what = "died" /\ Len(queue') \in 1..Len(queue')
      BY <3>2 DEF Word
    <3>4. QED
      BY <1>0, <2>1, <2>3, <3>3
  <2>4. QED
    BY <2>2, <2>3
<1>4. CASE BeginReturns
  <2>1. UNCHANGED <<reading, queue, task>>
    BY <1>4, Zenon DEF BeginReturns, MainFrame
  <2>2. CASE bridge = "napi" /\ Register(call.of)
    BY <1>0, <2>1, <2>2 DEF Register
  <2>3. CASE RecordFrame
    BY <1>0, <2>1, <2>3 DEF RecordFrame, recordVars
  <2>4. QED
    BY <1>4, <2>2, <2>3, Zenon DEF BeginReturns
<1>5. CASE EndReturns
  <2>1. UNCHANGED <<reading, queue, task>>
    BY <1>5, Zenon DEF EndReturns, MainFrame
  <2>2. CASE Unregister(call.of)
    BY <1>0, <2>2 DEF Unregister
  <2>3. CASE RecordFrame
    BY <1>0, <2>1, <2>3 DEF RecordFrame, recordVars
  <2>4. QED
    BY <1>5, <2>2, <2>3, Zenon DEF EndReturns
<1>6. CASE TaskReturns
  <2>1. UNCHANGED <<reading, queue>>
    BY <1>6, Zenon DEF TaskReturns, MainFrame
  <2>2. CASE bridge = "napi" /\ task.what \in LastWords /\ Unregister(task.of)
    BY <1>0, <2>2 DEF Unregister
  <2>3. CASE RecordFrame /\ ~(bridge = "napi" /\ task.what \in LastWords)
    <3>1. bridge = "napi" \/ bridge = "ani"
      BY DEF TypesOK, PhasesOK, Bridges
    <3>2. UNCHANGED <<active, armed>>
      BY <2>3 DEF RecordFrame, recordVars
    <3>3. CASE bridge = "ani"
      BY <1>0, <3>2, <3>3
    <3>4. CASE bridge = "napi"
      <4>1. task.what \notin LastWords
        BY <2>3, <3>4
      <4>2. active # NoSession /\ ~armed => reading > 0 \/ LastWordQueued
        BY <4>1 DEF LastWordQueued
      <4>3. QED
        BY <1>0, <2>1, <3>2, <3>4, <4>2 DEF LastWordQueued
    <3>5. QED
      BY <3>1, <3>3, <3>4
  <2>4. QED
    BY <1>6, <2>2, <2>3, Zenon DEF TaskReturns
<1>7. CASE RunTask
  <2>1. queue # <<>> /\ task' = Head(queue) /\ queue' = Tail(queue) /\ task = NoMessage
        /\ UNCHANGED <<active, armed, reading>>
    BY <1>7, Zenon DEF RunTask, MainFrame, RecordFrame, recordVars
  <2>2. queue \in Seq(Message)
    BY DEF TypesOK, MessagesOK
  <2>3. LastWordQueued => LastWordQueued' \/ task'.what \in LastWords
    <3> SUFFICES ASSUME NEW i \in 1..Len(queue), queue[i].what \in LastWords
                 PROVE  LastWordQueued' \/ task'.what \in LastWords
      BY DEF LastWordQueued
    <3>1. Len(queue) \in Nat /\ Len(queue') = Len(queue) - 1
          /\ \A j \in 1..Len(queue') : queue'[j] = queue[j + 1]
      BY <2>1, <2>2, HeadTailProperties
    <3>2. CASE i = 1
      BY <2>1, <2>2, <3>2
    <3>3. CASE i # 1
      <4>1. i - 1 \in 1..Len(queue') /\ queue'[i - 1] = queue[(i - 1) + 1] /\ (i - 1) + 1 = i
        BY <3>1, <3>3
      <4>2. queue'[i - 1].what \in LastWords
        BY <4>1
      <4>3. QED
        BY <4>1, <4>2 DEF LastWordQueued
    <3>4. QED
      BY <3>2, <3>3
  <2>4. QED
    BY <1>0, <2>1, <2>3 DEF LastWordQueued, NoMessage
<1>a. ASSUME NEW s \in Session, HandOnLate(s) PROVE ArmedInv'
  <2>1. /\ UNCHANGED <<active, armed, reading, task>> /\ late[s] # "none"
        /\ queue' = queue \/ queue' = Append(queue, Word(late[s], s))
    BY <1>a, Zenon DEF HandOnLate, Posted, recordVars, deathVars
  <2>2. queue \in Seq(Message)
    BY DEF TypesOK, MessagesOK
  <2>3. LastWordQueued => LastWordQueued'
    BY <2>1, <2>2 DEF LastWordQueued
  <2>4. QED
    BY <1>0, <2>1, <2>3 DEF LastWordQueued
<1>8. CASE UNCHANGED <<active, armed, reading, queue, task>>
  BY <1>0, <1>8
<1>9. BridgeAction =>
         \/ PostTask \/ TakeDiedCallback \/ NotifyServiceDied \/ BeginReturns \/ EndReturns
         \/ TaskReturns \/ RunTask \/ (\E s \in Session : HandOnLate(s))
         \/ UNCHANGED <<active, armed, reading, queue, task>>
  BY Zenon DEF BridgeAction, ServiceSpeaks, ServiceAccepts, ServiceRefuses, ServiceInterrupts,
     ServiceFrame, BeginAssessment, EndAssessment, AskService, QueryReturns, RequestThrows,
     ServiceDies, ServiceStarts, CallDirectly, DirectCallReturns, DirectCallReenters, MainFrame,
     RecordFrame, mainVars, recordVars, deathVars
<1>10. UNCHANGED bridgeVars => UNCHANGED <<active, armed, reading, queue, task>>
  BY Zenon DEF bridgeVars, mainVars, recordVars, deathVars
<1>11. QED
  BY <1>1, <1>2, <1>3, <1>4, <1>5, <1>6, <1>7, <1>8, <1>9, <1>10, <1>a, NextIsAction, Zenon

\* The record of an application is never left without its callback for the
\* service's death, unless what takes the record back is on its way
\* (RegisterActiveAssessmentCallback, UnregisterActiveAssessmentCallback).
THEOREM RecordStaysArmed == BridgeSpec => []RecordIsArmed
<1>1. BridgeInit => ArmedInv
  BY BridgeTypesInitially DEF BridgeInit, ArmedInv, RecordIsArmed
<1>2. ArmedInv => RecordIsArmed
  BY DEF ArmedInv
<1>3. QED
  BY <1>1, <1>2, ArmedKept, PTL DEF BridgeSpec
-----------------------------------------------------------------------------

\* A session a dead service's message is held of is over, is spoken to no more,
\* and the message is remembered as one that comes late.
LateIsOver ==
    \A s \in Session : late[s] # "none" =>
        /\ phase[s] \notin Waiting \cup {"unused"} /\ message.of # s
        /\ Word(late[s], s) \in belated
MessageIsUsed == message # NoMessage => phase[message.of] # "unused"

\* What a word of the service, and a new session, do to the phases.
LEMMA SpeakMoves ==
    ASSUME PhasesOK, NEW s \in Session, ServiceSpeaks(s)
    PROVE  /\ message = NoMessage /\ phase[s] \in Waiting
           /\ UNCHANGED <<bridge, inside, queue, task, call, active, heard, late, belated>>
           /\ \E to \in {"running", "refused", "interrupted"} :
                /\ phase' = [phase EXCEPT ![s] = to]
                /\ message' = Word(IF to = "running" THEN "ok" ELSE to, s)
<1>1. message = NoMessage /\ UNCHANGED <<bridge, inside, queue, task, call, active, heard, late, belated>>
  BY Zenon DEF ServiceSpeaks, ServiceAccepts, ServiceRefuses, ServiceInterrupts, Sends, LockIsFree,
     ServiceFrame, mainVars, recordVars, lateVars
<1>2. CASE ServiceAccepts(s)
  BY <1>1, <1>2 DEF ServiceAccepts, Sends, Accept, Becomes, Waiting
<1>3. CASE ServiceRefuses(s)
  BY <1>1, <1>3 DEF ServiceRefuses, Sends, Refuse, Becomes, Waiting
<1>4. CASE ServiceInterrupts(s)
  BY <1>1, <1>4 DEF ServiceInterrupts, Sends, Becomes, Waiting
<1>5. QED
  BY <1>2, <1>3, <1>4, Zenon DEF ServiceSpeaks

\* A begin leaves the main thread with a call and, of the phases, takes the
\* unused one to waiting for its answer and settles one that waited.
LEMMA BeginMoves ==
    ASSUME PhasesOK, NEW s \in Session, BeginAssessment(s)
    PROVE  /\ message = NoMessage /\ call = NoCall /\ call' = [at |-> "begin", of |-> s]
           /\ UNCHANGED <<bridge, inside, queue, task, active, heard, late, belated>>
           /\ phase[s] = "unused" /\ phase'[s] = "asked"
           /\ \A o \in Session : o < s => phase[o] # "unused"
           /\ \A o \in Session : phase[o] # "running"
           /\ \A o \in Session : o # s =>
                phase'[o] \in IF phase[o] = "asked" THEN {"refused", "dropped"} ELSE {phase[o]}
<1>1. /\ message = NoMessage /\ call = NoCall /\ call' = [at |-> "begin", of |-> s]
      /\ UNCHANGED <<bridge, inside, queue, task, active, heard, late, belated>>
      /\ \A o \in Session : o < s => phase[o] # "unused"
  BY Zenon DEF BeginAssessment, LockIsFree, MainFrame, RecordFrame, recordVars, lateVars
<1>2. phase[s] = "unused" /\ \A o \in Session : phase[o] # "running"
  BY Zenon DEF BeginAssessment, Ask
<1>3. PICK word \in [Session -> {"refused", "dropped"}] :
        phase' = [o \in Session |-> CASE o = s -> "asked" [] phase[o] = "asked" -> word[o]
                                      [] OTHER -> phase[o]]
  BY Zenon DEF BeginAssessment, Ask
<1>4. phase'[s] = "asked"
  BY <1>2, <1>3
<1>5. ASSUME NEW o \in Session, o # s
      PROVE  phase'[o] \in IF phase[o] = "asked" THEN {"refused", "dropped"} ELSE {phase[o]}
  BY <1>3, <1>5
<1>6. QED
  BY <1>1, <1>2, <1>4, <1>5, Zenon

\* An end takes a running session to its last phase and sends its last word.
LEMMA EndMoves ==
    ASSUME PhasesOK, NEW s \in Session, EndAssessment(s)
    PROVE  /\ message = NoMessage /\ call = NoCall /\ call' = [at |-> "end", of |-> s]
           /\ UNCHANGED <<bridge, inside, queue, task, active, heard, late, belated>>
           /\ phase[s] = "running" /\ phase' = [phase EXCEPT ![s] = "ended"]
           /\ message' = Word("ended", s)
<1>1. /\ message = NoMessage /\ call = NoCall /\ call' = [at |-> "end", of |-> s]
      /\ UNCHANGED <<bridge, inside, queue, task, active, heard, late, belated>> /\ message' = Word("ended", s)
  BY Zenon DEF EndAssessment, LockIsFree, MainFrame, RecordFrame, recordVars, lateVars
<1>2. phase[s] = "running" /\ phase' = [phase EXCEPT ![s] = "ended"]
  BY DEF EndAssessment, Becomes
<1>3. QED
  BY <1>1, <1>2, Zenon

\* A notice that reads the record adds at most one task, of the session on record.
LEMMA NotifyMoves ==
    ASSUME TypesOK, NotifyServiceDied
    PROVE  /\ UNCHANGED <<phase, bridge, inside, message, task, call, active, heard, late, belated>>
           /\ queue' = queue \/ (active # NoSession /\ queue' = Append(queue, Word("died", active)))
<1>1. /\ UNCHANGED <<phase, bridge, inside, message, task, call, active, heard, late, belated>>
      /\ queue' = queue \o DeathTask(active)
  BY Zenon DEF NotifyServiceDied, Reported, ipcVars, lateVars, recordVars, protocolVars
<1>2. queue \in Seq(Message) /\ (active # NoSession => Word("died", active) \in Message)
  BY DEF TypesOK, MessagesOK, RecordsOK, Word, Message, Words
<1>3. CASE active = NoSession
  BY <1>1, <1>2, <1>3 DEF DeathTask
<1>4. CASE active # NoSession
  BY <1>1, <1>2, <1>4 DEF DeathTask
<1>5. QED
  BY <1>1, <1>3, <1>4

\* The service takes its sessions with it, and what was not handed on yet is
\* left with the thread that took it.
LEMMA DyingMoves ==
    ASSUME PhasesOK, ServiceDies
    PROVE  /\ UNCHANGED <<bridge, queue, task, active, heard>> /\ message' = NoMessage
           /\ inside' = "no"
           /\ \A s \in Session : phase'[s] = IF phase[s] \in Waiting THEN "dropped" ELSE phase[s]
           /\ IF Pending THEN /\ late' = [late EXCEPT ![message.of] = message.what]
                              /\ belated' = belated \cup {message}
                         ELSE UNCHANGED lateVars
BY DEF ServiceDies, recordVars, lateVars, PhasesOK

\* Such a thread posts its message, calls the function, or loses the message.
LEMMA LateMoves ==
    ASSUME TypesOK, NEW s \in Session, HandOnLate(s)
    PROVE  /\ UNCHANGED <<phase, bridge, message, inside, task, call, active, belated>>
           /\ late[s] \in Words \ {"died"} /\ late' = [late EXCEPT ![s] = "none"]
           /\ Word(late[s], s) \in Message
           /\ \/ /\ ~CalledDirectly(late[s]) /\ queue' = Append(queue, Word(late[s], s))
                 /\ UNCHANGED <<heard, lost>>
              \/ /\ CalledDirectly(late[s]) /\ UNCHANGED queue
                 /\ \/ Calls(Word(late[s], s)) /\ UNCHANGED lost
                    \/ lost' = lost \cup {s} /\ UNCHANGED heard
<1>1. late[s] \in Words \ {"died"} /\ Word(late[s], s) \in Message
  BY DEF HandOnLate, TypesOK, MessagesOK, Word, Message
<1>2. QED
  BY <1>1, Zenon DEF HandOnLate, Posted, recordVars, protocolVars

LateInv == TypesOK /\ LateIsOver /\ MessageIsUsed

\* A session waits for its word before it is sent, and is over when the service
\* that sent it dies.
LEMMA LateKept ==
    ASSUME LateInv, [BridgeNext]_bridgeVars PROVE LateInv'
<1> USE DEF LateIsOver, MessageIsUsed, Word, NoMessage
<1>0. /\ TypesOK /\ TypesOK' /\ PhasesOK /\ phase \in [Session -> Phases] /\ NoSession \notin Session
      /\ late \in [Session -> (Words \ {"died"}) \cup {"none"}]
  BY PhaseMoves, MessagesKept, RecordsKept DEF LateInv, TypesOK, PhasesOK, MessagesOK, Session,
     NoSession
<1>i. LateIsOver /\ MessageIsUsed
  BY DEF LateInv
<1> SUFFICES LateIsOver' /\ MessageIsUsed'
  BY <1>0 DEF LateInv
<1>1. ASSUME NEW s \in Session, ServiceSpeaks(s) PROVE LateIsOver' /\ MessageIsUsed'
  BY <1>0, <1>i, <1>1, SpeakMoves DEF Waiting
<1>2. ASSUME NEW s \in Session, EndAssessment(s) PROVE LateIsOver' /\ MessageIsUsed'
  BY <1>0, <1>i, <1>2, EndMoves DEF Waiting
<1>3. ASSUME NEW s \in Session, BeginAssessment(s) PROVE LateIsOver' /\ MessageIsUsed'
  <2>1. /\ UNCHANGED <<late, belated>> /\ phase[s] = "unused" /\ phase'[s] = "asked"
        /\ \A o \in Session : o # s =>
             phase'[o] \in IF phase[o] = "asked" THEN {"refused", "dropped"} ELSE {phase[o]}
    BY <1>0, <1>3, BeginMoves
  <2>2. message' = NoMessage \/ \E o \in Session : phase[o] = "asked" /\ message' = Word("refused", o)
    BY <1>3, Zenon DEF BeginAssessment
  <2>3. ASSUME NEW o \in Session, phase[o] = "asked", message' = Word("refused", o)
        PROVE  LateIsOver' /\ MessageIsUsed'
    <3>1. message'.of = o /\ o # s /\ late[o] = "none" /\ phase'[o] # "unused"
      BY <1>i, <2>1, <2>3 DEF Waiting
    <3>2. \A x \in Session : late[x] # "none" => x # o /\ phase'[x] = phase[x]
      BY <1>i, <2>1, <3>1 DEF Waiting
    <3>3. QED
      BY <1>i, <2>1, <3>1, <3>2
  <2>4. CASE message' = NoMessage
    <3>1. \A x \in Session : late[x] # "none" => phase'[x] = phase[x]
      BY <1>i, <2>1 DEF Waiting
    <3>2. \A x \in Session : message'.of # x
      BY <1>0, <2>4
    <3>3. QED
      BY <1>i, <2>1, <2>4, <3>1, <3>2
  <2>5. QED
    BY <2>2, <2>3, <2>4
<1>4. CASE ServiceDies
  <2>1. /\ message' = NoMessage
        /\ \A s \in Session : phase'[s] = IF phase[s] \in Waiting THEN "dropped" ELSE phase[s]
        /\ IF Pending THEN /\ late' = [late EXCEPT ![message.of] = message.what]
                           /\ belated' = belated \cup {message}
                      ELSE UNCHANGED <<late, belated>>
    BY <1>0, <1>4, DyingMoves DEF lateVars
  <2>2. Pending => message \in Said /\ phase[message.of] # "unused"
    BY <1>0, <1>i DEF Pending, TypesOK, MessagesOK
  <2>3. Pending => message = Word(message.what, message.of)
    BY <2>2 DEF Said
  <2>4. QED
    BY <1>0, <1>i, <2>1, <2>2, <2>3 DEF Waiting, Said
<1>5. ASSUME NEW s \in Session, HandOnLate(s) PROVE LateIsOver' /\ MessageIsUsed'
  BY <1>0, <1>i, <1>5, LateMoves
<1>6. CASE UNCHANGED <<phase, late, belated>> /\ message' \in {message, NoMessage}
  BY <1>0, <1>i, <1>6
<1>7. BridgeAction =>
        \/ \E s \in Session : ServiceSpeaks(s) \/ BeginAssessment(s) \/ EndAssessment(s)
        \/ ServiceDies \/ (\E s \in Session : HandOnLate(s))
        \/ UNCHANGED <<phase, late, belated>> /\ (message' = message \/ message' = NoMessage)
  BY Zenon DEF BridgeAction, AskService, ServiceStarts, PostTask, CallDirectly, DirectCallReturns,
     DirectCallReenters, TakeDiedCallback, NotifyServiceDied, BeginReturns, EndReturns,
     QueryReturns, RequestThrows, TaskReturns, RunTask, MainFrame, protocolVars, ipcVars, lateVars
<1>8. UNCHANGED bridgeVars => UNCHANGED <<phase, late, belated, message>>
  BY Zenon DEF bridgeVars, protocolVars, ipcVars, lateVars
<1>9. QED
  BY <1>1, <1>2, <1>3, <1>4, <1>5, <1>6, <1>7, <1>8, NextIsAction

LEMMA LateInitially == BridgeInit => LateInv
BY BridgeTypesInitially DEF BridgeInit, LateInv, LateIsOver, MessageIsUsed

-----------------------------------------------------------------------------

Final == {"ended", "interrupted"}

\* The last word of a session is on its way, or its function runs.
LastWordOut(s) ==
    \/ message = Word(phase[s], s) \/ task = Word(phase[s], s) \/ late[s] = phase[s]
    \/ \E i \in 1..Len(queue) : queue[i] = Word(phase[s], s)

\* With NAPI: a session that is recorded, or about to be, has its last word
\* on its way once it is over.
ReleaseInv ==
    bridge = "napi" =>
        /\ inside = "no"
        /\ \A s \in Session :
             (active = s \/ (call.at = "begin" /\ call.of = s)) /\ phase[s] \in Final
               => LastWordOut(s)

\* Every step keeps it: a last word goes from the message to the queue to the
\* callback that takes the record back.
LEMMA ReleaseKept ==
    ASSUME LateInv, ReleaseInv, [BridgeNext]_bridgeVars
    PROVE  ReleaseInv'
<1> USE DEF ReleaseInv, LastWordOut, Final, Word, NoMessage, NoCall
<1>0. /\ PhasesOK /\ ReleaseInv /\ queue \in Seq(Message)
      /\ phase \in [Session -> Phases] /\ TypesOK /\ LateIsOver
  BY DEF LateInv, TypesOK, PhasesOK, MessagesOK
<1>1. ASSUME NEW s \in Session, ServiceSpeaks(s) PROVE ReleaseInv'
  BY <1>0, <1>1, SpeakMoves DEF Waiting
<1>2. ASSUME NEW s \in Session, BeginAssessment(s) PROVE ReleaseInv'
  <2>1. /\ message = NoMessage /\ call = NoCall /\ call' = [at |-> "begin", of |-> s]
        /\ UNCHANGED <<bridge, inside, queue, task, active, late>>
    BY <1>0, <1>2, BeginMoves
  <2>2. phase'[s] = "asked"
    BY <1>0, <1>2, BeginMoves
  <2>3. \A o \in Session : phase'[o] \in Final => o # s /\ phase'[o] = phase[o]
    <3>1. \A o \in Session : o # s =>
            phase'[o] \in IF phase[o] = "asked" THEN {"refused", "dropped"} ELSE {phase[o]}
      BY <1>0, <1>2, BeginMoves
    <3>2. QED
      BY <2>2, <3>1
  <2>4. SUFFICES ASSUME bridge = "napi", NEW o \in Session, active = o, phase'[o] \in Final
                 PROVE  LastWordOut(o)'
    BY <2>1, <2>3
  <2>5. phase'[o] = phase[o] /\ LastWordOut(o)
    BY <2>3, <2>4
  <2>6. message # Word(phase[o], o)
    BY <2>1, <2>3, <2>4
  <2>7. QED
    BY <2>1, <2>5, <2>6
<1>3. ASSUME NEW s \in Session, EndAssessment(s) PROVE ReleaseInv'
  BY <1>0, <1>3, EndMoves
<1>4. CASE PostTask
  <2>1. queue' = Append(queue, message) /\ message # NoMessage
        /\ UNCHANGED <<phase, bridge, inside, task, call, active, late>>
    BY <1>4 DEF PostTask, Posted, recordVars, protocolVars, lateVars
  <2>2. message \in Message
    BY <1>0, <2>1 DEF TypesOK, MessagesOK, Said, Message
  <2>3. /\ Len(queue') = Len(queue) + 1 /\ queue'[Len(queue) + 1] = message /\ Len(queue) \in Nat
        /\ \A i \in 1..Len(queue) : queue'[i] = queue[i]
    BY <1>0, <2>1, <2>2
  <2>4. QED
    BY <1>0, <2>1, <2>3
<1>5. CASE CallDirectly \/ DirectCallReturns \/ DirectCallReenters
  <2>1. bridge # "napi" /\ bridge' = bridge
    BY <1>5 DEF CallDirectly, CalledDirectly, DirectCallReturns, DirectCallReenters
  <2>2. QED
    BY <2>1
<1>6. CASE NotifyServiceDied
  <2>1. /\ queue' = queue \/ (active # NoSession /\ queue' = Append(queue, Word("died", active)))
        /\ UNCHANGED <<phase, bridge, inside, message, task, call, active, late>>
    BY <1>0, <1>6, NotifyMoves
  <2>2. Len(queue) \in Nat /\ \A i \in 1..Len(queue) : i \in 1..Len(queue') /\ queue'[i] = queue[i]
    BY <1>0, <2>1 DEF TypesOK, RecordsOK, Message, Words
  <2>3. QED
    BY <1>0, <1>6, <2>2, NotifyMoves
<1>7. CASE RunTask
  <2>1. /\ queue # <<>> /\ task = NoMessage /\ task' = Head(queue) /\ queue' = Tail(queue)
        /\ UNCHANGED <<phase, bridge, inside, message, call, active, late>>
    BY <1>7, Zenon DEF RunTask, MainFrame, RecordFrame, recordVars, lateVars
  <2>2. /\ task' = queue[1] /\ Len(queue) \in Nat /\ Len(queue') = Len(queue) - 1
        /\ \A i \in 1..Len(queue) : i # 1 => i - 1 \in 1..Len(queue') /\ queue'[i - 1] = queue[i]
    BY <1>0, <2>1
  <2>3. SUFFICES ASSUME bridge = "napi", NEW s \in Session, LastWordOut(s), phase[s] \in Final
                 PROVE  LastWordOut(s)'
    BY <2>1
  <2>4. task # Word(phase[s], s)
    BY <2>1, <2>3
  <2>5. CASE message = Word(phase[s], s) \/ late[s] = phase[s]
    BY <2>1, <2>5
  <2>6. ASSUME NEW i \in 1..Len(queue), queue[i] = Word(phase[s], s) PROVE LastWordOut(s)'
    <3>1. CASE i = 1
      BY <2>1, <2>2, <2>6, <3>1
    <3>2. CASE i # 1
      BY <2>1, <2>2, <2>6, <3>2
    <3>3. QED
      BY <3>1, <3>2
  <2>7. QED
    BY <2>3, <2>4, <2>5, <2>6
<1>8. CASE TaskReturns
  <2>1. /\ call.at # "begin" /\ call' = call
        /\ UNCHANGED <<phase, bridge, inside, message, queue, late>>
        /\ bridge = "napi" /\ task.what \in LastWords => active' = NoSession
        /\ ~(bridge = "napi" /\ task.what \in LastWords) => active' = active
    BY <1>8 DEF TaskReturns, Unregister, MainFrame, RecordFrame, recordVars, lateVars
  <2>2. NoSession \notin Session
    BY DEF NoSession, Session
  <2>3. QED
    BY <1>0, <2>1, <2>2 DEF LastWords
<1>9. CASE BeginReturns
  <2>1. /\ call.at = "begin" /\ call'.at # "begin" /\ active' \in {active, call.of}
        /\ UNCHANGED <<phase, bridge, inside, message, queue, task, late>>
    BY <1>9 DEF BeginReturns, Register, MainFrame, RecordFrame, recordVars, lateVars
  <2>2. QED
    BY <1>0, <2>1
<1>10. CASE ServiceDies
  <2>1. /\ UNCHANGED <<bridge, queue, task, active>> /\ inside' = "no"
        /\ \A s \in Session : phase'[s] = IF phase[s] \in Waiting THEN "dropped" ELSE phase[s]
        /\ late' = IF Pending THEN [late EXCEPT ![message.of] = message.what] ELSE late
    BY <1>0, <1>10, DyingMoves DEF lateVars
  <2>2. call' = call \/ call'.at = "lost"
    BY <1>0, <1>10 DEF ServiceDies, TypesOK, RecordsOK
  <2>3. SUFFICES ASSUME bridge = "napi", NEW s \in Session, LastWordOut(s), phase[s] \in Final,
                        phase'[s] = phase[s]
                 PROVE  LastWordOut(s)'
    BY <2>1, <2>2 DEF Waiting
  <2>4. CASE message = Word(phase[s], s)
    <3>1. Pending /\ late \in [Session -> (Words \ {"died"}) \cup {"none"}]
      BY <1>0, <2>3, <2>4 DEF Pending, TypesOK, MessagesOK
    <3>2. late'[s] = phase'[s]
      BY <2>1, <2>3, <2>4, <3>1
    <3>3. QED
      BY <3>2
  <2>5. CASE late[s] = phase[s]
    <3>1. message.of # s
      BY <1>0, <2>3, <2>5 DEF LateIsOver
    <3>2. late \in [Session -> (Words \ {"died"}) \cup {"none"}]
      BY <1>0 DEF TypesOK, MessagesOK
    <3>3. late'[s] = phase'[s]
      BY <2>1, <2>3, <2>5, <3>1, <3>2
    <3>4. QED
      BY <3>3
  <2>6. QED
    BY <2>1, <2>3, <2>4, <2>5
<1>11. CASE \/ EndReturns \/ AskService \/ QueryReturns \/ RequestThrows \/ ServiceStarts
            \/ TakeDiedCallback
  <2>1. UNCHANGED <<phase, bridge, inside, message, queue, task, late>>
    BY <1>11, Zenon DEF EndReturns, AskService, QueryReturns, RequestThrows, ServiceStarts,
       TakeDiedCallback, MainFrame, ipcVars, lateVars, mainVars, protocolVars
  <2>2. active' \in {active, NoSession}
    BY <1>11 DEF EndReturns, AskService, QueryReturns, RequestThrows, ServiceStarts,
       TakeDiedCallback, Unregister, RecordFrame, recordVars
  <2>3. call' = call \/ call'.at # "begin"
    BY <1>11 DEF EndReturns, AskService, QueryReturns, RequestThrows, ServiceStarts,
       TakeDiedCallback, mainVars
  <2>4. NoSession \notin Session
    BY DEF NoSession, Session
  <2>5. QED
    BY <1>0, <2>1, <2>2, <2>3, <2>4
<1>12. CASE UNCHANGED bridgeVars
  BY <1>0, <1>12 DEF bridgeVars, ipcVars, lateVars, mainVars, recordVars, protocolVars
<1>13. ASSUME NEW s \in Session, HandOnLate(s) PROVE ReleaseInv'
  <2>1. /\ UNCHANGED <<phase, bridge, message, inside, task, call, active>>
        /\ late[s] \in Words \ {"died"} /\ late' = [late EXCEPT ![s] = "none"]
        /\ Word(late[s], s) \in Message
        /\ queue' = queue \/ queue' = Append(queue, Word(late[s], s))
        /\ bridge = "napi" => queue' = Append(queue, Word(late[s], s))
    BY <1>0, <1>13, LateMoves DEF CalledDirectly
  <2>2. late \in [Session -> (Words \ {"died"}) \cup {"none"}]
    BY <1>0 DEF TypesOK, MessagesOK
  <2>3. SUFFICES ASSUME bridge = "napi", NEW o \in Session, LastWordOut(o), phase[o] \in Final
                 PROVE  LastWordOut(o)'
    BY <2>1
  <2>4. /\ Len(queue') = Len(queue) + 1 /\ queue'[Len(queue) + 1] = Word(late[s], s)
        /\ Len(queue) \in Nat /\ \A i \in 1..Len(queue) : queue'[i] = queue[i]
    BY <1>0, <2>1, <2>3
  <2>5. late[o] = phase[o] => o = s \/ late'[o] = phase'[o]
    BY <2>1, <2>2
  <2>6. QED
    BY <2>1, <2>3, <2>4, <2>5
<1>14. QED
  BY <1>1, <1>2, <1>3, <1>4, <1>5, <1>6, <1>7, <1>8, <1>9, <1>10, <1>11, <1>12, <1>13,
     NextIsAction, Zenon DEF BridgeAction

\* The record of a session that is over is kept only while the last word of
\* that session is on its way (CallJsOnInterrupted and CallJsOnEnd call
\* UnregisterActiveAssessmentCallback).
THEOREM RecordIsReleased == BridgeSpec => []RecordEndsWithSession
<1>1. BridgeInit => ArmedInv /\ LateInv /\ ReleaseInv
  <2>1. BridgeInit => ArmedInv
    BY BridgeTypesInitially DEF BridgeInit, ArmedInv, RecordIsArmed
  <2>2. BridgeInit => ReleaseInv
    BY DEF BridgeInit, ReleaseInv, NoSession, NoCall, Session
  <2>3. QED
    BY <2>1, <2>2, LateInitially
<1>2. ArmedInv /\ LateInv /\ ReleaseInv /\ [BridgeNext]_bridgeVars
        => (ArmedInv /\ LateInv /\ ReleaseInv)'
  BY ArmedKept, LateKept, ReleaseKept
<1>3. ArmedInv /\ ReleaseInv => RecordEndsWithSession
  <2>1. ASSUME ArmedInv, active # NoSession PROVE active \in Session /\ bridge = "napi"
    BY <2>1 DEF ArmedInv, TypesOK, PhasesOK, RecordsOK, Bridges
  <2>2. QED
    BY <2>1 DEF ReleaseInv, RecordEndsWithSession, Final, LastWordOut
<1>4. QED
  BY <1>1, <1>2, <1>3, PTL DEF BridgeSpec
-----------------------------------------------------------------------------

\* What the threads of the application still hold of a session.
Known(s) ==
    \/ heard[s] # <<>> \/ active = s \/ message.of = s \/ call.of = s \/ late[s] # "none"
    \/ \E i \in 1..Len(queue) : queue[i].of = s

\* Sessions are used in the order of their numbers, one at a time.
PhasesInTurn ==
    \A s, o \in Session : o > s /\ phase[s] \in Waiting \cup {"unused"} => phase[o] = "unused"
KnownIsUsed == \A s \in Session : Known(s) => phase[s] # "unused"

\* What the IPC thread works on is of the latest session anything is held of.
MessageIsLatest ==
    message # NoMessage =>
        /\ active <= message.of
        /\ \A i \in 1..Len(queue) : queue[i].of <= message.of
        /\ \A s \in Session : heard[s] # <<>> \/ late[s] # "none" => s <= message.of

\* The tasks wait in the order of the sessions, the reports of deaths and the
\* messages of dead services apart.
InOrder(m) == m.what # "died" /\ m \notin belated
TasksInTurn ==
    \A i, j \in 1..Len(queue) : i < j /\ InOrder(queue[j]) => queue[i].of <= queue[j].of
TasksAreLatest ==
    \A j \in 1..Len(queue) : \A s \in Session :
        InOrder(queue[j]) /\ heard[s] # <<>> /\ bridge = "napi" => s <= queue[j].of
AniPostsInterrupted ==
    bridge = "ani" => \A i \in 1..Len(queue) : queue[i].what \in {"interrupted", "died"}

TurnInv ==
    /\ TypesOK /\ LateIsOver /\ MessageIsUsed
    /\ PhasesInTurn /\ KnownIsUsed /\ MessageIsLatest
    /\ TasksInTurn /\ TasksAreLatest /\ AniPostsInterrupted

\* Only a begin takes a session into use.
LEMMA UnusedStays ==
    ASSUME PhasesOK, [BridgeNext]_bridgeVars, ~\E b \in Session : BeginAssessment(b)
    PROVE  \A s \in Session : phase[s] = "unused" => phase'[s] = "unused"
<1> USE DEF PhasesOK, Waiting
<1>1. ASSUME NEW s \in Session, ServiceSpeaks(s)
      PROVE  \A o \in Session : phase[o] = "unused" => phase'[o] = "unused"
  BY <1>1, SpeakMoves
<1>2. ASSUME NEW s \in Session, EndAssessment(s)
      PROVE  \A o \in Session : phase[o] = "unused" => phase'[o] = "unused"
  BY <1>2, EndMoves
<1>3. CASE ServiceDies
  BY <1>3 DEF ServiceDies
<1>4. CASE UNCHANGED phase
  BY <1>4
<1>5. BridgeAction =>
        \/ \E s \in Session : ServiceSpeaks(s) \/ BeginAssessment(s) \/ EndAssessment(s)
        \/ ServiceDies \/ UNCHANGED phase
  BY Zenon DEF BridgeAction, AskService, ServiceStarts, PostTask, CallDirectly, DirectCallReturns,
     DirectCallReenters, TakeDiedCallback, NotifyServiceDied, BeginReturns, EndReturns,
     QueryReturns, RequestThrows, TaskReturns, RunTask, HandOnLate, MainFrame, protocolVars
<1>6. UNCHANGED bridgeVars => UNCHANGED phase
  BY Zenon DEF bridgeVars, protocolVars
<1>7. QED
  BY <1>1, <1>2, <1>3, <1>4, <1>5, <1>6, NextIsAction, Zenon

\* Every step keeps the order of the sessions: a begin takes the first unused
\* one, when no other waits any more.
LEMMA PhasesStayInTurn ==
    ASSUME PhasesOK, PhasesInTurn, [BridgeNext]_bridgeVars
    PROVE  PhasesInTurn'
<1> USE DEF PhasesInTurn, Waiting
<1>0. Session \subseteq Nat /\ \A s \in Session : Forward(s)
  BY PhaseMoves DEF Session
<1>1. ASSUME NEW b \in Session, BeginAssessment(b) PROVE PhasesInTurn'
  <2>1. phase[b] = "unused" /\ phase'[b] = "asked"
        /\ \A o \in Session : o < b => phase[o] # "unused"
    BY <1>1, BeginMoves
  <2>2. \A o \in Session : o # b => phase'[o] \in {"refused", "dropped"} \/ phase'[o] = phase[o]
    BY <1>1, BeginMoves
  <2>3. \A o \in Session : o # b => phase'[o] \notin Waiting
    BY <1>1, BeginMoves
  <2>4. \A o \in Session : phase[o] = "unused" /\ o # b => phase'[o] = "unused"
    BY <1>1, BeginMoves
  <2>5. \A o \in Session : phase'[o] = "unused" => o > b
    BY <1>0, <2>1, <2>2
  <2>6. \A o \in Session : o > b => phase'[o] = "unused"
    BY <1>0, <2>1, <2>4
  <2>7. SUFFICES ASSUME NEW s \in Session, NEW o \in Session, o > s,
                        phase'[s] \in Waiting \cup {"unused"}
                 PROVE  phase'[o] = "unused"
    OBVIOUS
  <2>8. s = b \/ s > b
    BY <2>3, <2>5, <2>7
  <2>9. QED
    BY <1>0, <2>6, <2>7, <2>8
<1>2. CASE ~\E b \in Session : BeginAssessment(b)
  <2>1. \A s \in Session :
          phase'[s] \in Waiting \cup {"unused"} => phase[s] \in Waiting \cup {"unused"}
    BY <1>0, <1>2 DEF Forward
  <2>2. \A s \in Session : phase[s] = "unused" => phase'[s] = "unused"
    BY <1>2, UnusedStays
  <2>3. QED
    BY <2>1, <2>2
<1>3. QED
  BY <1>1, <1>2

\* Nothing is held of a later session.
HeldUpTo(s) ==
    /\ active <= s
    /\ \A i \in 1..Len(queue) : queue[i].of <= s
    /\ \A o \in Session : heard[o] # <<>> \/ late[o] # "none" => o <= s

\* While a session waits for a word, nothing is held of a later one.
LEMMA LatestIsWaiting ==
    ASSUME TurnInv, NEW s \in Session, phase[s] \in Waiting
    PROVE  HeldUpTo(s)
<1>1. \A o \in Session : Known(o) => o <= s
  BY DEF TurnInv, PhasesInTurn, KnownIsUsed, Session
<1>2. active \in Session \cup {NoSession} /\ \A i \in 1..Len(queue) : queue[i].of \in Session
  <2>1. active \in Session \cup {NoSession} /\ queue \in Seq(Message)
    BY Zenon DEF TurnInv, TypesOK, RecordsOK, MessagesOK
  <2>2. \A i \in 1..Len(queue) : queue[i] \in Message
    BY <2>1
  <2>3. QED
    BY <2>1, <2>2 DEF Message
<1>3. QED
  BY <1>1, <1>2 DEF HeldUpTo, Known, NoSession, Session

\* A step that leaves the tasks and what was heard alone, hands nothing new to
\* the IPC threads, and takes up no session but one it held already.
Quiet ==
    /\ UNCHANGED <<bridge, queue, heard>>
    /\ message' \in {message, NoMessage}
    /\ active' \in {active, NoSession} \/ (message = NoMessage /\ active' = call.of)
    /\ call'.of \in {call.of, NoSession}
    /\ message' = NoMessage \/ late' = late
    /\ \A s \in Session : late'[s] # "none" => late[s] # "none" \/ message.of = s
    /\ belated \subseteq belated'

\* Every other step speaks, begins, ends, posts, or calls a function.
LEMMA QuietSteps ==
    ASSUME TypesOK, [BridgeNext]_bridgeVars
    PROVE  \/ \E s \in Session : ServiceSpeaks(s) \/ BeginAssessment(s) \/ EndAssessment(s)
           \/ PostTask \/ CallDirectly \/ NotifyServiceDied \/ RunTask
           \/ (\E s \in Session : HandOnLate(s)) \/ Quiet
<1> USE DEF Quiet, NoMessage, NoCall
<1>1. CASE AskService \/ QueryReturns \/ RequestThrows \/ ServiceStarts \/ DirectCallReturns
           \/ DirectCallReenters \/ TakeDiedCallback
  BY <1>1 DEF AskService, QueryReturns, RequestThrows, ServiceStarts, DirectCallReturns,
     DirectCallReenters, TakeDiedCallback, MainFrame, RecordFrame, ipcVars, lateVars, mainVars,
     recordVars
<1>2. CASE ServiceDies
  <2>1. UNCHANGED <<bridge, queue, heard, active>> /\ message' = NoMessage
    BY <1>2, Zenon DEF ServiceDies, recordVars
  <2>2. call' = call \/ call' = [call EXCEPT !.at = "lost"]
    BY <1>2, Zenon DEF ServiceDies
  <2>3. [call EXCEPT !.at = "lost"].of = call.of
    BY DEF TypesOK, RecordsOK
  <2>4. /\ late' = late \/ late' = [late EXCEPT ![message.of] = message.what]
        /\ belated \subseteq belated'
    BY <1>2 DEF ServiceDies
  <2>5. \A s \in Session : late'[s] # "none" => late[s] # "none" \/ message.of = s
    BY <2>4 DEF TypesOK, MessagesOK
  <2>6. QED
    BY <2>1, <2>2, <2>3, <2>4, <2>5
<1>3. CASE BeginReturns
  BY <1>3 DEF BeginReturns, Register, MainFrame, RecordFrame, recordVars, lateVars
<1>4. CASE EndReturns
  BY <1>4 DEF EndReturns, Unregister, MainFrame, RecordFrame, recordVars, lateVars
<1>5. CASE TaskReturns
  BY <1>5 DEF TaskReturns, Unregister, MainFrame, RecordFrame, recordVars, lateVars
<1>6. CASE UNCHANGED bridgeVars
  BY <1>6 DEF bridgeVars, ipcVars, lateVars, mainVars, recordVars
<1>7. QED
  BY <1>1, <1>2, <1>3, <1>4, <1>5, <1>6, NextIsAction, Zenon DEF BridgeAction

\* Each kind of step keeps the order of what is held.
LEMMA TurnKept ==
    ASSUME TurnInv, [BridgeNext]_bridgeVars
    PROVE  TurnInv'
<1> DEFINE Held == KnownIsUsed' /\ MessageIsLatest' /\ TasksInTurn' /\ TasksAreLatest'
                   /\ AniPostsInterrupted'
<1>0. TypesOK' /\ LateIsOver' /\ MessageIsUsed' /\ PhasesInTurn'
  BY LateKept, PhasesStayInTurn DEF TurnInv, LateInv, TypesOK
<1>a. /\ TypesOK /\ PhasesOK /\ queue \in Seq(Message) /\ heard \in [Session -> Seq(Words)]
      /\ Session \subseteq Nat /\ active \in Nat /\ NoSession \notin Session
      /\ message \in Message \cup {NoMessage} /\ Len(queue) \in Nat
      /\ \A i \in 1..Len(queue) : queue[i] \in Message
  <2>1. TypesOK /\ PhasesOK /\ MessagesOK /\ RecordsOK
    BY DEF TurnInv, TypesOK
  <2>2. /\ queue \in Seq(Message) /\ heard \in [Session -> Seq(Words)]
        /\ message \in Said \cup {NoMessage}
    BY <2>1, Zenon DEF MessagesOK
  <2>3. Said \subseteq Message
    BY DEF Said, Message
  <2>4. Session \subseteq Nat /\ active \in Nat /\ NoSession \notin Session
    BY <2>1 DEF RecordsOK, Session, NoSession
  <2>5. QED
    BY <2>1, <2>2, <2>3, <2>4
<1>b. \A m \in Message : m.of \in Session /\ m # NoMessage
  BY <1>a DEF Message, Words, NoMessage, NoSession
<1>c. \A s \in Session : phase'[s] = "unused" => phase[s] = "unused"
  BY <1>a, PhaseMoves DEF Forward
<1>1. ASSUME NEW s \in Session, ServiceSpeaks(s) \/ EndAssessment(s) PROVE Held
  <2>1. /\ message = NoMessage /\ message'.of = s /\ phase[s] \in Waiting
        /\ UNCHANGED <<bridge, queue, active, heard, late, belated>> /\ call'.of \in {call.of, s}
    BY <1>a, <1>1, SpeakMoves, EndMoves DEF Word, Waiting
  <2>2. HeldUpTo(s)
    BY <2>1, LatestIsWaiting
  <2>3. KnownIsUsed'
    <3>1. \A o \in Session : Known(o)' => Known(o) \/ o = s
      BY <2>1 DEF Known
    <3>2. QED
      BY <1>c, <2>1, <3>1 DEF TurnInv, KnownIsUsed, Waiting
  <2>4. MessageIsLatest'
    BY <2>1, <2>2 DEF HeldUpTo, MessageIsLatest
  <2>5. TasksInTurn' /\ TasksAreLatest' /\ AniPostsInterrupted'
    BY <2>1 DEF TurnInv, TasksInTurn, TasksAreLatest, InOrder, AniPostsInterrupted
  <2>6. QED
    BY <2>3, <2>4, <2>5
<1>2. ASSUME NEW b \in Session, BeginAssessment(b) PROVE Held
  <2>1. /\ message = NoMessage /\ call' = [at |-> "begin", of |-> b]
        /\ UNCHANGED <<bridge, queue, active, heard, late, belated>> /\ phase'[b] = "asked"
    BY <1>a, <1>2, BeginMoves
  <2>2. \/ message' = NoMessage
        \/ \E s \in Session : phase[s] = "asked" /\ message'.of = s
    <3>1. CASE \E s \in Session : phase[s] = "asked"
      <4>1. message' = Word("refused", CHOOSE s \in Session : phase[s] = "asked")
        BY <1>2, <3>1, Zenon DEF BeginAssessment
      <4>2. QED
        BY <3>1, <4>1 DEF Word
    <3>2. CASE ~\E s \in Session : phase[s] = "asked"
      BY <1>2, <3>2, Zenon DEF BeginAssessment
    <3>3. QED
      BY <3>1, <3>2
  <2>3. KnownIsUsed'
    <3>1. \A o \in Session : Known(o)' => Known(o) \/ o = b \/ phase[o] = "asked"
      BY <1>a, <2>1, <2>2 DEF Known, NoMessage
    <3>2. QED
      BY <1>c, <2>1, <3>1 DEF TurnInv, KnownIsUsed
  <2>4. ASSUME NEW s \in Session, phase[s] = "asked", message'.of = s PROVE MessageIsLatest'
    <3>1. HeldUpTo(s)
      BY <2>4, LatestIsWaiting DEF Waiting
    <3>2. QED
      BY <2>1, <2>4, <3>1 DEF HeldUpTo, MessageIsLatest
  <2>5. MessageIsLatest'
    BY <2>2, <2>4 DEF MessageIsLatest
  <2>6. TasksInTurn' /\ TasksAreLatest' /\ AniPostsInterrupted'
    BY <2>1 DEF TurnInv, TasksInTurn, TasksAreLatest, InOrder, AniPostsInterrupted
  <2>7. QED
    BY <2>3, <2>5, <2>6
<1>3. ASSUME PostTask PROVE Held
  <2>1. /\ queue' = Append(queue, message) /\ message # NoMessage /\ message' = NoMessage
        /\ UNCHANGED <<bridge, call, active, heard, late, belated>>
        /\ bridge = "ani" => message.what = "interrupted"
    BY <1>3 DEF PostTask, Posted, CalledDirectly, recordVars, lateVars
  <2>2. /\ Len(queue') = Len(queue) + 1 /\ queue'[Len(queue) + 1] = message
        /\ \A i \in 1..Len(queue) : queue'[i] = queue[i]
    BY <1>a, <2>1
  <2>3. KnownIsUsed'
    <3>1. \A o \in Session : Known(o)' => Known(o)
      BY <1>a, <2>1, <2>2 DEF Known, NoMessage
    <3>2. QED
      BY <1>c, <3>1 DEF TurnInv, KnownIsUsed
  <2>4. /\ \A i \in 1..Len(queue) : queue[i].of <= message.of
        /\ \A o \in Session : heard[o] # <<>> => o <= message.of
    BY <2>1 DEF TurnInv, MessageIsLatest
  <2>5. \A i \in 1..Len(queue') : i \in 1..Len(queue) \/ i = Len(queue) + 1
    BY <1>a, <2>2
  <2>6. TasksInTurn'
    <3> SUFFICES ASSUME NEW i \in 1..Len(queue'), NEW j \in 1..Len(queue'), i < j,
                        InOrder(queue'[j])
                 PROVE  queue'[i].of <= queue'[j].of
      BY <2>1 DEF TasksInTurn, InOrder
    <3>1. i \in 1..Len(queue)
      BY <1>a, <2>2
    <3>2. QED
      BY <2>1, <2>2, <2>4, <2>5, <3>1 DEF TurnInv, TasksInTurn, InOrder
  <2>7. TasksAreLatest'
    BY <2>1, <2>2, <2>4, <2>5 DEF TurnInv, TasksAreLatest, InOrder
  <2>8. MessageIsLatest' /\ AniPostsInterrupted'
    BY <2>1, <2>2, <2>5 DEF TurnInv, MessageIsLatest, AniPostsInterrupted
  <2>9. QED
    BY <2>3, <2>6, <2>7, <2>8
<1>4. ASSUME CallDirectly PROVE Held
  <2>1. /\ bridge = "ani" /\ message # NoMessage /\ message' \in {message, NoMessage}
        /\ UNCHANGED <<bridge, queue, call, active, late, belated>>
        /\ heard' = heard \/ Calls(message)
    BY <1>4 DEF CallDirectly, CalledDirectly, mainVars, recordVars, lateVars
  <2>2. \A o \in Session : heard'[o] = heard[o] \/ o = message.of
    BY <1>a, <2>1 DEF Calls
  <2>3. KnownIsUsed'
    <3>0. \A o \in Session : message'.of = o => message.of = o
      BY <1>a, <2>1 DEF NoMessage
    <3>1. \A o \in Session : Known(o)' => Known(o)
      BY <2>1, <2>2, <3>0 DEF Known
    <3>2. QED
      BY <1>c, <3>1 DEF TurnInv, KnownIsUsed
  <2>4. MessageIsLatest'
    <3>1. /\ active <= message.of
          /\ \A i \in 1..Len(queue) : queue[i].of <= message.of
          /\ \A s \in Session : heard[s] # <<>> \/ late[s] # "none" => s <= message.of
      BY <2>1 DEF TurnInv, MessageIsLatest
    <3>2. message.of \in Nat
      BY <1>a, <1>b, <2>1
    <3>3. \A s \in Session : heard'[s] # <<>> => s <= message.of
      BY <1>a, <2>2, <3>1, <3>2
    <3>4. QED
      BY <2>1, <3>1, <3>3 DEF MessageIsLatest
  <2>5. TasksInTurn' /\ TasksAreLatest' /\ AniPostsInterrupted'
    BY <2>1 DEF TurnInv, TasksInTurn, TasksAreLatest, InOrder, AniPostsInterrupted
  <2>6. QED
    BY <2>3, <2>4, <2>5
<1>5. ASSUME NotifyServiceDied PROVE Held
  <2>1. /\ UNCHANGED <<bridge, message, call, active, heard, late, belated>>
        /\ queue' = queue \/ (active # NoSession /\ queue' = Append(queue, Word("died", active)))
    BY <1>a, <1>5, NotifyMoves
  <2>2. CASE queue' = queue
    <3>1. \A o \in Session : Known(o)' => Known(o)
      BY <2>1, <2>2 DEF Known
    <3>2. KnownIsUsed'
      BY <1>c, <3>1 DEF TurnInv, KnownIsUsed
    <3>3. QED
      BY <2>1, <2>2, <3>2 DEF TurnInv, MessageIsLatest, TasksInTurn, TasksAreLatest, InOrder,
         AniPostsInterrupted
  <2>3. CASE active # NoSession /\ queue' = Append(queue, Word("died", active))
    <3>1. Word("died", active) \in Message
      BY <1>a, <2>3 DEF TypesOK, RecordsOK, Word, Message, Words
    <3>2. /\ Len(queue') = Len(queue) + 1 /\ queue'[Len(queue) + 1].of = active
          /\ queue'[Len(queue) + 1].what = "died"
          /\ \A i \in 1..Len(queue) : queue'[i] = queue[i]
      BY <1>a, <2>3, <3>1 DEF Word
    <3>3. KnownIsUsed'
      <4>1. \A o \in Session : Known(o)' => Known(o)
        BY <1>a, <2>1, <3>2 DEF Known
      <4>2. QED
        BY <1>c, <4>1 DEF TurnInv, KnownIsUsed
    <3>4. \A i \in 1..Len(queue') : i \in 1..Len(queue) \/ i = Len(queue) + 1
      BY <1>a, <3>2
    <3>5. MessageIsLatest'
      BY <2>1, <3>2, <3>4 DEF TurnInv, MessageIsLatest
    <3>6. TasksInTurn'
      <4> SUFFICES ASSUME NEW i \in 1..Len(queue'), NEW j \in 1..Len(queue'), i < j,
                          InOrder(queue'[j])
                   PROVE  queue'[i].of <= queue'[j].of
        BY <2>1 DEF TasksInTurn, InOrder
      <4>1. i \in 1..Len(queue) /\ j \in 1..Len(queue)
        BY <1>a, <3>2, <3>4 DEF InOrder
      <4>2. QED
        BY <2>1, <3>2, <4>1 DEF TurnInv, TasksInTurn, InOrder
    <3>7. TasksAreLatest' /\ AniPostsInterrupted'
      BY <2>1, <3>2, <3>4 DEF TurnInv, TasksAreLatest, InOrder, AniPostsInterrupted
    <3>8. QED
      BY <3>3, <3>5, <3>6, <3>7
  <2>4. QED
    BY <2>1, <2>2, <2>3
<1>6. ASSUME RunTask PROVE Held
  <2>1. /\ queue # <<>> /\ queue' = Tail(queue) /\ Calls(Head(queue))
        /\ UNCHANGED <<bridge, message, call, active, late, belated>>
    BY <1>6, Zenon DEF RunTask, MainFrame, RecordFrame, recordVars, lateVars
  <2>2. /\ Len(queue') = Len(queue) - 1 /\ 1 \in 1..Len(queue) /\ Head(queue) = queue[1]
        /\ \A i \in 1..Len(queue') : i + 1 \in 1..Len(queue) /\ queue'[i] = queue[i + 1]
    BY <1>a, <2>1
  <2>3. \A o \in Session : heard'[o] = heard[o] \/ o = queue[1].of
    BY <1>a, <2>1, <2>2 DEF Calls
  <2>4. KnownIsUsed'
    <3>1. \A o \in Session : Known(o)' => Known(o)
      BY <1>a, <2>1, <2>2, <2>3 DEF Known
    <3>2. QED
      BY <1>c, <3>1 DEF TurnInv, KnownIsUsed
  <2>5. MessageIsLatest' /\ AniPostsInterrupted'
    BY <1>a, <2>1, <2>2, <2>3 DEF TurnInv, MessageIsLatest, AniPostsInterrupted
  <2>6. TasksInTurn'
    BY <1>a, <2>1, <2>2 DEF TurnInv, TasksInTurn, InOrder
  <2>7. TasksAreLatest'
    <3> SUFFICES ASSUME NEW j \in 1..Len(queue'), NEW s \in Session, InOrder(queue'[j]),
                        heard'[s] # <<>>, bridge = "napi"
                 PROVE  s <= queue'[j].of
      BY <2>1 DEF TasksAreLatest, InOrder
    <3>1. j + 1 \in 1..Len(queue) /\ queue'[j] = queue[j + 1] /\ 1 < j + 1
      BY <2>2
    <3>2. CASE s = queue[1].of
      BY <2>2, <3>1, <3>2 DEF TurnInv, TasksInTurn
    <3>3. CASE s # queue[1].of
      BY <2>1, <2>3, <3>1, <3>3 DEF TurnInv, TasksAreLatest
    <3>4. QED
      BY <3>2, <3>3
  <2>8. QED
    BY <2>4, <2>5, <2>6, <2>7
<1>7. ASSUME Quiet PROVE Held
  <2>1. KnownIsUsed'
    <3>1. \A o \in Session : Known(o)' => Known(o)
      BY <1>a, <1>7 DEF Known, Quiet, NoMessage
    <3>2. QED
      BY <1>c, <3>1 DEF TurnInv, KnownIsUsed
  <2>2. MessageIsLatest'
    <3>1. CASE message' = NoMessage
      BY <3>1 DEF MessageIsLatest
    <3>2. CASE message' = message /\ message # NoMessage
      <4>1. /\ message.of \in Nat /\ active' \in {active, NoSession}
            /\ UNCHANGED <<queue, heard, late>>
        BY <1>a, <1>b, <1>7, <3>2 DEF Quiet
      <4>2. /\ active <= message.of
            /\ \A i \in 1..Len(queue) : queue[i].of <= message.of
            /\ \A s \in Session : heard[s] # <<>> \/ late[s] # "none" => s <= message.of
        BY <3>2 DEF TurnInv, MessageIsLatest
      <4>3. active' <= message.of
        BY <4>1, <4>2 DEF NoSession
      <4>4. QED
        BY <3>2, <4>1, <4>2, <4>3 DEF MessageIsLatest
    <3>3. QED
      BY <1>7, <3>1, <3>2 DEF Quiet
  <2>3. TasksInTurn' /\ TasksAreLatest' /\ AniPostsInterrupted'
    BY <1>7 DEF Quiet, TurnInv, TasksInTurn, TasksAreLatest, InOrder, AniPostsInterrupted
  <2>4. QED
    BY <2>1, <2>2, <2>3
<1>8. ASSUME NEW s \in Session, HandOnLate(s) PROVE Held
  <2> DEFINE w == Word(late[s], s)
  <2>1. /\ UNCHANGED <<bridge, message, call, active, belated>> /\ late[s] # "none"
        /\ late' = [late EXCEPT ![s] = "none"] /\ w \in Message
        /\ \/ /\ queue' = Append(queue, w) /\ UNCHANGED heard
              /\ bridge = "ani" => w.what = "interrupted"
           \/ queue' = queue /\ bridge = "ani" /\ \A o \in Session : o # s => heard'[o] = heard[o]
    <3>1. /\ UNCHANGED <<bridge, message, call, active, belated>>
          /\ late' = [late EXCEPT ![s] = "none"] /\ w \in Message
          /\ \/ ~CalledDirectly(late[s]) /\ queue' = Append(queue, w) /\ UNCHANGED heard
             \/ CalledDirectly(late[s]) /\ queue' = queue /\ (Calls(w) \/ heard' = heard)
      BY <1>a, <1>8, LateMoves
    <3>2. late[s] # "none" /\ w.what = late[s] /\ w.of = s
      BY <1>8 DEF HandOnLate, Word
    <3>3. Calls(w) \/ heard' = heard => \A o \in Session : o # s => heard'[o] = heard[o]
      BY <1>a, <3>2 DEF Calls
    <3>4. QED
      BY <3>1, <3>2, <3>3 DEF CalledDirectly
  <2>2. w \in belated /\ w.of = s
    BY <2>1 DEF TurnInv, LateIsOver, Word
  <2> HIDE DEF w
  <2>3. late \in [Session -> (Words \ {"died"}) \cup {"none"}]
    BY <1>a DEF TypesOK, MessagesOK
  <2>4. \A o \in Session : /\ late'[o] # "none" => late[o] # "none"
                           /\ heard'[o] # <<>> => heard[o] # <<>> \/ o = s
    BY <1>a, <2>1, <2>3
  <2>5. message # NoMessage =>
          /\ active <= message.of /\ s <= message.of
          /\ \A i \in 1..Len(queue) : queue[i].of <= message.of
          /\ \A o \in Session : heard[o] # <<>> \/ late[o] # "none" => o <= message.of
    BY <2>1 DEF TurnInv, MessageIsLatest
  <2>6. CASE queue' = Append(queue, w)
    <3>1. /\ Len(queue') = Len(queue) + 1 /\ queue'[Len(queue) + 1] = w
          /\ \A i \in 1..Len(queue) : queue'[i] = queue[i]
          /\ \A i \in 1..Len(queue') : i \in 1..Len(queue) \/ i = Len(queue) + 1
      BY <1>a, <2>1, <2>6
    <3>2. KnownIsUsed'
      <4>1. \A o \in Session : Known(o)' => Known(o) \/ o = s
        BY <1>a, <2>1, <2>2, <2>4, <3>1 DEF Known
      <4>2. Known(s)
        BY <2>1 DEF Known
      <4>3. QED
        BY <1>c, <4>1, <4>2 DEF TurnInv, KnownIsUsed
    <3>3. MessageIsLatest'
      BY <2>1, <2>2, <2>4, <2>5, <3>1 DEF MessageIsLatest
    <3>4. TasksInTurn'
      <4> SUFFICES ASSUME NEW i \in 1..Len(queue'), NEW j \in 1..Len(queue'), i < j,
                          InOrder(queue'[j])
                   PROVE  queue'[i].of <= queue'[j].of
        BY <2>1 DEF TasksInTurn, InOrder
      <4>1. i \in 1..Len(queue) /\ j \in 1..Len(queue)
        BY <1>a, <2>2, <3>1 DEF InOrder
      <4>2. QED
        BY <3>1, <4>1 DEF TurnInv, TasksInTurn
    <3>5. TasksAreLatest'
      <4> SUFFICES ASSUME NEW j \in 1..Len(queue'), NEW o \in Session, InOrder(queue'[j]),
                          heard'[o] # <<>>, bridge = "napi"
                   PROVE  o <= queue'[j].of
        BY <2>1 DEF TasksAreLatest, InOrder
      <4>1. j \in 1..Len(queue) /\ heard' = heard
        BY <2>1, <2>2, <3>1 DEF InOrder
      <4>2. QED
        BY <3>1, <4>1 DEF TurnInv, TasksAreLatest
    <3>6. AniPostsInterrupted'
      <4>1. bridge = "ani" => w.what = "interrupted"
        <5>1. queue' # queue
          BY <1>a, <3>1
        <5>2. QED
          BY <2>1, <5>1
      <4>2. QED
        BY <2>1, <3>1, <4>1 DEF TurnInv, AniPostsInterrupted
    <3>7. QED
      BY <3>2, <3>3, <3>4, <3>5, <3>6
  <2>7. CASE queue' = queue /\ bridge = "ani"
    <3>1. KnownIsUsed'
      <4>1. \A o \in Session : Known(o)' => Known(o) \/ o = s
        BY <2>1, <2>4, <2>7 DEF Known
      <4>2. Known(s)
        BY <2>1 DEF Known
      <4>3. QED
        BY <1>c, <4>1, <4>2 DEF TurnInv, KnownIsUsed
    <3>2. MessageIsLatest'
      BY <2>1, <2>4, <2>5, <2>7 DEF MessageIsLatest
    <3>3. bridge' # "napi"
      BY <2>1, <2>7
    <3>4. TasksInTurn' /\ TasksAreLatest' /\ AniPostsInterrupted'
      BY <2>1, <2>7, <3>3 DEF TurnInv, TasksInTurn, TasksAreLatest, InOrder, AniPostsInterrupted
    <3>5. QED
      BY <3>1, <3>2, <3>4
  <2>8. QED
    BY <2>1, <2>6, <2>7
<1>9. QED
  BY <1>0, <1>a, <1>1, <1>2, <1>3, <1>4, <1>5, <1>6, <1>7, <1>8, QuietSteps DEF TurnInv

\* Once a session has heard something, no older one hears anything more but a
\* death, the posted interruptions of ANI and the messages of services that
\* died before they were handed on apart (OnRemoteRequest and the tasks it posts
\* in order, BeginAssessment of the bridges).
THEOREM EveryoneHeardInTurn == BridgeSpec => HeardInTurn
<1> DEFINE Turn == \A s \in Session :
              LET word == Last(heard'[s])
              IN  heard'[s] # heard[s] /\ word # "died" /\ Word(word, s) \notin belated
                    /\ (bridge = "napi" \/ word # "interrupted")
                    => \A o \in Session : o > s => heard[o] = <<>>
<1>1. BridgeInit => TurnInv
  <2>1. BridgeInit => TypesOK /\ LateIsOver /\ MessageIsUsed
    BY BridgeTypesInitially, LateInitially DEF LateInv
  <2>2. BridgeInit => PhasesInTurn /\ KnownIsUsed
    BY DEF BridgeInit, ProtocolInit, PhasesInTurn, KnownIsUsed, Known, NoMessage, NoCall,
       NoSession, Session
  <2>3. QED
    BY <2>1, <2>2 DEF BridgeInit, TurnInv, MessageIsLatest, TasksInTurn, TasksAreLatest,
       AniPostsInterrupted
<1>2. ASSUME TurnInv, [BridgeNext]_bridgeVars PROVE Turn
  <2>1. /\ heard \in [Session -> Seq(Words)] /\ queue \in Seq(Message) /\ Session \subseteq Nat
        /\ message \in Said \cup {NoMessage}
    BY <1>2 DEF TurnInv, TypesOK, MessagesOK, Session
  <2>2. ASSUME NEW m \in Message, Calls(m), NEW s \in Session, heard'[s] # heard[s]
        PROVE  s = m.of /\ Last(heard'[s]) = m.what
    BY <2>1, <2>2 DEF Calls, Last, Message
  <2>3. CASE CallDirectly /\ UNCHANGED heard
    BY <2>3
  <2>4. CASE CallDirectly /\ Calls(message)
    <3>1. message \in Message /\ message # NoMessage
      BY <2>1, <2>4 DEF CallDirectly, Said, Message
    <3>2. \A o \in Session : o > message.of => heard[o] = <<>>
      <4>1. message.of \in Session /\ \A o \in Session : heard[o] # <<>> => o <= message.of
        BY <1>2, <3>1 DEF TurnInv, MessageIsLatest, Message
      <4>2. QED
        BY <2>1, <4>1
    <3>3. QED
      BY <2>2, <2>4, <3>1, <3>2
  <2>5. CASE RunTask
    <3>1. queue # <<>> /\ Calls(queue[1]) /\ queue[1] \in Message /\ 1 \in 1..Len(queue)
      BY <2>1, <2>5 DEF RunTask
    <3>2. ASSUME queue[1].what # "died", queue[1] \notin belated,
                 bridge = "napi" \/ queue[1].what # "interrupted"
          PROVE  \A o \in Session : o > queue[1].of => heard[o] = <<>>
      <4>1. bridge \in {"napi", "ani"}
        BY <1>2 DEF TurnInv, TypesOK, PhasesOK, Bridges
      <4>2. bridge = "napi"
        BY <1>2, <3>1, <3>2, <4>1 DEF TurnInv, AniPostsInterrupted
      <4>3. QED
        <5>1. queue[1].of \in Session /\ \A o \in Session : heard[o] # <<>> => o <= queue[1].of
          BY <1>2, <3>1, <3>2, <4>2 DEF TurnInv, TasksAreLatest, InOrder, Message
        <5>2. \A o \in Session : o > queue[1].of => ~(o <= queue[1].of)
          BY <5>1 DEF Session
        <5>3. QED
          BY <5>1, <5>2, Zenon
    <3>3. queue[1] = Word(queue[1].what, queue[1].of)
      BY <3>1 DEF Message, Word
    <3>4. QED
      BY <2>2, <3>1, <3>2, <3>3
  <2>6. CASE UNCHANGED heard
    BY <2>6
  <2>a. ASSUME NEW s \in Session, HandOnLate(s) PROVE Turn
    <3>1. /\ Word(late[s], s) \in Message /\ late[s] # "none"
          /\ Calls(Word(late[s], s)) \/ UNCHANGED heard
      BY <1>2, <2>a, LateMoves DEF TurnInv, HandOnLate
    <3>2. Word(late[s], s) \in belated
      BY <1>2, <3>1 DEF TurnInv, LateIsOver
    <3>3. ASSUME NEW o \in Session, heard'[o] # heard[o] PROVE Word(Last(heard'[o]), o) \in belated
      <4>1. o = s /\ Last(heard'[o]) = late[s]
        BY <2>2, <3>1, <3>3 DEF Word
      <4>2. QED
        BY <3>2, <4>1
    <3>4. QED
      BY <3>3
  <2>7. CallDirectly \/ RunTask \/ UNCHANGED heard \/ \E s \in Session : HandOnLate(s)
    <3>1. \A s \in Session :
            ServiceSpeaks(s) \/ BeginAssessment(s) \/ EndAssessment(s) => UNCHANGED heard
      BY <1>2, SpeakMoves, BeginMoves, EndMoves DEF TurnInv, TypesOK
    <3>2. PostTask \/ NotifyServiceDied \/ Quiet => UNCHANGED heard
      BY DEF PostTask, NotifyServiceDied, Quiet
    <3>3. QED
      BY <1>2, <3>1, <3>2, QuietSteps DEF TurnInv
  <2>8. CallDirectly => UNCHANGED heard \/ Calls(message)
    BY DEF CallDirectly
  <2>9. QED
    BY <2>3, <2>4, <2>5, <2>6, <2>7, <2>8, <2>a
<1>3. TurnInv /\ [BridgeNext]_bridgeVars => [Turn]_bridgeVars
  BY <1>2
<1>4. QED
  BY <1>1, <1>3, TurnKept, PTL DEF BridgeSpec, HeardInTurn

-----------------------------------------------------------------------------

\* The service's words to a session, the calls it received as the messages they
\* were, and the messages IPC threads have not handed on: of all these at most
\* one is the session's.
Telling(s) == {Word(what, s) : what \in Words \ {"died"}}
Received(calls, s) == [i \in 1..Len(calls) |-> Word(calls[i], s)]
InHand(m, in) == IF m # NoMessage /\ in = "no" THEN <<m>> ELSE <<>>
LeftOver(w, s) == IF w # "none" THEN <<Word(w, s)>> ELSE <<>>
Awaited(s) == IF Pending /\ message.of = s THEN <<message>> ELSE LeftOver(late[s], s)

LEMMA MessageOf == \A m \in Message : m = Word(m.what, m.of) /\ m.what \in Words /\ m.of \in Session
BY DEF Message, Word

LEMMA TellingIs ==
    ASSUME NEW s \in Session, NEW m \in Message
    PROVE  m \in Telling(s) <=> m.of = s /\ m.what # "died"
BY MessageOf DEF Telling, Word, Message

\* What an IPC thread has in hand is for its own session only.
LEMMA InHandIs ==
    ASSUME NEW s \in Session, NEW m \in Said \cup {NoMessage}, NEW in
    PROVE  /\ InHand(m, in) \in Seq(Message)
           /\ Selected(InHand(m, in), Telling(s)) =
                IF m # NoMessage /\ in = "no" /\ m.of = s THEN <<m>> ELSE <<>>
<1>1. CASE m # NoMessage /\ in = "no"
  <2>1. m \in Message /\ m.what # "died"
    BY <1>1 DEF Said, Message
  <2>2. InHand(m, in) = <<m>>
    BY <1>1, Zenon DEF InHand
  <2>3. <<m>> \in Seq(Message)
    BY <2>1
  <2>4. QED
    BY <1>1, <2>1, <2>2, <2>3, TellingIs, SelectedOfOne, Zenon
<1>2. CASE ~(m # NoMessage /\ in = "no")
  <2>1. InHand(m, in) = <<>> /\ <<>> \in Seq(Message)
    BY <1>2 DEF InHand
  <2>2. QED
    BY <1>2, <2>1, SelectedOfNone, Zenon
<1>3. QED
  BY <1>1, <1>2

LEMMA LeftOverIs ==
    ASSUME NEW s \in Session, NEW w \in (Words \ {"died"}) \cup {"none"}
    PROVE  /\ LeftOver(w, s) \in Seq(Message)
           /\ Selected(LeftOver(w, s), Telling(s)) = LeftOver(w, s)
<1>1. CASE w # "none"
  <2>1. Word(w, s) \in Message /\ Word(w, s) \in Telling(s)
    BY <1>1 DEF Word, Message, Telling
  <2>2. LeftOver(w, s) = <<Word(w, s)>>
    BY <1>1, Zenon DEF LeftOver
  <2>3. <<Word(w, s)>> \in Seq(Message)
    BY <2>1
  <2>4. QED
    BY <2>1, <2>2, <2>3, SelectedOfOne, Zenon
<1>2. CASE w = "none"
  <2>1. LeftOver(w, s) = <<>> /\ <<>> \in Seq(Message)
    BY <1>2 DEF LeftOver
  <2>2. QED
    BY <2>1, SelectedOfNone, Zenon
<1>3. QED
  BY <1>1, <1>2

\* The word a session waits for, from either place it may be in.
StillToCome(m, in, w, s) == IF m # NoMessage /\ in = "no" /\ m.of = s THEN <<m>> ELSE LeftOver(w, s)

\* A trail is a list of messages, and what is selected of it comes from its parts.
LEMMA TrailInParts ==
    ASSUME NEW s \in Session, NEW calls \in Seq(Words), NEW tasks \in Seq(Message),
           NEW m \in Said \cup {NoMessage}, NEW in,
           NEW w \in (Words \ {"died"}) \cup {"none"}, m # NoMessage /\ m.of = s => w = "none"
    PROVE  /\ Selected(Received(calls, s) \o tasks \o InHand(m, in) \o LeftOver(w, s), Telling(s)) =
                Selected(Received(calls, s), Telling(s)) \o Selected(tasks, Telling(s))
                  \o StillToCome(m, in, w, s)
           /\ Selected(Received(calls, s), Telling(s)) \in Seq(Telling(s))
           /\ Selected(tasks, Telling(s)) \in Seq(Telling(s))
           /\ StillToCome(m, in, w, s) \in Seq(Telling(s))
<1>1. Received(calls, s) \in Seq(Message)
  <2>1. Len(calls) \in Nat /\ \A j \in 1..Len(calls) : Word(calls[j], s) \in Message
    BY DEF Word, Message
  <2>2. QED
    BY <2>1 DEF Received
<1>2. ASSUME NEW l \in Seq(Message) PROVE Selected(l, Telling(s)) \in Seq(Telling(s))
  <2>1. Selected(l, Telling(s)) \in Seq(Message \cap Telling(s))
    BY SelectedItems, Zenon
  <2>2. QED
    BY <2>1
<1>b. ASSUME NEW a \in Seq(Message), NEW b \in Seq(Message)
      PROVE  Selected(a \o b, Telling(s)) = Selected(a, Telling(s)) \o Selected(b, Telling(s))
  BY SelectedOfConcat
<1> DEFINE h == Received(calls, s)
           i == InHand(m, in)
           l == LeftOver(w, s)
           front == h \o tasks
           most == front \o i
           one == IF m # NoMessage /\ in = "no" /\ m.of = s THEN <<m>> ELSE <<>>
           last == IF m # NoMessage /\ in = "no" /\ m.of = s THEN <<m>> ELSE LeftOver(w, s)
<1>3. /\ Selected(i, Telling(s)) = one /\ Selected(l, Telling(s)) = l
      /\ i \in Seq(Message) /\ l \in Seq(Message)
  BY InHandIs, LeftOverIs
<1>4. h \in Seq(Message)
  BY <1>1
<1>5. (one = <<>> /\ last = l) \/ (one = last /\ l = <<>>)
  <2>1. CASE m # NoMessage /\ in = "no" /\ m.of = s
    <3>1. w = "none"
      BY <2>1
    <3>2. QED
      BY <2>1, <3>1, Zenon DEF LeftOver
  <2>2. CASE ~(m # NoMessage /\ in = "no" /\ m.of = s)
    <3>1. one = <<>> /\ last = l
      BY <2>2, Zenon
    <3>2. QED
      BY <3>1
  <2>3. QED
    BY <2>1, <2>2
<1>a. most \o l = Received(calls, s) \o tasks \o InHand(m, in) \o LeftOver(w, s)
  OBVIOUS
<1> HIDE DEF h, i, l, one, last
<1>6. front \in Seq(Message) /\ most \in Seq(Message)
  BY <1>3, <1>4
<1>7. Selected(front, Telling(s)) = Selected(h, Telling(s)) \o Selected(tasks, Telling(s))
  BY <1>4, SelectedOfConcat
<1> HIDE DEF front
<1>8. Selected(most, Telling(s)) = Selected(front, Telling(s)) \o Selected(i, Telling(s))
  BY <1>3, <1>6, <1>b
<1> HIDE DEF most
<1>9. Selected(most \o l, Telling(s)) = Selected(most, Telling(s)) \o Selected(l, Telling(s))
  BY <1>3, <1>6, <1>b
<1> DEFINE sh == Selected(h, Telling(s))
           st == Selected(tasks, Telling(s))
<1>10. sh \in Seq(Telling(s)) /\ st \in Seq(Telling(s)) /\ one \in Seq(Telling(s))
       /\ l \in Seq(Telling(s))
  <2>1. /\ Selected(i, Telling(s)) \in Seq(Telling(s)) /\ Selected(l, Telling(s)) \in Seq(Telling(s))
    BY <1>2, <1>3
  <2>2. QED
    BY <1>2, <1>3, <1>4, <2>1
<1>11. Selected(most \o l, Telling(s)) = ((sh \o st) \o one) \o l
  BY <1>3, <1>7, <1>8, <1>9, Zenon
<1> HIDE DEF sh, st
<1>12. ((sh \o st) \o one) \o l = sh \o st \o last /\ last \in Seq(Telling(s))
  <2>1. CASE one = <<>> /\ last = l
    <3>1. (sh \o st) \o <<>> = sh \o st
      BY <1>10
    <3>2. QED
      BY <1>10, <2>1, <3>1
  <2>2. CASE one = last /\ l = <<>>
    <3>1. ((sh \o st) \o one) \o <<>> = (sh \o st) \o one
      BY <1>10
    <3>2. QED
      BY <1>10, <2>2, <3>1
  <2>3. QED
    BY <1>5, <2>1, <2>2
<1>13. QED
  BY <1>10, <1>11, <1>12, <1>a, Zenon DEF sh, st, h, last, StillToCome

\* A further call, of the same session or of another.
LEMMA ReceivedGrows ==
    ASSUME NEW s \in Session, NEW calls \in Seq(Words), NEW m \in Message
    PROVE  Selected(Received(IF m.of = s THEN Append(calls, m.what) ELSE calls, s), Telling(s)) =
             Selected(Received(calls, s), Telling(s)) \o Selected(<<m>>, Telling(s))
<1>1. Received(calls, s) \in Seq(Message) /\ <<m>> \in Seq(Message)
  BY DEF Received, Word, Message
<1>2. Selected(Received(calls, s), Telling(s)) \in Seq(Message)
  <2>1. Selected(Received(calls, s), Telling(s)) \in Seq(Message \cap Telling(s))
    BY <1>1, SelectedItems, Zenon
  <2>2. QED
    BY <2>1
<1>3. CASE m.of = s
  <2>1. Received(Append(calls, m.what), s) = Received(calls, s) \o <<m>>
    <3>1. m = Word(m.what, s) /\ m.what \in Words
      BY <1>3, MessageOf
    <3>2. Len(calls) \in Nat /\ \A j \in 1..Len(calls) : calls[j] \in Words
      OBVIOUS
    <3>3. /\ Len(Append(calls, m.what)) = Len(calls) + 1
          /\ Append(calls, m.what)[Len(calls) + 1] = m.what
          /\ \A j \in 1..Len(calls) : Append(calls, m.what)[j] = calls[j]
      BY <3>1
    <3>4. /\ Len(Received(calls, s)) = Len(calls)
          /\ \A j \in 1..Len(calls) : Received(calls, s)[j] = Word(calls[j], s)
      BY <3>2 DEF Received
    <3>5. Received(Append(calls, m.what), s) =
            [j \in 1..(Len(calls) + 1) |-> IF j = Len(calls) + 1 THEN m ELSE Word(calls[j], s)]
      BY <3>1, <3>2, <3>3 DEF Received
    <3>6. Received(calls, s) \o <<m>> =
            [j \in 1..(Len(calls) + 1) |-> IF j = Len(calls) + 1 THEN m ELSE Word(calls[j], s)]
      BY <1>1, <3>2, <3>4
    <3>7. QED
      BY <3>5, <3>6
  <2> DEFINE h == Received(calls, s)
             one == <<m>>
  <2>2. h \in Seq(Message) /\ one \in Seq(Message)
    BY <1>1
  <2> HIDE DEF h, one
  <2>3. Selected(h \o one, Telling(s)) = Selected(h, Telling(s)) \o Selected(one, Telling(s))
    BY <2>2, SelectedOfConcat
  <2>4. QED
    BY <1>3, <2>1, <2>3 DEF h, one
<1>4. CASE m.of # s
  <2>1. Selected(<<m>>, Telling(s)) = <<>>
    BY <1>4, TellingIs, SelectedOfOne
  <2>2. QED
    BY <1>2, <1>4, <2>1
<1>5. QED
  BY <1>3, <1>4

\* What a session has heard and is going to hear, in three parts.
LEMMA ReachedInParts ==
    ASSUME LateInv, NEW s \in Session
    PROVE  LET h == Selected(Received(heard[s], s), Telling(s))
               q == Selected(queue, Telling(s))
           IN  /\ Reached(s) = h \o q \o Awaited(s)
               /\ h \in Seq(Telling(s)) /\ q \in Seq(Telling(s)) /\ Awaited(s) \in Seq(Telling(s))
<1>1. /\ heard[s] \in Seq(Words) /\ queue \in Seq(Message) /\ message \in Said \cup {NoMessage}
      /\ late[s] \in (Words \ {"died"}) \cup {"none"}
      /\ message # NoMessage /\ message.of = s => late[s] = "none"
  BY DEF LateInv, TypesOK, MessagesOK, LateIsOver, Pending
<1>2. Reached(s) = Selected(Received(heard[s], s) \o queue \o InHand(message, inside)
                              \o LeftOver(late[s], s), Telling(s))
  BY DEF Reached, Trail, Received, InHand, LeftOver, Telling, Pending
<1>3. Awaited(s) = IF message # NoMessage /\ inside = "no" /\ message.of = s
                     THEN <<message>> ELSE LeftOver(late[s], s)
  BY DEF Awaited, Pending
<1>4. Awaited(s) = StillToCome(message, inside, late[s], s)
  BY <1>3, Zenon DEF StillToCome
<1> DEFINE calls == heard[s]
           tasks == queue
           m == message
           w == late[s]
           in == inside
<1>5. /\ calls \in Seq(Words) /\ tasks \in Seq(Message) /\ m \in Said \cup {NoMessage}
      /\ w \in (Words \ {"died"}) \cup {"none"} /\ (m # NoMessage /\ m.of = s => w = "none")
  BY <1>1
<1> HIDE DEF calls, tasks, m, w, in
<1>6. /\ Selected(Received(calls, s) \o tasks \o InHand(m, in) \o LeftOver(w, s), Telling(s)) =
           Selected(Received(calls, s), Telling(s)) \o Selected(tasks, Telling(s))
             \o StillToCome(m, in, w, s)
      /\ Selected(Received(calls, s), Telling(s)) \in Seq(Telling(s))
      /\ Selected(tasks, Telling(s)) \in Seq(Telling(s))
      /\ StillToCome(m, in, w, s) \in Seq(Telling(s))
  BY <1>5, TrailInParts
<1>7. QED
  BY <1>2, <1>4, <1>6, Zenon DEF calls, tasks, m, w, in

LEMMA ReachedInPartsNext ==
    ASSUME LateInv', NEW s \in Session
    PROVE  LET h == Selected(Received(heard'[s], s), Telling(s))
               q == Selected(queue', Telling(s))
           IN  /\ Reached(s)' = h \o q \o Awaited(s)'
               /\ h \in Seq(Telling(s)) /\ q \in Seq(Telling(s)) /\ Awaited(s)' \in Seq(Telling(s))
<1>1. /\ heard'[s] \in Seq(Words) /\ queue' \in Seq(Message) /\ message' \in Said \cup {NoMessage}
      /\ late'[s] \in (Words \ {"died"}) \cup {"none"}
      /\ message' # NoMessage /\ message'.of = s => late'[s] = "none"
  BY DEF LateInv, TypesOK, MessagesOK, LateIsOver, Pending
<1>2. Reached(s)' = Selected(Received(heard'[s], s) \o queue' \o InHand(message', inside')
                               \o LeftOver(late'[s], s), Telling(s))
  BY DEF Reached, Trail, Received, InHand, LeftOver, Telling, Pending, Word
<1>3. Awaited(s)' = IF message' # NoMessage /\ inside' = "no" /\ message'.of = s
                      THEN <<message'>> ELSE LeftOver(late'[s], s)
  BY DEF Awaited, Pending, LeftOver, Word
<1>4. Awaited(s)' = StillToCome(message', inside', late'[s], s)
  BY <1>3, Zenon DEF StillToCome
<1> DEFINE calls == heard'[s]
           tasks == queue'
           m == message'
           w == late'[s]
           in == inside'
<1>5. /\ calls \in Seq(Words) /\ tasks \in Seq(Message) /\ m \in Said \cup {NoMessage}
      /\ w \in (Words \ {"died"}) \cup {"none"} /\ (m # NoMessage /\ m.of = s => w = "none")
  BY <1>1
<1> HIDE DEF calls, tasks, m, w, in
<1>6. /\ Selected(Received(calls, s) \o tasks \o InHand(m, in) \o LeftOver(w, s), Telling(s)) =
           Selected(Received(calls, s), Telling(s)) \o Selected(tasks, Telling(s))
             \o StillToCome(m, in, w, s)
      /\ Selected(Received(calls, s), Telling(s)) \in Seq(Telling(s))
      /\ Selected(tasks, Telling(s)) \in Seq(Telling(s))
      /\ StillToCome(m, in, w, s) \in Seq(Telling(s))
  BY <1>5, TrailInParts
<1>7. QED
  BY <1>2, <1>4, <1>6, Zenon DEF calls, tasks, m, w, in

\* Which message a session waits for, when one is sent, handed on, or left
\* with a thread whose service died.
LEMMA AwaitsSent ==
    ASSUME LateInv, LateInv', message = NoMessage, inside = "no", UNCHANGED <<inside, late>>,
           NEW s \in Session
    PROVE  IF message' # NoMessage /\ message'.of = s
             THEN Awaited(s) = <<>> /\ Awaited(s)' = <<message'>> /\ message' \in Telling(s)
             ELSE Awaited(s)' = Awaited(s)
<1>1. ~Pending /\ (Pending' <=> message' # NoMessage)
  BY DEF Pending
<1>2. CASE message' # NoMessage /\ message'.of = s
  <2>1. late[s] = "none" /\ message' \in Said
    BY <1>2 DEF LateInv, LateIsOver, TypesOK, MessagesOK
  <2>2. message' \in Telling(s)
    BY <1>2, <2>1, TellingIs DEF Said, Message
  <2>3. QED
    BY <1>1, <1>2, <2>1, <2>2 DEF Awaited, LeftOver
<1>3. CASE ~(message' # NoMessage /\ message'.of = s)
  BY <1>1, <1>3 DEF Awaited, LeftOver, Word
<1>4. QED
  BY <1>2, <1>3

LEMMA AwaitsNoMore ==
    ASSUME LateInv, Pending, ~Pending', late' = late, NEW s \in Session
    PROVE  IF message.of = s THEN Awaited(s) = <<message>> /\ Awaited(s)' = <<>>
                             ELSE Awaited(s)' = Awaited(s)
<1>1. message.of = s => late[s] = "none"
  BY DEF LateInv, LateIsOver
<1>2. QED
  BY <1>1 DEF Awaited, LeftOver, Word

LEMMA AwaitsNotLate ==
    ASSUME LateInv, NEW o \in Session, HandOnLate(o), NEW s \in Session
    PROVE  IF o = s THEN Awaited(s) = <<Word(late[o], o)>> /\ Awaited(s)' = <<>>
                    ELSE Awaited(s)' = Awaited(s)
<1>1. /\ late[o] # "none" /\ UNCHANGED <<message, inside>> /\ late' = [late EXCEPT ![o] = "none"]
      /\ late \in [Session -> (Words \ {"died"}) \cup {"none"}]
  BY DEF LateInv, HandOnLate, TypesOK, MessagesOK
<1>2. message.of # o
  BY <1>1 DEF LateInv, LateIsOver
<1>3. QED
  BY <1>1, <1>2 DEF Awaited, LeftOver, Pending, Word

LEMMA AwaitsStill ==
    ASSUME LateInv, ServiceDies, NEW s \in Session
    PROVE  Awaited(s)' = Awaited(s)
<1>1. /\ message' = NoMessage /\ late' = IF Pending THEN [late EXCEPT ![message.of] = message.what]
                                                   ELSE late
      /\ late \in [Session -> (Words \ {"died"}) \cup {"none"}]
      /\ message \in Said \cup {NoMessage}
  BY DEF LateInv, ServiceDies, TypesOK, MessagesOK
<1>2. ~Pending'
  BY <1>1 DEF Pending
<1>3. CASE Pending /\ message.of = s
  <2>1. message \in Said
    BY <1>1, <1>3 DEF Pending
  <2>2. late'[s] = message.what /\ message.what # "none" /\ message = Word(message.what, s)
    BY <1>1, <1>3, <2>1 DEF Said, Words, Word
  <2>3. QED
    BY <1>2, <1>3, <2>2 DEF Awaited, LeftOver, Word
<1>4. CASE ~(Pending /\ message.of = s)
  <2>1. late'[s] = late[s]
    BY <1>1, <1>4
  <2>2. QED
    BY <1>2, <1>4, <2>1 DEF Awaited, LeftOver, Word
<1>5. QED
  BY <1>3, <1>4

\* A new message adds a word to what its session is going to hear.
LEMMA SendingAdds ==
    ASSUME LateInv, LateInv', message = NoMessage, inside = "no",
           UNCHANGED <<inside, queue, heard, late>>, NEW s \in Session
    PROVE  Reached(s)' = IF message' # NoMessage /\ message'.of = s
                           THEN Append(Reached(s), message') ELSE Reached(s)
<1> DEFINE h == Selected(Received(heard[s], s), Telling(s))
           q == Selected(queue, Telling(s))
<1>1. /\ Reached(s) = h \o q \o Awaited(s) /\ h \in Seq(Telling(s)) /\ q \in Seq(Telling(s))
      /\ Reached(s)' = h \o q \o Awaited(s)'
  BY ReachedInParts, ReachedInPartsNext, Zenon
<1> HIDE DEF h, q
<1>2. CASE message' # NoMessage /\ message'.of = s
  <2>1. Awaited(s) = <<>> /\ Awaited(s)' = <<message'>> /\ message' \in Telling(s)
    BY <1>2, AwaitsSent
  <2>2. \A l \in Seq(Telling(s)), x \in Telling(s) : l \o <<x>> = Append(l, x)
    OBVIOUS
  <2>3. h \o q \o <<>> = h \o q /\ h \o q \in Seq(Telling(s))
    BY <1>1
  <2>4. Reached(s) = h \o q /\ Reached(s)' = h \o q \o <<message'>>
    BY <1>1, <2>1, <2>3
  <2>5. QED
    BY <1>2, <2>1, <2>2, <2>3, <2>4
<1>3. CASE ~(message' # NoMessage /\ message'.of = s)
  <2>1. Awaited(s)' = Awaited(s)
    BY <1>3, AwaitsSent
  <2>2. QED
    BY <1>1, <1>3, <2>1
<1>4. QED
  BY <1>2, <1>3

\* A posted message changes its place only.
LEMMA PostedKeeps ==
    ASSUME LateInv, LateInv', NEW m \in Message, queue' = Append(queue, m), heard' = heard,
           NEW s \in Session,
           IF m.of = s THEN Awaited(s) = <<m>> /\ Awaited(s)' = <<>> ELSE Awaited(s)' = Awaited(s)
    PROVE  Reached(s)' = Reached(s)
<1> DEFINE h == Selected(Received(heard[s], s), Telling(s))
           q == Selected(queue, Telling(s))
           one == <<m>>
<1>1. /\ Reached(s) = h \o q \o Awaited(s)
      /\ h \in Seq(Telling(s)) /\ q \in Seq(Telling(s)) /\ Awaited(s) \in Seq(Telling(s))
      /\ Reached(s)' = h \o Selected(queue', Telling(s)) \o Awaited(s)'
  BY ReachedInParts, ReachedInPartsNext, Zenon
<1>2. Selected(queue', Telling(s)) = q \o Selected(one, Telling(s))
  <2>1. queue \in Seq(Message) /\ one \in Seq(Message) /\ queue' = queue \o one
    BY DEF LateInv, TypesOK, MessagesOK
  <2> HIDE DEF one
  <2>2. Selected(queue \o one, Telling(s)) = Selected(queue, Telling(s)) \o Selected(one, Telling(s))
    BY <2>1, SelectedOfConcat
  <2>3. QED
    BY <2>1, <2>2
<1>3. CASE m.of = s
  <2>1. Awaited(s) = one /\ Awaited(s)' = <<>>
    BY <1>3
  <2>2. Selected(one, Telling(s)) = one
    <3>1. m \in Telling(s)
      <4> DEFINE l == <<m>>
      <4>1. l \in Seq(Telling(s)) /\ Len(l) = 1 /\ l[1] = m
        BY <1>1, <2>1
      <4> HIDE DEF l
      <4>2. QED
        BY <4>1
    <3>2. QED
      BY <3>1, SelectedOfOne
  <2> HIDE DEF h, q, one
  <2>3. QED
    BY <1>1, <1>2, <2>1, <2>2
<1>4. CASE m.of # s
  <2>1. Selected(one, Telling(s)) = <<>>
    BY <1>4, TellingIs, SelectedOfOne
  <2> HIDE DEF h, q, one
  <2>2. q \o Selected(one, Telling(s)) = q
    BY <1>1, <2>1
  <2>3. QED
    BY <1>1, <1>2, <1>4, <2>2
<1>5. QED
  BY <1>3, <1>4

LEMMA PostingKeeps ==
    ASSUME LateInv, LateInv', PostTask, NEW s \in Session
    PROVE  Reached(s)' = Reached(s)
<1>1. /\ Pending /\ queue' = Append(queue, message) /\ message' = NoMessage
      /\ UNCHANGED <<heard, late>>
  BY DEF PostTask, Posted, Pending, lateVars
<1>2. message \in Message /\ ~Pending'
  BY <1>1 DEF LateInv, TypesOK, MessagesOK, Said, Message, Pending
<1>3. QED
  BY <1>1, <1>2, AwaitsNoMore, PostedKeeps

\* A task that begins to run does so too.
LEMMA RunningKeeps ==
    ASSUME LateInv, LateInv', RunTask, NEW s \in Session
    PROVE  Reached(s)' = Reached(s)
<1> DEFINE h == Selected(Received(heard[s], s), Telling(s))
           x == Selected(<<Head(queue)>>, Telling(s))
           q == Selected(Tail(queue), Telling(s))
<1>1. /\ queue # <<>> /\ queue' = Tail(queue) /\ Calls(Head(queue))
      /\ UNCHANGED <<message, inside, late>>
  BY Zenon DEF RunTask, MainFrame, lateVars
<1>2. heard \in [Session -> Seq(Words)] /\ queue \in Seq(Message)
  BY DEF LateInv, TypesOK, MessagesOK
<1>3. /\ Head(queue) \in Message /\ Tail(queue) \in Seq(Message) /\ <<Head(queue)>> \in Seq(Message)
      /\ queue = <<Head(queue)>> \o Tail(queue)
  BY <1>1, <1>2
<1>4. Selected(Received(heard'[s], s), Telling(s)) = h \o x
  <2>1. heard'[s] = IF Head(queue).of = s THEN Append(heard[s], Head(queue).what) ELSE heard[s]
    BY <1>1, <1>2 DEF Calls
  <2>2. QED
    BY <1>2, <1>3, <2>1, ReceivedGrows, Zenon
<1>5. Selected(queue, Telling(s)) = x \o q
  <2> DEFINE a == <<Head(queue)>>
             b == Tail(queue)
  <2>1. a \in Seq(Message) /\ b \in Seq(Message) /\ queue = a \o b
    BY <1>3
  <2> HIDE DEF a, b
  <2>2. Selected(a \o b, Telling(s)) = Selected(a, Telling(s)) \o Selected(b, Telling(s))
    BY <2>1, SelectedOfConcat
  <2>3. QED
    BY <2>1, <2>2, Zenon DEF a, b
<1>6. x \in Seq(Telling(s)) /\ q \in Seq(Telling(s))
  <2>1. /\ Selected(<<Head(queue)>>, Telling(s)) \in Seq(Message \cap Telling(s))
        /\ Selected(Tail(queue), Telling(s)) \in Seq(Message \cap Telling(s))
    BY <1>3, SelectedItems, Zenon
  <2>2. \A l \in Seq(Message \cap Telling(s)) : l \in Seq(Telling(s))
    OBVIOUS
  <2>3. QED
    BY <2>1, <2>2, Zenon
<1>a. Awaited(s)' = Awaited(s)
  BY <1>1 DEF Awaited, LeftOver, Pending, Word
<1>7. Reached(s) = h \o (x \o q) \o Awaited(s) /\ h \in Seq(Telling(s)) /\ Awaited(s) \in Seq(Telling(s))
  BY <1>5, ReachedInParts, Zenon
<1>8. Reached(s)' = (h \o x) \o q \o Awaited(s)
  BY <1>1, <1>4, <1>a, ReachedInPartsNext, Zenon
<1> HIDE DEF h, x, q
<1>9. QED
  BY <1>6, <1>7, <1>8

\* The report of a death is no word of the service.
LEMMA NoticeKeeps ==
    ASSUME LateInv, LateInv', NotifyServiceDied, NEW s \in Session
    PROVE  Reached(s)' = Reached(s)
<1>1. /\ UNCHANGED <<heard, message, inside, late>> /\ queue \in Seq(Message)
      /\ queue' = queue \/ (active # NoSession /\ queue' = Append(queue, Word("died", active)))
  BY NotifyMoves DEF LateInv, TypesOK, MessagesOK
<1>2. Selected(queue', Telling(s)) = Selected(queue, Telling(s))
  <2>1. CASE queue' = queue
    BY <2>1
  <2>2. CASE active # NoSession /\ queue' = Append(queue, Word("died", active))
    <3>1. Word("died", active) \in Message /\ Word("died", active) \notin Telling(s)
      BY <2>2 DEF LateInv, TypesOK, RecordsOK, Word, Message, Words, Telling
    <3>2. QED
      BY <1>1, <2>2, <3>1, SelectedOfAppend
  <2>3. QED
    BY <1>1, <2>1, <2>2
<1>3. Awaited(s)' = Awaited(s)
  BY <1>1 DEF Awaited, LeftOver, Pending, Word
<1>4. QED
  BY <1>1, <1>2, <1>3, ReachedInParts, ReachedInPartsNext, Zenon

\* What touches neither a session's calls nor its tasks nor its message.
LEMMA StillKeeps ==
    ASSUME LateInv, LateInv', NEW s \in Session, heard'[s] = heard[s], queue' = queue,
           Awaited(s)' = Awaited(s)
    PROVE  Reached(s)' = Reached(s)
BY ReachedInParts, ReachedInPartsNext, Zenon

\* A message of its session that is called directly passes the tasks that wait,
\* which are interruptions; it may also be dropped.
LEMMA DirectCallPasses ==
    ASSUME LateInv, LateInv', AniPostsInterrupted, bridge = "ani", queue' = queue,
           NEW m \in Message, m.what # "died", NEW s \in Session, m.of = s,
           Awaited(s) = <<m>>, Awaited(s)' = <<>>, Calls(m) \/ heard' = heard
    PROVE  \E h, q \in Seq(Telling(s)) :
             /\ Reached(s) = h \o q \o <<m>>
             /\ \A i \in 1..Len(q) : q[i] = Word("interrupted", s)
             /\ heard' = heard => Reached(s)' = h \o q
             /\ Calls(m) => Reached(s)' = h \o <<m>> \o q
<1> DEFINE h == Selected(Received(heard[s], s), Telling(s))
           q == Selected(queue, Telling(s))
<1>1. queue \in Seq(Message) /\ heard \in [Session -> Seq(Words)] /\ m \in Telling(s)
  BY TellingIs DEF LateInv, TypesOK, MessagesOK
<1>2. Reached(s) = h \o q \o <<m>> /\ h \in Seq(Telling(s)) /\ q \in Seq(Telling(s))
  BY ReachedInParts, Zenon
<1>3. ASSUME NEW i \in 1..Len(q) PROVE q[i] = Word("interrupted", s)
  <2>1. q \in Seq(Message \cap Telling(s)) /\ ToSet(q) = ToSet(queue) \cap Telling(s)
    BY <1>1, SelectedItems, Zenon
  <2> HIDE DEF q
  <2>2. q[i] \in ToSet(q) /\ q[i] \in Message
    BY <2>1 DEF ToSet
  <2>3. q[i] \in ToSet(queue) /\ q[i] \in Telling(s)
    BY <2>1, <2>2
  <2>4. q[i].what \in {"interrupted", "died"}
    BY <1>1, <2>3 DEF ToSet, AniPostsInterrupted
  <2>5. q[i].of = s /\ q[i].what # "died"
    BY <2>2, <2>3, TellingIs
  <2>6. QED
    BY <2>2, <2>4, <2>5, MessageOf
<1>4. ASSUME heard' = heard PROVE Reached(s)' = h \o q
  <2>1. Reached(s)' = h \o q \o <<>>
    BY <1>4, ReachedInPartsNext, Zenon
  <2> HIDE DEF h, q
  <2>2. QED
    BY <1>2, <2>1
<1>5. ASSUME Calls(m) PROVE Reached(s)' = h \o <<m>> \o q
  <2>1. heard'[s] = Append(heard[s], m.what)
    BY <1>1, <1>5 DEF Calls
  <2>2. Selected(Received(heard'[s], s), Telling(s)) = h \o Selected(<<m>>, Telling(s))
    BY <1>1, <2>1, ReceivedGrows, Zenon
  <2>3. Selected(<<m>>, Telling(s)) = <<m>>
    BY <1>1, SelectedOfOne, Zenon
  <2>4. Reached(s)' = (h \o <<m>>) \o q \o <<>>
    BY <2>2, <2>3, ReachedInPartsNext, Zenon
  <2> DEFINE one == <<m>>
  <2>5. one \in Seq(Telling(s))
    BY <1>1
  <2> HIDE DEF h, q, one
  <2>6. (h \o one) \o q \o <<>> = h \o one \o q
    BY <1>2, <2>5
  <2>7. QED
    BY <2>4, <2>6 DEF one
<1> HIDE DEF h, q
<1>6. QED
  BY <1>2, <1>3, <1>4, <1>5, Zenon

-----------------------------------------------------------------------------

\* The sayings, phase by phase.
LEMMA SayingsAre ==
    ASSUME NEW s
    PROVE  /\ phase[s] \in {"unused", "asked"} => Sayings(s) = {<<>>}
           /\ phase[s] = "dropped" => Sayings(s) = {<<>>, <<Word("ok", s)>>}
           /\ phase[s] = "running" => Sayings(s) = {<<Word("ok", s)>>}
           /\ phase[s] = "refused" => Sayings(s) = {<<Word("refused", s)>>}
           /\ phase[s] = "ended" => Sayings(s) = {<<Word("ok", s), Word("ended", s)>>}
           /\ phase[s] = "interrupted" => Sayings(s) = {<<Word("ok", s), Word("interrupted", s)>>}
BY DEF Sayings

LEMMA SayingsNext ==
    ASSUME NEW s
    PROVE  /\ phase'[s] \in {"unused", "asked"} => Sayings(s)' = {<<>>}
           /\ phase'[s] = "dropped" => Sayings(s)' = {<<>>, <<Word("ok", s)>>}
           /\ phase'[s] = "running" => Sayings(s)' = {<<Word("ok", s)>>}
           /\ phase'[s] = "refused" => Sayings(s)' = {<<Word("refused", s)>>}
           /\ phase'[s] = "ended" => Sayings(s)' = {<<Word("ok", s), Word("ended", s)>>}
           /\ phase'[s] = "interrupted" => Sayings(s)' = {<<Word("ok", s), Word("interrupted", s)>>}
BY DEF Sayings, Word

\* What a session may have heard when messages of it were lost.
Fragments(s) == {<<>>} \cup {<<w>> : w \in UNION {ToSet(saying) : saying \in Sayings(s)}}

LEMMA HeardInFragments ==
    ASSUME PhasesOK
    PROVE  HeardAsSent <=>
             \A s \in Session : Reached(s) \in IF s \in lost THEN Fragments(s) ELSE Sayings(s)
<1>1. \A s \in Session :
        (\E saying \in Sayings(s) : Reached(s) \in {<<>>} \cup {<<word>> : word \in ToSet(saying)})
          => Reached(s) \in Fragments(s)
  BY DEF Fragments
<1>2. ASSUME NEW s \in Session, Reached(s) \in Fragments(s)
      PROVE  \E saying \in Sayings(s) :
               Reached(s) \in {<<>>} \cup {<<word>> : word \in ToSet(saying)}
  <2>1. Sayings(s) # {}
    BY SayingsAre DEF PhasesOK, Phases, Waiting
  <2>2. QED
    BY <1>2, <2>1 DEF Fragments
<1>3. QED
  BY <1>1, <1>2 DEF HeardAsSent

\* What an IPC thread runs application code for.
AppHoldsMessage == inside # "no" => message # NoMessage

\* What is kept of one session: it heard what was said, or a fragment of it if
\* something was lost; then it was answered, and while it runs that was the answer.
Sound(s) ==
    /\ Reached(s) \in IF s \in lost THEN Fragments(s) ELSE Sayings(s)
    /\ s \in lost =>
         /\ phase[s] \notin {"unused", "asked"}
         /\ phase[s] = "running" => Reached(s) = <<>>

LEMMA AppendToOne == ASSUME NEW a, NEW b PROVE Append(<<a>>, b) = <<a, b>>
<1>1. <<a>> \in Seq({a, b}) /\ <<a, b>> \in Seq({a, b}) /\ b \in {a, b}
      /\ Len(<<a>>) = 1 /\ Len(<<a, b>>) = 2
  OBVIOUS
<1> DEFINE one == <<a>>
           two == <<a, b>>
<1>2. one[1] = a /\ two[1] = a /\ two[2] = b
  OBVIOUS
<1> HIDE DEF one, two
<1>3. /\ Append(one, b) \in Seq({a, b}) /\ Len(Append(one, b)) = 2
      /\ Append(one, b)[1] = a /\ Append(one, b)[2] = b
  BY <1>1, <1>2 DEF one
<1>4. \A i \in 1..2 : Append(one, b)[i] = two[i]
  BY <1>2, <1>3
<1>5. QED
  BY <1>1, <1>3, <1>4, SeqEqual DEF one, two

\* The service says something new in a session.
LEMMA SayingSound ==
    ASSUME PhasesOK, NEW s \in Session, Sound(s),
           NEW w \in {"running", "refused", "interrupted", "ended"},
           phase[s] = IF w \in {"running", "refused"} THEN "asked" ELSE "running",
           phase'[s] = w, lost' = lost,
           Reached(s)' = Append(Reached(s), Word(IF w = "running" THEN "ok" ELSE w, s))
    PROVE  Sound(s)'
<1> USE DEF Sound
<1>1. CASE s \notin lost
  <2>1. Reached(s) \in Sayings(s)
    BY <1>1
  <2>2. Reached(s)' \in Sayings(s)'
    <3>1. CASE w = "running"
      <4>1. Reached(s) = <<>>
        BY <2>1, <3>1, SayingsAre
      <4>2. Reached(s)' = <<Word("ok", s)>>
        BY <3>1, <4>1
      <4>3. Sayings(s)' = {<<Word("ok", s)>>}
        BY <3>1, SayingsNext
      <4>4. QED
        BY <4>2, <4>3
    <3>2. CASE w = "refused"
      <4>1. Reached(s) = <<>>
        BY <2>1, <3>2, SayingsAre
      <4>2. Reached(s)' = <<Word("refused", s)>>
        BY <3>2, <4>1
      <4>3. Sayings(s)' = {<<Word("refused", s)>>}
        BY <3>2, SayingsNext
      <4>4. QED
        BY <4>2, <4>3
    <3>3. CASE w \in {"interrupted", "ended"}
      <4>1. Reached(s) = <<Word("ok", s)>>
        BY <2>1, <3>3, SayingsAre
      <4>2. Reached(s)' = Append(<<Word("ok", s)>>, Word(w, s))
        BY <3>3, <4>1
      <4>3. Append(<<Word("ok", s)>>, Word(w, s)) = <<Word("ok", s), Word(w, s)>>
        BY AppendToOne, Zenon
      <4>4. Sayings(s)' = {<<Word("ok", s), Word(w, s)>>}
        BY <3>3, SayingsNext
      <4>5. QED
        BY <4>2, <4>3, <4>4
    <3>4. QED
      BY <3>1, <3>2, <3>3
  <2>3. QED
    BY <1>1, <2>2
<1>2. CASE s \in lost
  <2>1. w \in {"interrupted", "ended"} /\ Reached(s) = <<>>
    BY <1>2
  <2>2. Reached(s)' = <<Word(w, s)>>
    BY <2>1
  <2>3. Sayings(s)' = {<<Word("ok", s), Word(w, s)>>}
    BY <2>1, SayingsNext
  <2>4. <<Word(w, s)>> \in Fragments(s)'
    <3>1. Word(w, s) \in ToSet(<<Word("ok", s), Word(w, s)>>)
      BY DEF ToSet
    <3>2. Fragments(s)' = {<<>>} \cup {<<x>> : x \in UNION {ToSet(saying) : saying \in Sayings(s)'}}
      BY DEF Fragments, ToSet
    <3>3. QED
      BY <2>3, <3>1, <3>2
  <2>5. QED
    BY <1>2, <2>1, <2>2, <2>4
<1>3. QED
  BY <1>1, <1>2

\* Nothing new is said, and nothing lost; the service may have died.
LEMMA SilenceSound ==
    ASSUME PhasesOK, NEW s \in Session, Sound(s),
           s \in lost' <=> s \in lost, Reached(s)' = Reached(s),
           \/ phase'[s] = phase[s]
           \/ phase[s] \in Waiting /\ phase'[s] = "dropped"
           \/ phase[s] = "unused" /\ phase'[s] = "asked"
    PROVE  Sound(s)'
<1> USE DEF Sound, Waiting
<1>0. Fragments(s)' = {<<>>} \cup {<<x>> : x \in UNION {ToSet(saying) : saying \in Sayings(s)'}}
  BY DEF Fragments, ToSet
<1>1. CASE phase'[s] = phase[s]
  <2>1. Sayings(s)' = Sayings(s)
    BY <1>1 DEF Sayings, Word
  <2>2. Fragments(s)' = Fragments(s)
    BY <1>0, <2>1 DEF Fragments
  <2>3. QED
    BY <1>1, <2>1, <2>2
<1>2. CASE phase[s] \in Waiting /\ phase'[s] = "dropped"
  <2>1. Reached(s) \in {<<>>, <<Word("ok", s)>>}
    <3>1. CASE s \in lost
      BY <1>2, <3>1
    <3>2. CASE s \notin lost
      BY <1>2, <3>2, SayingsAre
    <3>3. QED
      BY <3>1, <3>2
  <2>2. s \in lost => Reached(s) = <<>>
    BY <1>2
  <2>3. <<>> \in Fragments(s)'
    BY <1>0
  <2>4. QED
    BY <1>2, <2>1, <2>2, <2>3, SayingsNext
<1>3. CASE phase[s] = "unused" /\ phase'[s] = "asked"
  <2>1. s \notin lost /\ Reached(s) = <<>>
    BY <1>3, SayingsAre
  <2>2. QED
    BY <1>3, <2>1, SayingsNext
<1>4. QED
  BY <1>1, <1>2, <1>3

\* A session hears two words at most, the first of two is the answer.
LEMMA ShortReached ==
    ASSUME PhasesOK, NEW s \in Session, Sound(s)
    PROVE  \/ Len(Reached(s)) \in {0, 1}
           \/ /\ s \notin lost /\ phase[s] \in {"ended", "interrupted"}
              /\ Len(Reached(s)) = 2 /\ Reached(s)[1] = Word("ok", s)
<1>0. Len(<<>>) = 0 /\ \A x : Len(<<x>>) = 1
  OBVIOUS
<1>1. CASE Reached(s) = <<>> \/ \E x : Reached(s) = <<x>>
  BY <1>0, <1>1
<1>2. ASSUME s \notin lost, phase[s] \in {"ended", "interrupted"},
             NEW x, Reached(s) = <<Word("ok", s), x>>
      PROVE  Len(Reached(s)) = 2 /\ Reached(s)[1] = Word("ok", s)
  <2>1. \A y : Len(<<y, x>>) = 2 /\ <<y, x>>[1] = y
    OBVIOUS
  <2>2. QED
    BY <1>2, <2>1, Zenon
<1>3. CASE s \in lost
  BY <1>1, <1>3 DEF Sound, Fragments
<1>4. CASE s \notin lost
  BY <1>1, <1>2, <1>4, SayingsAre DEF Sound, PhasesOK, Phases, Waiting
<1>5. QED
  BY <1>3, <1>4

LEMMA OneOfTwo == \A a, b \in Nat : a + b + 1 = 2 => (b = 0 /\ a = 1) \/ (b = 1 /\ a = 0)
OBVIOUS

\* A message that is called directly comes in its place, as no task of its
\* session waits; one that is dropped leaves a fragment.
LEMMA DirectCallSound ==
    ASSUME LateInv, LateInv', AniPostsInterrupted, bridge = "ani", UNCHANGED <<queue, phase>>,
           NEW word \in Message, word.what \notin {"died", "interrupted"},
           NEW s \in Session, word.of = s, Sound(s), Awaited(s) = <<word>>, Awaited(s)' = <<>>,
           \/ Calls(word) /\ lost' = lost
           \/ heard' = heard /\ lost' = lost \cup {s}
    PROVE  Sound(s)'
<1> DEFINE m == <<word>>
<1>0. PhasesOK
  BY DEF LateInv, TypesOK
<1>1. PICK h \in Seq(Telling(s)), q \in Seq(Telling(s)) :
        /\ Reached(s) = h \o q \o m
        /\ \A i \in 1..Len(q) : q[i] = Word("interrupted", s)
        /\ heard' = heard => Reached(s)' = h \o q
        /\ Calls(word) => Reached(s)' = h \o m \o q
  BY DirectCallPasses, Zenon
<1>3. Sound(s)'
  <2>1. m = <<word>> /\ word \in Telling(s)
    BY TellingIs
  <2> HIDE DEF m
  <2>2. /\ Len(h) \in Nat /\ Len(q) \in Nat /\ Len(Reached(s)) = Len(h) + Len(q) + 1
        /\ Reached(s)[Len(h) + Len(q) + 1] = word
        /\ \A i \in 1..Len(h) : Reached(s)[i] = h[i]
        /\ \A i \in 1..Len(q) : Reached(s)[Len(h) + i] = q[i]
    BY <1>1, <2>1
  <2>n. Len(h) \in Nat /\ Len(q) \in Nat
    BY <2>2
  <2>a. Len(h) \in Nat /\ Len(q) \in Nat /\ Len(Reached(s)) = Len(h) + Len(q) + 1
    BY <2>2
  <2>b. \/ Len(Reached(s)) \in {0, 1}
        \/ /\ s \notin lost /\ phase[s] \in {"ended", "interrupted"}
           /\ Len(Reached(s)) = 2 /\ Reached(s)[1] = Word("ok", s)
    BY <1>0, ShortReached, Zenon
  <2>3. Len(q) = 0
    <3>1. ASSUME Len(q) # 0 PROVE Len(h) = 0 /\ Len(q) = 1 /\ Reached(s)[1] = Word("ok", s)
      <4>1. Len(Reached(s)) \notin {0, 1}
        BY <2>a, <3>1
      <4>2. Len(Reached(s)) = 2
        BY <2>b, <4>1, Zenon
      <4>3. Reached(s)[1] = Word("ok", s)
        BY <2>b, <4>1, Zenon
      <4>4. Len(h) = 0 /\ Len(q) = 1
        <5>1. Len(h) + Len(q) + 1 = 2
          BY <2>a, <4>2, Zenon
        <5>2. QED
          BY <2>n, <3>1, <5>1, OneOfTwo, Zenon
      <4>5. QED
        BY <4>3, <4>4
    <3>2. ASSUME Len(q) # 0 PROVE Reached(s)[1] = Word("interrupted", s)
      <4>1. Len(h) = 0 /\ Len(q) = 1
        BY <3>1, <3>2
      <4>2. Reached(s)[Len(h) + 1] = q[1] /\ Len(h) + 1 = 1 /\ q[1] = Word("interrupted", s)
        BY <1>1, <2>2, <4>1
      <4>3. QED
        BY <4>2
    <3>3. QED
      BY <3>1, <3>2 DEF Word
  <2>4. /\ Reached(s) = h \o m
        /\ heard' = heard => Reached(s)' = h
        /\ Calls(word) => Reached(s)' = h \o m
    <3>1. q = <<>> /\ m \in Seq(Telling(s))
      BY <2>1, <2>3
    <3>2. h \o q = h /\ h \o m \in Seq(Telling(s)) /\ (h \o m) \o q = h \o m
      BY <3>1
    <3>3. QED
      BY <1>1, <3>2
  <2>5. CASE Calls(word) /\ lost' = lost
    BY <1>0, <2>4, <2>5, SilenceSound
  <2>6. CASE heard' = heard /\ lost' = lost \cup {s}
    <3>1. s \in lost' /\ Reached(s)' = h /\ Len(Reached(s)) = Len(h) + 1
      BY <2>2, <2>3, <2>4, <2>6
    <3>2. phase[s] \notin {"unused", "asked"}
      <4>1. Reached(s) # <<>>
        BY <2>2
      <4>2. QED
        BY <4>1, SayingsAre DEF Sound
    <3>3. Fragments(s)' = Fragments(s) /\ Sayings(s)' = Sayings(s)
      BY DEF Fragments, Sayings, Word, ToSet
    <3>4. CASE Len(h) = 0
      <4>1. h = <<>>
        BY <3>4
      <4>2. QED
        BY <1>0, <3>1, <3>2, <3>3, <4>1 DEF Sound, Fragments
    <3>5. CASE /\ Len(h) = 1 /\ h[1] = Word("ok", s)
               /\ s \notin lost /\ phase[s] \in {"ended", "interrupted"}
      <4>1. h = <<Word("ok", s)>>
        BY <3>5
      <4>2. PICK x : <<Word("ok", s), x>> \in Sayings(s)
        BY <3>5, SayingsAre
      <4>3. Word("ok", s) \in ToSet(<<Word("ok", s), x>>)
        BY DEF ToSet
      <4>4. h \in Fragments(s)
        BY <4>1, <4>2, <4>3 DEF Fragments
      <4>5. QED
        BY <1>0, <3>1, <3>2, <3>3, <3>5, <4>4 DEF Sound
    <3>6. Len(h) = 0 \/ (Len(h) = 1 /\ h[1] = Word("ok", s)
                         /\ s \notin lost /\ phase[s] \in {"ended", "interrupted"})
      <4>1. ASSUME Len(h) # 0
            PROVE  Len(h) = 1 /\ h[1] = Reached(s)[1] /\ Len(Reached(s)) \notin {0, 1}
        <5>1. Len(Reached(s)) \notin {0, 1}
          BY <2>a, <4>1
        <5>2. Len(Reached(s)) = 2
          BY <2>b, <5>1, Zenon
        <5>3. Len(h) = 1
          <6>1. Len(h) + Len(q) + 1 = 2
            BY <2>a, <5>2, Zenon
          <6>2. QED
            BY <2>n, <2>3, <6>1, OneOfTwo, Zenon
        <5>4. QED
          BY <2>2, <5>1, <5>3
      <4>2. QED
        BY <2>b, <4>1, Zenon
    <3>7. QED
      BY <3>4, <3>5, <3>6
  <2>7. QED
    BY <2>5, <2>6
<1>4. QED
  BY <1>3

\* It is nothing to the other sessions.
LEMMA PassedOver ==
    ASSUME LateInv, LateInv', UNCHANGED <<queue, phase>>, NEW word \in Message,
           NEW s \in Session, word.of # s, Sound(s), Awaited(s)' = Awaited(s),
           \/ Calls(word) /\ lost' = lost
           \/ heard' = heard /\ lost' = lost \cup {word.of}
    PROVE  Sound(s)'
<1>1. PhasesOK /\ heard'[s] = heard[s]
  BY DEF LateInv, TypesOK, MessagesOK, Calls
<1>2. Reached(s)' = Reached(s)
  BY <1>1, StillKeeps
<1>3. QED
  BY <1>1, <1>2, SilenceSound

\* A word of the service, or of an end, settles or begins a session.
LEMMA WordMoves ==
    ASSUME TypesOK, NEW s \in Session, ServiceSpeaks(s) \/ EndAssessment(s)
    PROVE  /\ message = NoMessage /\ UNCHANGED <<inside, queue, heard, lost, late>>
           /\ \A o \in Session \ {s} : phase'[o] = phase[o]
           /\ \E w \in {"running", "refused", "interrupted", "ended"} :
                /\ phase[s] = IF w \in {"running", "refused"} THEN "asked" ELSE "running"
                /\ phase'[s] = w
                /\ message' = Word(IF w = "running" THEN "ok" ELSE w, s)
<1>0. phase \in [Session -> Phases]
  BY DEF TypesOK, PhasesOK
<1>1. message = NoMessage /\ UNCHANGED <<inside, queue, heard, lost, late>>
  BY Zenon DEF ServiceSpeaks, ServiceAccepts, ServiceRefuses, ServiceInterrupts, Sends, LockIsFree,
     ServiceFrame, mainVars, historyVars, EndAssessment, MainFrame, lateVars
<1> DEFINE Moves(from, to, what) ==
             phase[s] = from /\ phase' = [phase EXCEPT ![s] = to] /\ message' = Word(what, s)
<1>2. \/ Moves("asked", "running", "ok") \/ Moves("asked", "refused", "refused")
      \/ Moves("running", "interrupted", "interrupted") \/ Moves("running", "ended", "ended")
  BY DEF ServiceSpeaks, ServiceAccepts, ServiceRefuses, ServiceInterrupts, EndAssessment, Sends,
     Accept, Refuse, Becomes
<1>3. QED
  BY <1>0, <1>1, <1>2

\* A begin asks for one session and refuses the one that still waited.
LEMMA AskMoves ==
    ASSUME TypesOK, PhasesInTurn, NEW b \in Session, BeginAssessment(b)
    PROVE  /\ message = NoMessage /\ UNCHANGED <<inside, queue, heard, lost, late>>
           /\ phase[b] = "unused" /\ phase'[b] = "asked"
           /\ \/ message' = NoMessage /\ \A o \in Session \ {b} : phase'[o] = phase[o]
              \/ \E s \in Session \ {b} :
                   /\ phase[s] = "asked" /\ phase'[s] = "refused" /\ message' = Word("refused", s)
                   /\ \A o \in Session \ {b, s} : phase'[o] = phase[o]
<1>0. phase \in [Session -> Phases] /\ excused = {} /\ Session \subseteq Nat
  BY DEF TypesOK, PhasesOK, Session
<1>1. /\ message = NoMessage /\ UNCHANGED <<inside, queue, heard, lost, late>> /\ phase[b] = "unused"
      /\ serving /\ serving' = serving
      /\ message' = IF \E o \in Session : phase[o] = "asked"
                      THEN Word("refused", CHOOSE o \in Session : phase[o] = "asked")
                      ELSE NoMessage
  BY Zenon DEF BeginAssessment, LockIsFree, MainFrame, Ask, lateVars
<1>2. PICK word \in [Session -> {"refused", "dropped"}] :
        /\ \A o \in Session : word[o] = "dropped" => MayDrop(o)
        /\ phase' = [o \in Session |-> CASE o = b -> "asked" [] phase[o] = "asked" -> word[o]
                                         [] OTHER -> phase[o]]
  BY Zenon DEF BeginAssessment, Ask
<1>3. \A o \in Session : word[o] = "refused"
  BY <1>0, <1>1, <1>2 DEF MayDrop
<1>4. phase'[b] = "asked" /\ \A o \in Session \ {b} :
        phase'[o] = IF phase[o] = "asked" THEN "refused" ELSE phase[o]
  BY <1>1, <1>2, <1>3
<1>5. CASE \E o \in Session : phase[o] = "asked"
  <2> DEFINE s == CHOOSE o \in Session : phase[o] = "asked"
  <2>1. s \in Session /\ phase[s] = "asked"
    BY <1>5
  <2>2. message' = Word("refused", s)
    BY <1>1, <1>5, Zenon
  <2> HIDE DEF s
  <2>3. \A o \in Session : phase[o] = "asked" => o = s
    <3>1. ASSUME NEW o \in Session, phase[o] = "asked", o # s PROVE FALSE
      <4>1. o > s \/ s > o
        BY <1>0, <2>1, <3>1
      <4>2. QED
        BY <2>1, <3>1, <4>1 DEF PhasesInTurn, Waiting
    <3>2. QED
      BY <3>1
  <2>4. s # b
    BY <1>1, <2>1
  <2>5. phase'[s] = "refused" /\ \A o \in Session \ {b, s} : phase'[o] = phase[o]
    BY <1>4, <2>1, <2>3, <2>4
  <2>6. QED
    BY <1>1, <1>4, <2>1, <2>2, <2>4, <2>5, Zenon
<1>6. CASE ~\E o \in Session : phase[o] = "asked"
  BY <1>1, <1>4, <1>6
<1>7. QED
  BY <1>5, <1>6

\* Every other step that says nothing and hands nothing on.
Hushed ==
    /\ UNCHANGED <<heard, queue, lost>> /\ \A s \in Session : Awaited(s)' = Awaited(s)
    /\ AppHoldsMessage => AppHoldsMessage'
    /\ \A s \in Session : phase'[s] = phase[s] \/ (phase[s] \in Waiting /\ phase'[s] = "dropped")

LEMMA HushedSteps ==
    ASSUME LateInv, [BridgeNext]_bridgeVars
    PROVE  \/ \E s \in Session : ServiceSpeaks(s) \/ EndAssessment(s) \/ BeginAssessment(s)
           \/ PostTask \/ CallDirectly \/ NotifyServiceDied \/ RunTask
           \/ (\E s \in Session : HandOnLate(s)) \/ Hushed
<1> USE DEF Hushed, AppHoldsMessage
<1>0. ASSUME NEW s \in Session, late' = late, UNCHANGED <<message, inside>> \/ (~Pending /\ ~Pending')
      PROVE  Awaited(s)' = Awaited(s)
  BY <1>0 DEF Awaited, LeftOver, Pending, Word
<1>1. CASE UNCHANGED <<phase, heard, queue, lost, message, inside, late>>
  BY <1>0, <1>1
<1>2. CASE DirectCallReturns
  <2>1. /\ UNCHANGED <<phase, heard, queue, lost, late>> /\ message' = NoMessage
        /\ inside = "app" /\ inside' = "no"
    BY <1>2, Zenon DEF DirectCallReturns, protocolVars, mainVars, historyVars, lateVars
  <2>2. ~Pending /\ ~Pending'
    BY <2>1 DEF Pending
  <2>3. QED
    BY <1>0, <2>1, <2>2
<1>3. CASE DirectCallReenters
  <2>1. UNCHANGED <<phase, heard, queue, lost, message, late>> /\ inside = "app" /\ inside' = "stuck"
    BY <1>3, Zenon DEF DirectCallReenters, protocolVars, mainVars, historyVars, lateVars
  <2>2. ~Pending /\ ~Pending'
    BY <2>1 DEF Pending
  <2>3. QED
    BY <1>0, <2>1, <2>2
<1>4. CASE ServiceDies
  <2>1. /\ UNCHANGED <<heard, queue, lost>> /\ inside' = "no"
        /\ phase' = [s \in Session |-> IF phase[s] \in Waiting THEN "dropped" ELSE phase[s]]
    BY <1>4, Zenon DEF ServiceDies, historyVars
  <2>2. QED
    BY <1>4, <2>1, AwaitsStill
<1>5. BridgeAction =>
        \/ \E s \in Session : ServiceSpeaks(s) \/ EndAssessment(s) \/ BeginAssessment(s)
        \/ PostTask \/ CallDirectly \/ NotifyServiceDied \/ RunTask
        \/ DirectCallReturns \/ DirectCallReenters \/ ServiceDies
        \/ (\E s \in Session : HandOnLate(s))
        \/ UNCHANGED <<phase, heard, queue, lost, message, inside, late>>
  BY Zenon DEF BridgeAction, AskService, ServiceStarts, TakeDiedCallback, BeginReturns, EndReturns,
     QueryReturns, RequestThrows, TaskReturns, MainFrame, protocolVars, ipcVars, lateVars, mainVars,
     historyVars
<1>6. UNCHANGED bridgeVars => UNCHANGED <<phase, heard, queue, lost, message, inside, late>>
  BY Zenon DEF bridgeVars, protocolVars, ipcVars, lateVars, mainVars, historyVars
<1>7. QED
  BY <1>1, <1>2, <1>3, <1>4, <1>5, <1>6, NextIsAction, Zenon

HearingInv == TurnInv /\ AppHoldsMessage /\ \A s \in Session : Sound(s)

\* Every step keeps what each session has heard and is going to hear in line
\* with what the service has said to it.
LEMMA HearingKept ==
    ASSUME HearingInv, [BridgeNext]_bridgeVars
    PROVE  HearingInv'
<1>0. /\ TurnInv /\ TurnInv' /\ TypesOK /\ TypesOK' /\ PhasesOK /\ AppHoldsMessage
      /\ LateInv /\ LateInv'
  BY TurnKept DEF HearingInv, TurnInv, LateInv, TypesOK
<1> SUFFICES AppHoldsMessage' /\ \A s \in Session : Sound(s)'
  BY <1>0 DEF HearingInv
<1>a. \A s \in Session : Sound(s)
  BY DEF HearingInv
<1>1. ASSUME NEW s \in Session, ServiceSpeaks(s) \/ EndAssessment(s)
      PROVE  AppHoldsMessage' /\ \A o \in Session : Sound(o)'
  <2>1. /\ message = NoMessage /\ UNCHANGED <<inside, queue, heard, lost, late>>
        /\ \A o \in Session \ {s} : phase'[o] = phase[o]
    BY <1>0, <1>1, WordMoves
  <2>2. PICK w \in {"running", "refused", "interrupted", "ended"} :
          /\ phase[s] = IF w \in {"running", "refused"} THEN "asked" ELSE "running"
          /\ phase'[s] = w
          /\ message' = Word(IF w = "running" THEN "ok" ELSE w, s)
    BY <1>0, <1>1, WordMoves
  <2>3. inside = "no" /\ AppHoldsMessage'
    BY <1>0, <2>1 DEF AppHoldsMessage
  <2>4. message' # NoMessage /\ message'.of = s
    BY <2>2 DEF Word, NoMessage, Session, NoSession
  <2>5. Sound(s)'
    <3>1. Reached(s)' = Append(Reached(s), message')
      BY <1>0, <2>1, <2>3, <2>4, SendingAdds
    <3>2. QED
      BY <1>0, <1>a, <2>1, <2>2, <3>1, SayingSound
  <2>6. ASSUME NEW o \in Session, o # s PROVE Sound(o)'
    <3>1. Reached(o)' = Reached(o)
      BY <1>0, <2>1, <2>3, <2>4, <2>6, SendingAdds
    <3>2. QED
      BY <1>0, <1>a, <2>1, <2>6, <3>1, SilenceSound
  <2>7. QED
    BY <2>3, <2>5, <2>6
<1>2. ASSUME NEW b \in Session, BeginAssessment(b)
      PROVE  AppHoldsMessage' /\ \A o \in Session : Sound(o)'
  <2>1. /\ message = NoMessage /\ UNCHANGED <<inside, queue, heard, lost, late>>
        /\ phase[b] = "unused" /\ phase'[b] = "asked"
    BY <1>0, <1>2, AskMoves DEF TurnInv
  <2>2. inside = "no" /\ AppHoldsMessage'
    BY <1>0, <2>1 DEF AppHoldsMessage
  <2>3. CASE message' = NoMessage /\ \A o \in Session \ {b} : phase'[o] = phase[o]
    <3>1. ASSUME NEW o \in Session PROVE Sound(o)'
      <4>1. Reached(o)' = Reached(o)
        BY <1>0, <2>1, <2>2, <2>3, SendingAdds
      <4>2. QED
        BY <1>0, <1>a, <2>1, <2>3, <4>1, SilenceSound
    <3>2. QED
      BY <2>2, <3>1
  <2>4. ASSUME NEW s \in Session \ {b}, phase[s] = "asked", phase'[s] = "refused",
               message' = Word("refused", s), \A o \in Session \ {b, s} : phase'[o] = phase[o]
        PROVE  \A o \in Session : Sound(o)'
    <3>1. message' # NoMessage /\ message'.of = s
      BY <2>4 DEF Word, NoMessage, Session, NoSession
    <3>2. Sound(s)'
      <4>1. Reached(s)' = Append(Reached(s), Word("refused", s))
        BY <1>0, <2>1, <2>2, <2>4, <3>1, SendingAdds
      <4>2. QED
        BY <1>0, <1>a, <2>1, <2>4, <4>1, SayingSound
    <3>3. ASSUME NEW o \in Session, o # s PROVE Sound(o)'
      <4>1. Reached(o)' = Reached(o)
        BY <1>0, <2>1, <2>2, <3>1, <3>3, SendingAdds
      <4>2. QED
        BY <1>0, <1>a, <2>1, <2>4, <3>3, <4>1, SilenceSound
    <3>4. QED
      BY <3>2, <3>3
  <2>5. QED
    BY <1>0, <1>2, <2>2, <2>3, <2>4, AskMoves DEF TurnInv
<1>3. ASSUME PostTask \/ RunTask \/ NotifyServiceDied
      PROVE  AppHoldsMessage' /\ \A o \in Session : Sound(o)'
  <2>1. UNCHANGED <<phase, lost>> /\ AppHoldsMessage'
    BY <1>0, <1>3 DEF PostTask, RunTask, NotifyServiceDied, MainFrame, AppHoldsMessage,
       protocolVars, historyVars, ipcVars
  <2>2. ASSUME NEW o \in Session PROVE Sound(o)'
    <3>1. Reached(o)' = Reached(o)
      BY <1>0, <1>3, PostingKeeps, RunningKeeps, NoticeKeeps, Zenon
    <3>2. QED
      BY <1>0, <1>a, <2>1, <3>1, SilenceSound
  <2>3. QED
    BY <2>1, <2>2
<1>4. ASSUME CallDirectly PROVE AppHoldsMessage' /\ \A o \in Session : Sound(o)'
  <2>1. AppHoldsMessage'
    BY <1>4 DEF CallDirectly, AppHoldsMessage
  <2>2. /\ Pending /\ ~Pending' /\ bridge = "ani" /\ message.what # "interrupted"
        /\ UNCHANGED <<queue, phase, late>>
        /\ \/ Calls(message) /\ lost' = lost
           \/ heard' = heard /\ lost' = lost \cup {message.of}
    BY <1>4 DEF CallDirectly, CalledDirectly, Pending, mainVars, lateVars, protocolVars
  <2>3. message \in Message /\ message.what # "died"
    BY <1>0, <2>2 DEF TypesOK, MessagesOK, Said, Message, Pending
  <2>4. ASSUME NEW o \in Session PROVE Sound(o)'
    <3>1. CASE message.of = o
      BY <1>0, <1>a, <2>2, <2>3, <3>1, AwaitsNoMore, DirectCallSound DEF TurnInv
    <3>2. CASE message.of # o
      BY <1>0, <1>a, <2>2, <2>3, <3>2, AwaitsNoMore, PassedOver
    <3>3. QED
      BY <3>1, <3>2
  <2>5. QED
    BY <2>1, <2>4
<1>5. ASSUME Hushed PROVE AppHoldsMessage' /\ \A o \in Session : Sound(o)'
  <2>1. AppHoldsMessage' /\ lost' = lost
    BY <1>0, <1>5 DEF Hushed
  <2>2. ASSUME NEW o \in Session PROVE Sound(o)'
    <3>1. Reached(o)' = Reached(o)
      BY <1>0, <1>5, StillKeeps DEF Hushed
    <3>2. phase'[o] = phase[o] \/ (phase[o] \in Waiting /\ phase'[o] = "dropped")
      BY <1>5, Zenon DEF Hushed
    <3>3. QED
      BY <1>0, <1>a, <2>1, <3>1, <3>2, SilenceSound
  <2>3. QED
    BY <2>1, <2>2
<1>6. ASSUME NEW s \in Session, HandOnLate(s)
      PROVE  AppHoldsMessage' /\ \A o \in Session : Sound(o)'
  <2> DEFINE w == Word(late[s], s)
  <2>1. /\ UNCHANGED <<phase, bridge, message, inside>> /\ w \in Message /\ w.of = s
        /\ w.what \in Words \ {"died"}
        /\ \/ queue' = Append(queue, w) /\ UNCHANGED <<heard, lost>>
           \/ /\ CalledDirectly(w.what) /\ UNCHANGED queue
              /\ \/ Calls(w) /\ lost' = lost
                 \/ heard' = heard /\ lost' = lost \cup {s}
    BY <1>0, <1>6, LateMoves DEF Word
  <2>2. \A o \in Session : IF o = s THEN Awaited(o) = <<w>> /\ Awaited(o)' = <<>>
                                     ELSE Awaited(o)' = Awaited(o)
    BY <1>0, <1>6, AwaitsNotLate
  <2> HIDE DEF w
  <2>3. CASE queue' = Append(queue, w) /\ UNCHANGED <<heard, lost>>
    <3>1. ASSUME NEW o \in Session PROVE Sound(o)'
      <4>1. Reached(o)' = Reached(o)
        BY <1>0, <2>1, <2>2, <2>3, PostedKeeps
      <4>2. QED
        BY <1>0, <1>a, <2>1, <2>3, <4>1, SilenceSound
    <3>2. QED
      BY <1>0, <2>1, <3>1 DEF AppHoldsMessage
  <2>4. CASE /\ CalledDirectly(w.what) /\ UNCHANGED queue
             /\ \/ Calls(w) /\ lost' = lost
                \/ heard' = heard /\ lost' = lost \cup {s}
    <3>1. bridge = "ani" /\ w.what # "interrupted"
      BY <2>4 DEF CalledDirectly
    <3>2. ASSUME NEW o \in Session PROVE Sound(o)'
      <4>1. CASE o = s
        BY <1>0, <1>a, <2>1, <2>2, <2>4, <3>1, <4>1, DirectCallSound DEF TurnInv
      <4>2. CASE o # s
        BY <1>0, <1>a, <2>1, <2>2, <2>4, <4>2, PassedOver
      <4>3. QED
        BY <4>1, <4>2
    <3>3. QED
      BY <1>0, <2>1, <3>2 DEF AppHoldsMessage
  <2>5. QED
    BY <2>1, <2>3, <2>4
<1>7. QED
  BY <1>0, <1>1, <1>2, <1>3, <1>4, <1>5, <1>6, HushedSteps, Zenon

LEMMA HearingInitially == BridgeInit => HearingInv
<1> SUFFICES ASSUME BridgeInit PROVE HearingInv
  OBVIOUS
<1>1. LateInv
  BY LateInitially
<1>2. TurnInv
  <2>1. PhasesInTurn /\ KnownIsUsed
    BY DEF BridgeInit, ProtocolInit, PhasesInTurn, KnownIsUsed, Known, NoMessage, NoCall,
       NoSession, Session
  <2>2. QED
    BY <1>1, <2>1 DEF BridgeInit, TurnInv, LateInv, MessageIsLatest, TasksInTurn, TasksAreLatest,
       AniPostsInterrupted
<1>3. ASSUME NEW s \in Session PROVE Sound(s)
  <2>1. phase[s] = "unused" /\ s \notin lost
    BY DEF BridgeInit, ProtocolInit
  <2>2. Reached(s) = <<>>
    <3>1. heard[s] = <<>> /\ queue = <<>> /\ message = NoMessage /\ late[s] = "none"
      BY DEF BridgeInit
    <3>2. Selected(Received(heard[s], s), Telling(s)) = <<>>
      <4>1. Received(heard[s], s) = <<>>
        BY <3>1 DEF Received
      <4>2. QED
        BY <4>1, SelectedOfNone, Zenon
    <3>3. Selected(queue, Telling(s)) = <<>> /\ Awaited(s) = <<>>
      <4>1. Awaited(s) = <<>>
        BY <3>1 DEF Awaited, LeftOver, Pending
      <4>2. QED
        BY <3>1, <4>1, SelectedOfNone, Zenon
    <3>4. Reached(s) = <<>> \o <<>> \o <<>>
      BY <1>1, <3>2, <3>3, ReachedInParts, Zenon
    <3>5. QED
      BY <3>4
  <2>3. QED
    BY <2>1, <2>2, SayingsAre DEF Sound
<1>4. QED
  BY <1>2, <1>3 DEF HearingInv, AppHoldsMessage, BridgeInit

\* Every callback of the service reaches the functions of its own session,
\* once and in the order it was sent, through whichever threads the bridge
\* uses (OnRemoteRequest and CallJsOnBegin, CallJsOnInterrupted, CallJsOnEnd of
\* both bridges); only a session that lost a message hears less.
THEOREM EveryWordArrives == BridgeSpec => []HeardAsSent
<1>1. HearingInv => HeardAsSent
  <2> SUFFICES ASSUME HearingInv PROVE HeardAsSent
    OBVIOUS
  <2>1. /\ PhasesOK
        /\ \A s \in Session : Reached(s) \in IF s \in lost THEN Fragments(s) ELSE Sayings(s)
    BY DEF HearingInv, TurnInv, TypesOK, Sound
  <2>2. QED
    BY <2>1, HeardInFragments, Zenon
<1>2. QED
  BY HearingInitially, HearingKept, <1>1, PTL DEF BridgeSpec

-----------------------------------------------------------------------------

\* What is known of a session that ended: the end that waits was made, the last
\* words on their way are true, and a death that was told was heard.
EndIsMade == call.at = "end" => phase[call.of] = "ended"
FinalsAreTrue ==
    /\ \A m \in {message, task} \cup ToSet(queue) : m.what \in Final => phase[m.of] = m.what
    /\ \A s \in Session : late[s] \in Final => phase[s] = late[s]
TaskWasHeard == task.what = "died" => "died" \in ToSet(heard[task.of])

\* While a session lives, what will tell of its service's death is there, and
\* afterwards if a recipient saw it.
RecordGuards(s) ==
    phase[s] \in Waiting \cup {"dropped"} =>
        \/ ToldOfDeath(s) \/ ReportComes(s)
        \/ active = s /\ armed /\ (phase[s] \in Waiting \/ due > 0 \/ s \in unwatched)

DeathInv ==
    /\ TypesOK /\ EndIsMade /\ FinalsAreTrue /\ TaskWasHeard
    /\ bridge = "napi" => \A s \in Session : RecordGuards(s)

\* Only the death of the service drops a session, and what is over stays so.
LEMMA DropsAndFinals ==
    ASSUME TypesOK, [BridgeNext]_bridgeVars, NEW s \in Session
    PROVE  /\ phase[s] \in Final \cup {"dropped", "refused"} => phase'[s] = phase[s]
           /\ phase'[s] = "dropped" => phase[s] = "dropped" \/ ServiceDies
<1>0. phase \in [Session -> Phases] /\ excused = {}
  BY DEF TypesOK, PhasesOK
<1>1. ASSUME NEW o \in Session, ServiceSpeaks(o) PROVE
        /\ phase[s] \in Final \cup {"dropped", "refused"} => phase'[s] = phase[s]
        /\ phase'[s] = "dropped" => phase[s] = "dropped"
  BY <1>0, <1>1, SpeakMoves DEF TypesOK, Final, Waiting
<1>2. ASSUME NEW o \in Session, EndAssessment(o) PROVE
        /\ phase[s] \in Final \cup {"dropped", "refused"} => phase'[s] = phase[s]
        /\ phase'[s] = "dropped" => phase[s] = "dropped"
  BY <1>0, <1>2, EndMoves DEF TypesOK, Final
<1>3. ASSUME NEW o \in Session, BeginAssessment(o) PROVE
        /\ phase[s] \in Final \cup {"dropped", "refused"} => phase'[s] = phase[s]
        /\ phase'[s] = "dropped" => phase[s] = "dropped"
  <2>1. serving /\ serving' = serving /\ phase[o] = "unused"
    BY <1>3, Zenon DEF BeginAssessment, Ask
  <2>2. PICK word \in [Session -> {"refused", "dropped"}] :
          /\ \A p \in Session : word[p] = "dropped" => MayDrop(p)
          /\ phase' = [p \in Session |-> CASE p = o -> "asked" [] phase[p] = "asked" -> word[p]
                                           [] OTHER -> phase[p]]
    BY <1>3, Zenon DEF BeginAssessment, Ask
  <2>3. word[s] = "refused"
    BY <1>0, <2>1, <2>2 DEF MayDrop
  <2>4. phase'[s] = IF s = o THEN "asked" ELSE IF phase[s] = "asked" THEN "refused" ELSE phase[s]
    <3>1. phase'[s] = CASE s = o -> "asked" [] phase[s] = "asked" -> word[s] [] OTHER -> phase[s]
      BY <2>2, Zenon
    <3>2. QED
      BY <2>1, <2>3, <3>1
  <2>5. QED
    BY <2>1, <2>4 DEF Final
<1>4. CASE ServiceDies
  BY <1>0, <1>4 DEF ServiceDies, Waiting, Final
<1>5. CASE UNCHANGED phase
  BY <1>5
<1>6. BridgeAction =>
        \/ \E o \in Session : ServiceSpeaks(o) \/ BeginAssessment(o) \/ EndAssessment(o)
        \/ ServiceDies \/ UNCHANGED phase
  BY Zenon DEF BridgeAction, AskService, ServiceStarts, PostTask, CallDirectly, DirectCallReturns,
     DirectCallReenters, TakeDiedCallback, NotifyServiceDied, BeginReturns, EndReturns,
     QueryReturns, RequestThrows, TaskReturns, RunTask, HandOnLate, MainFrame, protocolVars
<1>7. UNCHANGED bridgeVars => UNCHANGED phase
  BY Zenon DEF bridgeVars, protocolVars
<1>8. QED
  BY <1>1, <1>2, <1>3, <1>4, <1>5, <1>6, <1>7, NextIsAction, Zenon

\* What a session heard stays heard.
LEMMA HeardStays ==
    ASSUME TypesOK, [BridgeNext]_bridgeVars, NEW s \in Session
    PROVE  ToSet(heard[s]) \subseteq ToSet(heard'[s])
<1>1. ASSUME NEW m \in Message, Calls(m) PROVE ToSet(heard[s]) \subseteq ToSet(heard'[s])
  <2>1. heard[s] \in Seq(Words) /\ m.what \in Words
    BY DEF TypesOK, MessagesOK, Message
  <2>2. heard'[s] \in {heard[s], Append(heard[s], m.what)}
    BY <1>1 DEF Calls, TypesOK, MessagesOK
  <2>3. ToSet(Append(heard[s], m.what)) = ToSet(heard[s]) \cup {m.what}
    BY <2>1, ItemsOfAppend
  <2>4. QED
    BY <2>2, <2>3
<1>2. CASE CallDirectly
  <2>1. message \in Message
    BY <1>2 DEF CallDirectly, TypesOK, MessagesOK, Said, Message
  <2>2. Calls(message) \/ UNCHANGED heard
    BY <1>2, Zenon DEF CallDirectly
  <2>3. QED
    BY <1>1, <2>1, <2>2
<1>3. CASE RunTask
  <2>1. queue \in Seq(Message) /\ queue # <<>> /\ Calls(Head(queue))
    BY <1>3, Zenon DEF RunTask, TypesOK, MessagesOK
  <2>2. QED
    BY <1>1, <2>1, ItemsOfTail
<1>4. CASE UNCHANGED heard
  BY <1>4
<1>a. ASSUME NEW o \in Session, HandOnLate(o) PROVE ToSet(heard[s]) \subseteq ToSet(heard'[s])
  <2>1. Word(late[o], o) \in Message /\ (Calls(Word(late[o], o)) \/ UNCHANGED heard)
    BY <1>a, LateMoves, Zenon
  <2>2. QED
    BY <1>1, <1>4, <2>1
<1>5. BridgeAction => CallDirectly \/ RunTask \/ UNCHANGED heard \/ \E o \in Session : HandOnLate(o)
  BY Zenon DEF BridgeAction, ServiceSpeaks, ServiceAccepts, ServiceRefuses, ServiceInterrupts,
     ServiceFrame, BeginAssessment, EndAssessment, AskService, ServiceDies, ServiceStarts, PostTask,
     DirectCallReturns, DirectCallReenters, TakeDiedCallback, NotifyServiceDied, BeginReturns,
     EndReturns, QueryReturns, RequestThrows, TaskReturns
<1>6. UNCHANGED bridgeVars => UNCHANGED heard
  BY Zenon DEF bridgeVars
<1>7. QED
  BY <1>2, <1>3, <1>4, <1>5, <1>6, <1>a, NextIsAction, Zenon

\* No step takes a session off those that were passed over.
LEMMA MissedStays ==
    ASSUME [BridgeNext]_bridgeVars PROVE missed \subseteq missed'
<1>1. BridgeAction => \/ BeginReturns \/ EndReturns \/ TaskReturns \/ RequestThrows
                      \/ UNCHANGED missed
  BY Zenon DEF BridgeAction, ServiceSpeaks, ServiceAccepts, ServiceRefuses, ServiceInterrupts,
     ServiceFrame, BeginAssessment, EndAssessment, AskService, ServiceDies, ServiceStarts, PostTask,
     CallDirectly, DirectCallReturns, DirectCallReenters, TakeDiedCallback, NotifyServiceDied,
     QueryReturns, RunTask, HandOnLate, RecordFrame, historyVars
<1>2. UNCHANGED bridgeVars => UNCHANGED missed
  BY Zenon DEF bridgeVars, historyVars
<1>3. ASSUME BeginReturns \/ EndReturns \/ TaskReturns \/ RequestThrows
      PROVE  missed \subseteq missed'
  <2>1. (\E s : Register(s) \/ Unregister(s)) \/ RecordFrame \/ RequestThrows
    BY <1>3, Zenon DEF BeginReturns, EndReturns, TaskReturns
  <2>2. ASSUME NEW s, Register(s) PROVE missed \subseteq missed'
    BY <2>2, Zenon DEF Register
  <2>3. ASSUME NEW s, Unregister(s) PROVE missed \subseteq missed'
    BY <2>3, Zenon DEF Unregister
  <2>4. RecordFrame \/ RequestThrows => missed \subseteq missed'
    BY Zenon DEF RecordFrame, RequestThrows
  <2>5. QED
    BY <2>1, <2>2, <2>3, <2>4, Zenon
<1>4. QED
  BY <1>1, <1>2, <1>3, NextIsAction

\* A session that was told of the death stays told.
LEMMA ToldStays ==
    ASSUME TypesOK, [BridgeNext]_bridgeVars, NEW s \in Session, ToldOfDeath(s)
    PROVE  ToldOfDeath(s)'
<1>0. queue \in Seq(Message)
  BY DEF TypesOK, MessagesOK
<1>1. CASE s \in missed \/ "died" \in ToSet(heard[s])
  <2>1. s \in missed' \/ "died" \in ToSet(heard'[s])
    BY <1>1, MissedStays, HeardStays
  <2>2. QED
    BY <2>1, Zenon DEF ToldOfDeath
<1>2. CASE Word("died", s) \in ToSet(queue) /\ RunTask
  <2>1. queue # <<>> /\ queue' = Tail(queue) /\ Calls(Head(queue))
    BY <1>2, Zenon DEF RunTask
  <2>2. Word("died", s) \in ToSet(queue') \/ Word("died", s) = Head(queue)
    BY <1>0, <1>2, <2>1, ItemsOfTail
  <2>3. CASE Word("died", s) = Head(queue)
    <3>1. heard[s] \in Seq(Words) /\ heard'[s] = Append(heard[s], "died") /\ "died" \in Words
      BY <2>1, <2>3 DEF Calls, Word, Words, TypesOK, MessagesOK
    <3>2. ToSet(Append(heard[s], "died")) = ToSet(heard[s]) \cup {"died"}
      BY <3>1, ItemsOfAppend
    <3>3. "died" \in ToSet(heard'[s])
      BY <3>1, <3>2
    <3>4. QED
      BY <3>3, Zenon DEF ToldOfDeath
  <2>4. CASE Word("died", s) \in ToSet(queue')
    BY <2>4, Zenon DEF ToldOfDeath, Word
  <2>5. QED
    BY <2>2, <2>3, <2>4
<1>3. CASE Word("died", s) \in ToSet(queue) /\ ToSet(queue) \subseteq ToSet(queue')
  <2>1. Word("died", s) \in ToSet(queue')
    BY <1>3
  <2>2. QED
    BY <2>1, Zenon DEF ToldOfDeath, Word
<1>4. RunTask \/ ToSet(queue) \subseteq ToSet(queue')
  <2>1. CASE PostTask
    <3>1. message \in Message /\ queue' = Append(queue, message)
      BY <2>1 DEF PostTask, Posted, TypesOK, MessagesOK, Said, Message
    <3>2. ToSet(Append(queue, message)) = ToSet(queue) \cup {message}
      BY <1>0, <3>1, ItemsOfAppend
    <3>3. QED
      BY <3>1, <3>2
  <2>2. CASE NotifyServiceDied
    <3>1. CASE queue' = queue
      BY <3>1
    <3>2. CASE active # NoSession /\ queue' = Append(queue, Word("died", active))
      <4>1. Word("died", active) \in Message
        BY <3>2 DEF TypesOK, RecordsOK, Word, Message, Words
      <4>2. ToSet(Append(queue, Word("died", active))) = ToSet(queue) \cup {Word("died", active)}
        BY <1>0, <4>1, ItemsOfAppend
      <4>3. QED
        BY <3>2, <4>2
    <3>3. QED
      BY <2>2, <3>1, <3>2, NotifyMoves
  <2>a. ASSUME NEW o \in Session, HandOnLate(o) PROVE ToSet(queue) \subseteq ToSet(queue')
    <3>1. /\ Word(late[o], o) \in Message
          /\ queue' = queue \/ queue' = Append(queue, Word(late[o], o))
      BY <2>a, LateMoves, Zenon
    <3>2. ToSet(Append(queue, Word(late[o], o))) = ToSet(queue) \cup {Word(late[o], o)}
      BY <1>0, <3>1, ItemsOfAppend
    <3>3. QED
      BY <3>1, <3>2
  <2>3. BridgeAction => PostTask \/ NotifyServiceDied \/ RunTask \/ UNCHANGED queue
                        \/ \E o \in Session : HandOnLate(o)
    BY Zenon DEF BridgeAction, ServiceSpeaks, ServiceAccepts, ServiceRefuses, ServiceInterrupts,
       ServiceFrame, BeginAssessment, EndAssessment, AskService, ServiceDies, ServiceStarts,
       CallDirectly, DirectCallReturns, DirectCallReenters, TakeDiedCallback, BeginReturns,
       EndReturns, QueryReturns, RequestThrows, TaskReturns, mainVars
  <2>4. UNCHANGED bridgeVars => UNCHANGED queue
    BY Zenon DEF bridgeVars, mainVars
  <2>5. CASE UNCHANGED queue
    BY <2>5
  <2>6. QED
    BY <2>1, <2>2, <2>3, <2>4, <2>5, <2>a, NextIsAction, Zenon
<1>5. QED
  BY <1>1, <1>2, <1>3, <1>4, Zenon DEF ToldOfDeath

\* The last words on their way stay true, and so does the end that waits.
LEMMA FinalsStayTrue ==
    ASSUME TypesOK, EndIsMade, FinalsAreTrue, [BridgeNext]_bridgeVars
    PROVE  EndIsMade' /\ FinalsAreTrue'
<1> DEFINE True(m) == m.what \in Final => phase[m.of] = m.what
           TrueNext(m) == m.what \in Final => phase'[m.of] = m.what
<1>0. /\ late \in [Session -> (Words \ {"died"}) \cup {"none"}]
      /\ queue \in Seq(Message) /\ message \in Message \cup {NoMessage}
      /\ task \in Message \cup {NoMessage} /\ phase \in [Session -> Phases]
  BY DEF TypesOK, MessagesOK, PhasesOK, Said, Message
<1>1. \A m \in Message \cup {NoMessage} : True(m) => TrueNext(m)
  BY DropsAndFinals DEF Message, NoMessage, Final
<1>2. TrueNext(NoMessage)
  BY DEF NoMessage, Final
<1>3. True(message) /\ True(task) /\ \A m \in ToSet(queue) : True(m)
  BY DEF FinalsAreTrue
<1>4. \A m \in ToSet(queue) : m \in Message
  BY <1>0 DEF ToSet
<1>5. TrueNext(message) /\ TrueNext(task) /\ \A m \in ToSet(queue) : TrueNext(m)
  BY <1>0, <1>1, <1>3, <1>4, Zenon
<1>6. call.at = "end" => phase'[call.of] = "ended"
  <2>1. call.at = "end" => call.of \in Session
    BY DEF TypesOK, RecordsOK, NoCall
  <2>2. QED
    BY <2>1, DropsAndFinals DEF EndIsMade, Final
<1>a. \A s \in Session : late[s] \in Final => phase'[s] = late[s]
  BY DropsAndFinals DEF FinalsAreTrue
<1>7. ASSUME TrueNext(message'), TrueNext(task'), \A m \in ToSet(queue') : TrueNext(m),
             \A s \in Session : late'[s] \in Final => phase'[s] = late'[s]
      PROVE  FinalsAreTrue'
  BY <1>7 DEF FinalsAreTrue
<1> HIDE DEF True, TrueNext
<1> DEFINE Holds == EndIsMade' /\ FinalsAreTrue'
<1>8. ASSUME NEW s \in Session, ServiceSpeaks(s) PROVE Holds
  <2>1. UNCHANGED <<queue, task, call, late>>
    BY <1>8, SpeakMoves DEF TypesOK
  <2>2. PICK to \in {"running", "refused", "interrupted"} :
          /\ phase' = [phase EXCEPT ![s] = to]
          /\ message' = Word(IF to = "running" THEN "ok" ELSE to, s)
    BY <1>8, SpeakMoves DEF TypesOK
  <2>3. TrueNext(message')
    BY <1>0, <2>2 DEF TrueNext, Word, Final
  <2>4. QED
    BY <1>5, <1>6, <1>7, <1>a, <2>1, <2>3 DEF EndIsMade
<1>9. ASSUME NEW s \in Session, BeginAssessment(s) PROVE Holds
  <2>1. UNCHANGED <<queue, task, late>> /\ call' = [at |-> "begin", of |-> s]
    BY <1>9, BeginMoves DEF TypesOK
  <2>2. message' = NoMessage \/ message'.what = "refused"
    <3>1. message' = NoMessage
            \/ message' = Word("refused", CHOOSE o \in Session : phase[o] = "asked")
      BY <1>9, Zenon DEF BeginAssessment
    <3>2. QED
      BY <3>1 DEF Word
  <2>3. TrueNext(message')
    BY <1>2, <2>2 DEF TrueNext, Final
  <2>4. QED
    BY <1>5, <1>7, <1>a, <2>1, <2>3 DEF EndIsMade
<1>10. ASSUME NEW s \in Session, EndAssessment(s) PROVE Holds
  <2>1. /\ UNCHANGED <<queue, task, late>> /\ call' = [at |-> "end", of |-> s]
        /\ phase' = [phase EXCEPT ![s] = "ended"] /\ message' = Word("ended", s)
    BY <1>10, EndMoves DEF TypesOK
  <2>2. phase'[s] = "ended"
    BY <1>0, <2>1
  <2>3. TrueNext(message')
    BY <2>1, <2>2 DEF TrueNext, Word
  <2>4. QED
    BY <1>5, <1>7, <1>a, <2>1, <2>2, <2>3 DEF EndIsMade
<1>11. CASE PostTask
  <2>1. /\ message \in Message /\ queue' = Append(queue, message) /\ message' = NoMessage
        /\ UNCHANGED <<task, call, late>>
    BY <1>0, <1>11 DEF PostTask, Posted, lateVars
  <2>2. ToSet(queue') = ToSet(queue) \cup {message}
    BY <1>0, <2>1, ItemsOfAppend
  <2>3. QED
    BY <1>2, <1>5, <1>6, <1>7, <1>a, <2>1, <2>2 DEF EndIsMade
<1>12. CASE NotifyServiceDied
  <2>1. UNCHANGED <<message, task, call, late>>
    BY <1>12, NotifyMoves
  <2>2. CASE queue' = queue
    BY <1>5, <1>6, <1>7, <1>a, <2>1, <2>2 DEF EndIsMade
  <2>3. CASE active # NoSession /\ queue' = Append(queue, Word("died", active))
    <3>1. Word("died", active) \in Message
      BY <2>3 DEF TypesOK, RecordsOK, Word, Message, Words
    <3>2. ToSet(queue') = ToSet(queue) \cup {Word("died", active)}
      BY <1>0, <2>3, <3>1, ItemsOfAppend
    <3>3. TrueNext(Word("died", active))
      BY DEF TrueNext, Word, Final
    <3>4. QED
      BY <1>5, <1>6, <1>7, <1>a, <2>1, <3>2, <3>3 DEF EndIsMade
  <2>4. QED
    BY <1>12, <2>2, <2>3, NotifyMoves
<1>13. CASE RunTask
  <2>1. /\ queue # <<>> /\ task' = Head(queue) /\ queue' = Tail(queue)
        /\ UNCHANGED <<message, call, late>>
    BY <1>13, Zenon DEF RunTask, MainFrame, lateVars
  <2>2. ToSet(queue) = ToSet(queue') \cup {task'}
    BY <1>0, <2>1, ItemsOfTail
  <2>3. QED
    BY <1>5, <1>6, <1>7, <1>a, <2>1, <2>2 DEF EndIsMade
<1> DEFINE Calm == /\ UNCHANGED <<queue, late>>
                   /\ call' = call \/ call'.at # "end"
                   /\ message' \in {message, NoMessage} /\ task' \in {task, NoMessage}
<1>14. CASE Calm
  BY <1>2, <1>5, <1>6, <1>7, <1>a, <1>14 DEF EndIsMade
<1>15. CASE TaskReturns
  BY <1>14, <1>15 DEF TaskReturns, MainFrame, lateVars
<1>16. CASE ServiceDies
  <2>1. UNCHANGED <<queue, task>> /\ message' = NoMessage
        /\ (call' = call \/ call' = [call EXCEPT !.at = "lost"])
    BY <1>16, Zenon DEF ServiceDies
  <2>2. [call EXCEPT !.at = "lost"].at = "lost"
    BY DEF TypesOK, RecordsOK, NoCall
  <2>3. \/ late' = late
        \/ message \in Message /\ late' = [late EXCEPT ![message.of] = message.what]
    BY <1>0, <1>16 DEF ServiceDies, Pending
  <2>4. message \in Message => (message.what \in Final => phase'[message.of] = message.what)
    BY <1>5 DEF TrueNext
  <2>5. \A s \in Session : late'[s] \in Final => phase'[s] = late'[s]
    BY <1>0, <1>a, <2>3, <2>4 DEF Message
  <2>6. QED
    BY <1>2, <1>5, <1>6, <1>7, <2>1, <2>2, <2>5 DEF EndIsMade
<1>17. CASE AskService \/ BeginReturns \/ EndReturns \/ QueryReturns \/ RequestThrows
  BY <1>14, <1>17 DEF AskService, BeginReturns, EndReturns, QueryReturns, RequestThrows, NoCall,
     MainFrame, lateVars
<1>18. CASE CallDirectly \/ DirectCallReturns
  <2>1. Calm
    BY <1>18, Zenon DEF CallDirectly, DirectCallReturns, mainVars, lateVars
  <2>2. QED
    BY <1>14, <2>1
<1>19. CASE UNCHANGED <<queue, message, task, call, late>>
  BY <1>14, <1>19
<1>b. ASSUME NEW s \in Session, HandOnLate(s) PROVE Holds
  <2>1. /\ UNCHANGED <<message, task, call>> /\ late' = [late EXCEPT ![s] = "none"]
        /\ Word(late[s], s) \in Message
        /\ queue' = queue \/ queue' = Append(queue, Word(late[s], s))
    BY <1>b, LateMoves
  <2>2. TrueNext(Word(late[s], s))
    BY <1>a DEF TrueNext, Word
  <2>3. ToSet(Append(queue, Word(late[s], s))) = ToSet(queue) \cup {Word(late[s], s)}
    BY <1>0, <2>1, ItemsOfAppend
  <2>4. \A m \in ToSet(queue') : TrueNext(m)
    BY <1>5, <2>1, <2>2, <2>3
  <2>5. \A o \in Session : late'[o] \in Final => phase'[o] = late'[o]
    BY <1>0, <1>a, <2>1 DEF Final
  <2>6. QED
    BY <1>5, <1>6, <1>7, <2>1, <2>4, <2>5 DEF EndIsMade
<1>20. BridgeAction =>
         \/ \E s \in Session : ServiceSpeaks(s) \/ BeginAssessment(s) \/ EndAssessment(s)
         \/ PostTask \/ NotifyServiceDied \/ RunTask \/ TaskReturns \/ ServiceDies
         \/ AskService \/ BeginReturns \/ EndReturns \/ QueryReturns \/ RequestThrows
         \/ CallDirectly \/ DirectCallReturns \/ (\E s \in Session : HandOnLate(s))
         \/ UNCHANGED <<queue, message, task, call, late>>
  BY Zenon DEF BridgeAction, ServiceStarts, DirectCallReenters, TakeDiedCallback, ipcVars,
     lateVars, mainVars
<1>21. UNCHANGED bridgeVars => UNCHANGED <<queue, message, task, call, late>>
  BY Zenon DEF bridgeVars, ipcVars, lateVars, mainVars
<1> HIDE DEF Holds
<1>22. Holds
  BY <1>8, <1>9, <1>10, <1>11, <1>12, <1>13, <1>15, <1>16, <1>17, <1>18, <1>19, <1>20, <1>21, <1>b,
     NextIsAction, Zenon DEF Holds
<1>23. QED
  BY <1>22 DEF Holds

LEMMA TaskStaysHeard ==
    ASSUME TypesOK, TaskWasHeard, [BridgeNext]_bridgeVars
    PROVE  TaskWasHeard'
<1>1. CASE RunTask
  <2>1. task' = Head(queue) /\ Calls(Head(queue)) /\ queue # <<>> /\ queue \in Seq(Message)
    BY <1>1, Zenon DEF RunTask, TypesOK, MessagesOK
  <2>2. task' \in Message
    BY <2>1, ItemsOfTail
  <2>3. /\ heard[task'.of] \in Seq(Words) /\ task'.what \in Words
        /\ heard'[task'.of] = Append(heard[task'.of], task'.what)
    BY <2>1, <2>2 DEF Calls, TypesOK, MessagesOK, Message
  <2>4. ToSet(heard'[task'.of]) = ToSet(heard[task'.of]) \cup {task'.what}
    BY <2>3, ItemsOfAppend
  <2>5. QED
    BY <2>4 DEF TaskWasHeard
<1>2. CASE task' \in {task, NoMessage}
  <2>1. CASE task' = NoMessage
    BY <2>1 DEF TaskWasHeard, NoMessage
  <2>2. CASE task' = task /\ task.what = "died"
    <3>1. task.of \in Session
      BY <2>2 DEF TypesOK, MessagesOK, Message, NoMessage
    <3>2. QED
      BY <2>2, <3>1, HeardStays DEF TaskWasHeard
  <2>3. QED
    BY <1>2, <2>1, <2>2 DEF TaskWasHeard
<1>3. BridgeAction => RunTask \/ task' \in {task, NoMessage}
  <2>1. BridgeAction => RunTask \/ task' = NoMessage \/ task' = task
    BY Zenon DEF BridgeAction, ServiceSpeaks, ServiceAccepts, ServiceRefuses, ServiceInterrupts,
       ServiceFrame, BeginAssessment, EndAssessment, AskService, ServiceDies, ServiceStarts,
       PostTask, CallDirectly, DirectCallReturns, DirectCallReenters, TakeDiedCallback,
       NotifyServiceDied, BeginReturns, EndReturns, QueryReturns, RequestThrows, TaskReturns,
       HandOnLate, mainVars
  <2>2. QED
    BY <2>1
<1>4. UNCHANGED bridgeVars => task' \in {task, NoMessage}
  BY DEF bridgeVars, mainVars
<1>5. QED
  BY <1>1, <1>2, <1>3, <1>4, NextIsAction, Zenon

\* A step that leaves the record, the notices and a request under way as they are.
Bystands ==
    /\ UNCHANGED <<active, armed, due, reading, unwatched>>
    /\ call.at \in {"begin", "lost"} => call' = call

LEMMA BystandingSteps ==
    ASSUME TypesOK, [BridgeNext]_bridgeVars
    PROVE  \/ \E b \in Session : BeginAssessment(b)
           \/ ServiceDies \/ BeginReturns \/ EndReturns \/ TaskReturns \/ RequestThrows
           \/ TakeDiedCallback \/ NotifyServiceDied \/ Bystands
<1>1. CASE UNCHANGED <<active, armed, due, reading, unwatched, call>>
  BY <1>1, Zenon DEF Bystands
<1>2. CASE (\E s \in Session : EndAssessment(s)) \/ AskService \/ QueryReturns
  <2>1. UNCHANGED <<active, armed, due, reading, unwatched>> /\ (call = NoCall \/ call.at = "query")
    BY <1>2, Zenon DEF EndAssessment, AskService, QueryReturns, MainFrame, RecordFrame, recordVars,
       watchVars
  <2>2. QED
    BY <2>1 DEF Bystands, NoCall
<1>3. BridgeAction =>
         \/ \E b \in Session : BeginAssessment(b)
         \/ ServiceDies \/ BeginReturns \/ EndReturns \/ TaskReturns \/ RequestThrows
         \/ TakeDiedCallback \/ NotifyServiceDied
         \/ (\E s \in Session : EndAssessment(s)) \/ AskService \/ QueryReturns
         \/ UNCHANGED <<active, armed, due, reading, unwatched, call>>
  BY Zenon DEF BridgeAction, ServiceSpeaks, ServiceAccepts, ServiceRefuses, ServiceInterrupts,
     ServiceFrame, ServiceStarts, PostTask, CallDirectly, DirectCallReturns, DirectCallReenters,
     RunTask, HandOnLate, MainFrame, RecordFrame, mainVars, recordVars, deathVars, watchVars
<1>4. UNCHANGED bridgeVars => UNCHANGED <<active, armed, due, reading, unwatched, call>>
  BY Zenon DEF bridgeVars, mainVars, recordVars, deathVars, watchVars
<1>5. QED
  BY <1>1, <1>2, <1>3, <1>4, NextIsAction, Zenon

\* An application keeps to its bridge.
LEMMA BridgeStays == ASSUME [BridgeNext]_bridgeVars PROVE bridge' = bridge
<1>1. BridgeAction => bridge' = bridge
  BY Zenon DEF BridgeAction, ServiceSpeaks, ServiceAccepts, ServiceRefuses, ServiceInterrupts,
     ServiceFrame, BeginAssessment, EndAssessment, AskService, ServiceDies, ServiceStarts, PostTask,
     CallDirectly, DirectCallReturns, DirectCallReenters, TakeDiedCallback, NotifyServiceDied,
     BeginReturns, EndReturns, QueryReturns, RequestThrows, RunTask, TaskReturns, HandOnLate,
     MainFrame
<1>2. QED
  BY <1>1, NextIsAction, Zenon DEF bridgeVars

\* Nor does one take it off those whose service died without a recipient.
LEMMA UnwatchedStays == ASSUME [BridgeNext]_bridgeVars PROVE unwatched \subseteq unwatched'
<1>1. ServiceDies => unwatched \subseteq unwatched'
  BY DEF ServiceDies
<1>2. BridgeAction => ServiceDies \/ unwatched' = unwatched
  BY Zenon DEF BridgeAction, ServiceSpeaks, ServiceAccepts, ServiceRefuses, ServiceInterrupts,
     ServiceFrame, BeginAssessment, EndAssessment, AskService, ServiceStarts, PostTask,
     CallDirectly, DirectCallReturns, DirectCallReenters, TakeDiedCallback, NotifyServiceDied,
     BeginReturns, EndReturns, QueryReturns, RequestThrows, RunTask, TaskReturns, HandOnLate,
     deathVars, watchVars
<1>3. UNCHANGED bridgeVars => unwatched' = unwatched
  BY Zenon DEF bridgeVars, deathVars, watchVars
<1>4. QED
  BY <1>1, <1>2, <1>3, NextIsAction, Zenon

\* No step takes away what will tell an application of its service's death.
LEMMA GuardsKept ==
    ASSUME DeathInv, [BridgeNext]_bridgeVars, bridge = "napi", NEW s \in Session
    PROVE  RecordGuards(s)'
<1>0. TypesOK /\ RecordGuards(s)
  BY DEF DeathInv
<1>1. due \in Nat /\ reading \in Nat /\ watching \in Nat /\ s # NoSession /\ phase \in [Session -> Phases]
  BY <1>0 DEF TypesOK, RecordsOK, PhasesOK, Session, NoSession
<1> DEFINE Comes == (active = s /\ reading > 0) \/ (call.of = s /\ call.at \in {"begin", "lost"})
           Arms == active = s /\ armed /\ (phase[s] \in Waiting \/ due > 0 \/ s \in unwatched)
<1> SUFFICES ASSUME phase'[s] \in Waiting \cup {"dropped"}, ~ToldOfDeath(s)'
             PROVE  Comes' \/ Arms'
  BY DEF RecordGuards, ReportComes
<1>2. ~ToldOfDeath(s) /\ s \notin missed'
  BY <1>0, ToldStays DEF ToldOfDeath
<1>u. s \in unwatched => s \in unwatched'
  BY UnwatchedStays
<1>3. phase[s] \in Waiting \cup {"dropped"} \/ BeginAssessment(s)
  BY <1>0, PhaseMoves, DropsAndFinals DEF TypesOK, Forward, ServiceDies, Waiting
<1>4. BeginAssessment(s) \/ Comes \/ Arms
  BY <1>0, <1>2, <1>3 DEF RecordGuards, ReportComes
<1>5. ~ServiceDies => /\ phase[s] \in Waiting => phase'[s] \in Waiting
                      /\ phase[s] = "dropped" => phase'[s] = "dropped"
  BY <1>0, DropsAndFinals DEF Waiting
<1>6. CASE BeginAssessment(s)
  <2>1. call' = [at |-> "begin", of |-> s]
    BY <1>6, Zenon DEF BeginAssessment
  <2>2. QED
    BY <2>1
<1>7. ASSUME ~BeginAssessment(s), NEW b \in Session, BeginAssessment(b) PROVE Comes' \/ Arms'
  <2>1. call = NoCall /\ UNCHANGED <<active, armed, due, reading>> /\ serving
    BY <1>7, Zenon DEF BeginAssessment, MainFrame, RecordFrame, recordVars, LockIsFree
  <2>2. serving'
    BY <1>7, <2>1, Zenon DEF BeginAssessment
  <2>3. QED
    BY <1>4, <1>5, <1>7, <1>u, <2>1, <2>2 DEF NoCall, ServiceDies
<1>8. CASE ServiceDies
  <2>1. /\ UNCHANGED <<active, armed, reading>> /\ due' = due + watching
        /\ unwatched' = IF watching = 0 THEN unwatched \cup {o \in Session : phase[o] \in Waiting}
                                        ELSE unwatched
        /\ call' = call \/ call' = [call EXCEPT !.at = "lost"]
    BY <1>8, Zenon DEF ServiceDies, recordVars
  <2>2. [call EXCEPT !.at = "lost"].of = call.of /\ [call EXCEPT !.at = "lost"].at = "lost"
    BY <1>0 DEF TypesOK, RecordsOK, NoCall
  <2>3. Comes => Comes'
    BY <2>1, <2>2
  <2>4. phase[s] \in Waiting => due' > 0 \/ s \in unwatched'
    BY <1>1, <2>1
  <2>5. ~BeginAssessment(s)
    BY <1>8 DEF ServiceDies, BeginAssessment
  <2>6. QED
    BY <1>1, <1>4, <1>u, <2>1, <2>3, <2>4, <2>5
<1>9. CASE BeginReturns
  <2>1. /\ call.at = "begin" /\ UNCHANGED <<phase, reading, due>> /\ Register(call.of)
    BY <1>9, Zenon DEF BeginReturns, MainFrame
  <2>2. /\ active' = call.of /\ armed'
        /\ missed' = missed \cup ({active} \ {NoSession}) \cup
                       IF phase[call.of] = "dropped" THEN {call.of} ELSE {}
    BY <2>1, Zenon DEF Register
  <2>3. CASE call.of = s
    BY <1>2, <2>1, <2>2, <2>3
  <2>4. CASE call.of # s /\ active # s
    <3>1. BeginAssessment(s)
      BY <1>4, <2>4
    <3>2. QED
      BY <2>1, <3>1 DEF BeginAssessment, NoCall
  <2>5. CASE active = s
    BY <1>1, <1>2, <2>2, <2>5
  <2>6. QED
    BY <2>3, <2>4, <2>5
<1>10. ASSUME NEW o, Unregister(o), call.at \notin {"begin", "lost"}, ~BeginAssessment(s), o # s
       PROVE  FALSE
  <2>1. active = s
    BY <1>4, <1>10
  <2>2. s \in missed'
    BY <1>1, <1>10, <2>1 DEF Unregister
  <2>3. QED
    BY <1>2, <2>2
<1>11. CASE EndReturns
  <2>1. call.at = "end" /\ Unregister(call.of) /\ UNCHANGED phase
    BY <1>11, Zenon DEF EndReturns
  <2>2. phase[call.of] = "ended"
    BY <2>1 DEF DeathInv, EndIsMade
  <2>3. call.of # s
    BY <2>1, <2>2 DEF Waiting
  <2>4. ~BeginAssessment(s)
    BY <2>1 DEF BeginAssessment, NoCall
  <2>5. QED
    BY <1>10, <2>1, <2>3, <2>4
<1>12. CASE TaskReturns
  <2>1. /\ UNCHANGED <<phase, due, reading, call>> /\ call = NoCall
        /\ task # NoMessage /\ task' = NoMessage
    BY <1>12, Zenon DEF TaskReturns, MainFrame
  <2>2. ~BeginAssessment(s)
    <3>1. BeginAssessment(s) => UNCHANGED task
      BY Zenon DEF BeginAssessment
    <3>2. QED
      BY <2>1, <3>1
  <2>3. CASE task.what \in LastWords
    <3>1. Unregister(task.of)
      BY <1>12, <2>3, Zenon DEF TaskReturns
    <3>2. task.of # s
      <4>1. CASE task.what = "died"
        BY <1>2, <4>1 DEF DeathInv, TaskWasHeard, ToldOfDeath
      <4>2. CASE task.what \in Final
        <5>1. phase[task.of] = task.what
          BY <4>2 DEF DeathInv, FinalsAreTrue
        <5>2. QED
          BY <2>1, <4>2, <5>1 DEF Final, Waiting
      <4>3. QED
        BY <2>3, <4>1, <4>2 DEF LastWords, Final
    <3>3. call.at \notin {"begin", "lost"}
      BY <2>1 DEF NoCall
    <3>4. QED
      BY <1>10, <2>2, <3>1, <3>2, <3>3
  <2>4. CASE task.what \notin LastWords
    <3>1. UNCHANGED <<active, armed>>
      BY <1>12, <2>4, Zenon DEF TaskReturns, RecordFrame, recordVars
    <3>2. QED
      BY <1>4, <1>u, <2>1, <2>2, <3>1
  <2>5. QED
    BY <2>3, <2>4
<1>13. CASE RequestThrows
  <2>1. /\ call.at = "lost" /\ missed' = missed \cup ({call.of} \ {NoSession})
        /\ UNCHANGED <<phase, active, armed, due, reading>>
    BY <1>13, Zenon DEF RequestThrows, MainFrame, recordVars
  <2>2. call.of # s
    BY <1>1, <1>2, <2>1
  <2>3. ~BeginAssessment(s)
    BY <2>1 DEF BeginAssessment, NoCall
  <2>4. QED
    BY <1>4, <1>u, <2>1, <2>2, <2>3
<1>14. CASE TakeDiedCallback
  <2>1. /\ due > 0 /\ due' = due - 1 /\ reading' = IF armed THEN reading + 1 ELSE reading
        /\ UNCHANGED <<phase, call, active>>
    BY <1>14, Zenon DEF TakeDiedCallback, protocolVars, mainVars
  <2>2. ~BeginAssessment(s)
    <3>1. BeginAssessment(s) => UNCHANGED due
      BY Zenon DEF BeginAssessment, MainFrame
    <3>2. QED
      BY <1>1, <2>1, <3>1
  <2>3. QED
    BY <1>1, <1>4, <1>u, <2>1, <2>2
<1>15. CASE NotifyServiceDied
  <2>1. /\ reading > 0 /\ UNCHANGED <<phase, call, active, armed, due>>
        /\ queue' = queue \o DeathTask(active)
    BY <1>15, Zenon DEF NotifyServiceDied, Reported, protocolVars, recordVars
  <2>2. ~BeginAssessment(s)
    <3>1. BeginAssessment(s) => call' # call
      BY DEF BeginAssessment, NoCall
    <3>2. QED
      BY <2>1, <3>1
  <2>3. active # s
    <3>1. ASSUME active = s PROVE FALSE
      <4>1. Word("died", s) \in Message /\ queue \in Seq(Message)
        BY <1>0 DEF TypesOK, MessagesOK, Message, Word, Words
      <4>2. queue' = Append(queue, Word("died", s))
        BY <1>1, <2>1, <3>1, <4>1 DEF DeathTask
      <4>3. Word("died", s) \in ToSet(queue')
        BY <4>1, <4>2, ItemsOfAppend
      <4>4. QED
        BY <4>3, Zenon DEF ToldOfDeath, Word
    <3>2. QED
      BY <3>1
  <2>4. QED
    BY <1>4, <1>u, <2>1, <2>2, <2>3
<1>16. CASE Bystands /\ ~ServiceDies /\ ~BeginAssessment(s)
  BY <1>4, <1>5, <1>16, <1>u DEF Bystands
<1>17. QED
  BY <1>0, <1>6, <1>7, <1>8, <1>9, <1>11, <1>12, <1>13, <1>14, <1>15, <1>16, BystandingSteps

\* With NAPI nothing takes from an application that lost its session to the
\* service's death what tells it so: it was told, or the report, the exception
\* or the notice that meets an armed record is on its way, unless the library had
\* put no recipient on the proxy (GetAssessmentProxy,
\* RegisterActiveAssessmentCallback, UnregisterActiveAssessmentCallback,
\* OnRemoteDied and NotifyAssessmentServiceDied).
THEOREM DeathIsNeverForgotten == BridgeSpec => []DeathOnItsWay
<1>1. BridgeInit => DeathInv
  <2> SUFFICES ASSUME BridgeInit PROVE DeathInv
    OBVIOUS
  <2>1. phase = [s \in Session |-> "unused"] /\ message = NoMessage /\ task = NoMessage
        /\ queue = <<>> /\ call = NoCall /\ late = [s \in Session |-> "none"]
    BY Zenon DEF BridgeInit, ProtocolInit
  <2>2. ToSet(<<>>) = {}
    BY DEF ToSet
  <2>3. QED
    BY <2>1, <2>2, BridgeTypesInitially DEF DeathInv, EndIsMade, FinalsAreTrue, TaskWasHeard,
       RecordGuards, NoMessage, NoCall, Final, Waiting
<1>2. DeathInv /\ [BridgeNext]_bridgeVars => DeathInv'
  <2> SUFFICES ASSUME DeathInv, [BridgeNext]_bridgeVars PROVE DeathInv'
    OBVIOUS
  <2>1. TypesOK'
    BY PhaseMoves, MessagesKept, RecordsKept DEF DeathInv, TypesOK
  <2>2. EndIsMade' /\ FinalsAreTrue' /\ TaskWasHeard'
    BY FinalsStayTrue, TaskStaysHeard DEF DeathInv
  <2>3. bridge' = bridge
    BY BridgeStays
  <2>4. bridge = "napi" => \A s \in Session : RecordGuards(s)'
    BY GuardsKept
  <2>5. QED
    BY <2>1, <2>2, <2>3, <2>4 DEF DeathInv
<1>3. DeathInv => DeathOnItsWay
  BY DEF DeathInv, DeathOnItsWay, RecordGuards, Waiting
<1>4. QED
  BY <1>1, <1>2, <1>3, PTL DEF BridgeSpec

-----------------------------------------------------------------------------

\* Whatever an application passes, the request a session is made of names the
\* application last and leaves out no string of the list, its duration is in
\* range, and NAPI hands over no name twice (ParseParameters of the two bridges,
\* CheckBeginPreconditions and ConfigCurrentSession).
THEOREM ParametersAreSound == BridgeSpec => []RequestsAreSound
<1>1. BridgeTypeOK => RequestsAreSound
  <2> SUFFICES ASSUME bridge \in Bridges, NEW request \in SessionRequests(bridge)
               PROVE  LET handed == Handed(bridge, request)
                      IN  /\ SessionBundle(handed) = Own
                          /\ ToSet(handed.apps) = Strings(request.apps) \cup {Own}
                          /\ SessionDuration(handed) \in 1..MaxDuration
                          /\ bridge = "napi" => IsInjective(handed.apps)
    BY Zenon DEF BridgeTypeOK, RequestsAreSound
  <2>1. request \in Requests
    BY DEF SessionRequests, NapiRequests, AniRequests, SessionsOf
  <2>2. /\ request.apps = NotAList \/ request.apps \in Seq(ToSet(request.apps))
        /\ request.duration = NotANumber \/ request.duration \in Int
    BY <2>1, ParametersAssumption, Zenon
  <2> DEFINE handed == Handed(bridge, request)
  <2>3. handed.apps = IF bridge = "napi" THEN NapiApps(request.apps) ELSE AniApps(request.apps)
    BY DEF Handed
  <2>4. handed.duration = GetUint32FromJs(request.duration)
    BY DEF Handed
  <2> HIDE DEF handed
  <2>5. /\ Last(handed.apps) = Own /\ ToSet(handed.apps) = Strings(request.apps) \cup {Own}
        /\ bridge = "napi" => IsInjective(handed.apps)
    BY <2>2, <2>3, NapiAppsAreSound, AniAppsAreSound
  <2>6. SessionDuration(handed) \in 1..MaxDuration
    BY <2>2, <2>4, DurationIsSound, Zenon DEF SessionDuration
  <2>7. QED
    BY <2>5, <2>6, Zenon DEF SessionBundle, handed
<1>2. QED
  BY BridgeTypeCorrect, <1>1, PTL
-----------------------------------------------------------------------------

\* The service dies under at most one session that waits or runs, which is then
\* dropped: its death is a step of the protocol.
LEMMA DyingDrops ==
    ASSUME PhasesOK, PhasesInTurn, ServiceDies
    PROVE  ProtocolNext
<1>1. /\ phase \in [Session -> Phases] /\ serving' = FALSE
      /\ phase' = [s \in Session |-> IF phase[s] \in Waiting THEN "dropped" ELSE phase[s]]
  BY DEF PhasesOK, ServiceDies
<1>2. CASE \A s \in Session : phase[s] \notin Waiting
  <2>1. phase' = phase
    BY <1>1, <1>2
  <2>2. QED
    BY <2>1 DEF ProtocolNext
<1>3. ASSUME NEW s \in Session, phase[s] \in Waiting PROVE ProtocolNext
  <2>1. \A o \in Session : o # s => phase[o] \notin Waiting
    BY <1>3 DEF PhasesInTurn, Waiting, Session
  <2>2. phase' = [phase EXCEPT ![s] = "dropped"]
    BY <1>1, <1>3, <2>1
  <2>3. Drop(s)
    BY <1>1, <1>3, <2>2 DEF Drop, MayDrop, Becomes
  <2>4. QED
    BY <2>3 DEF ProtocolNext
<1>4. QED
  BY <1>2, <1>3

\* The bridges leave the service its protocol: with the requests of the
\* application, the messages that wait for its threads, and a death that takes
\* every session of the moment, the service of this model still does only what
\* CallerProtocol allows, which is what the real service is shown to implement.
THEOREM BridgeKeepsProtocol == BridgeSpec => ProtocolSpec
<1>1. BridgeInit => ProtocolInit
  BY DEF BridgeInit
<1>2. ASSUME HearingInv, [BridgeNext]_bridgeVars PROVE [ProtocolNext]_protocolVars
  <2>0. PhasesOK /\ PhasesInTurn
    BY <1>2 DEF HearingInv, TurnInv, TypesOK
  <2>1. ASSUME NEW s \in Session, ServiceSpeaks(s) PROVE ProtocolNext
    BY <2>1 DEF ServiceSpeaks, ServiceAccepts, ServiceRefuses, ServiceInterrupts, Finish,
       ProtocolNext
  <2>2. ASSUME NEW s \in Session, BeginAssessment(s) PROVE ProtocolNext
    BY <2>2 DEF BeginAssessment, ProtocolNext
  <2>3. ASSUME NEW s \in Session, EndAssessment(s) PROVE ProtocolNext
    BY <2>3 DEF EndAssessment, Finish, ProtocolNext
  <2>4. CASE ServiceDies
    BY <2>0, <2>4, DyingDrops
  <2>5. CASE UNCHANGED phase
    BY <2>5 DEF ProtocolNext
  <2>6. BridgeAction =>
          \/ \E s \in Session : ServiceSpeaks(s) \/ BeginAssessment(s) \/ EndAssessment(s)
          \/ ServiceDies \/ UNCHANGED phase
    BY Zenon DEF BridgeAction, AskService, ServiceStarts, PostTask, CallDirectly,
       DirectCallReturns, DirectCallReenters, TakeDiedCallback, NotifyServiceDied,
       BeginReturns, EndReturns, QueryReturns, RequestThrows, TaskReturns, RunTask, HandOnLate,
       MainFrame, protocolVars
  <2>7. UNCHANGED bridgeVars => UNCHANGED phase
    BY Zenon DEF bridgeVars, protocolVars
  <2>8. QED
    BY <1>2, <2>1, <2>2, <2>3, <2>4, <2>5, <2>6, <2>7, NextIsAction, Zenon
<1>3. QED
  BY HearingInitially, HearingKept, <1>1, <1>2, PTL DEF BridgeSpec, ProtocolSpec
=============================================================================
