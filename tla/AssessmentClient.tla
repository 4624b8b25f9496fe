--------------------------- MODULE AssessmentClient ---------------------------
(***************************************************************************)
(* The client library inside one application process: the proxy of the     *)
(* service is loaded on demand, cached for all threads, and dropped when a *)
(* death recipient reports that the service's process is gone.             *)
(*                                                                         *)
(* Threads request, load callbacks and death notices run side by side; the *)
(* two mutexes are held for one assignment each, so every access to a      *)
(* member is an action of its own.  A load is named by the number of its   *)
(* LoadSystemAbility call, and so are its callback and its recipient.      *)
(***************************************************************************)
EXTENDS Naturals

CONSTANTS
    Threads,        \* the threads that use the client
    MaxLoads,       \* bound: LoadSystemAbility calls accepted
    MaxBegins,      \* bound: registrations, after which no begin is accepted
    MaxServices     \* bound: starts of the service process

ASSUME ClientAssumption == {MaxLoads, MaxBegins, MaxServices} \subseteq Nat

Loads == 1..MaxLoads
NoService == 0

VARIABLES
    \* members of AssessmentServiceClient
    proxy,          \* assessmentService_: the service process it leads to
    loadFinished,   \* loadSaFinished_
    diedCallback,   \* SaDiedCallback_ is set
    \* the threads
    pc,             \* where a thread is in its request
    held,           \* the proxy it works with
    mine,           \* the load it asked for
    \* the loads
    loads,          \* how many were asked for
    answer,         \* how far the callback of a load has got
    loaded,         \* the service a load's callback brings, if any
    watch,          \* the service a load's death recipient was added to
    notice,         \* how far that recipient's notice has got
    \* the service process
    service,        \* the one that runs
    starts,         \* how many there were
    \* what happened
    registered,     \* calls of SetSaDiedCallback with a callback
    told,           \* calls of that callback
    strayed         \* a proxy may be cached that nobody watches

memberVars == <<proxy, loadFinished, diedCallback>>
threadVars == <<pc, held, mine>>
loadVars == <<loads, answer, loaded, watch, notice>>
serviceVars == <<service, starts>>
historyVars == <<registered, told, strayed>>
clientVars == <<memberVars, threadVars, loadVars, serviceVars, historyVars>>

Services == 0..MaxServices

ClientTypeOK ==
    /\ proxy \in Services /\ loadFinished \in BOOLEAN /\ diedCallback \in BOOLEAN
    /\ pc \in [Threads -> {"idle", "reset", "ask", "wait", "fetch", "watch", "call", "register"}]
    /\ held \in [Threads -> Services] /\ mine \in [Threads -> 0..MaxLoads]
    /\ loads \in 0..MaxLoads
    /\ answer \in [Loads -> {"none", "due", "set", "finish", "done"}]
    /\ notice \in [Loads -> {"none", "due", "again", "reset", "take", "done"}]
    /\ loaded \in [Loads -> Services] /\ watch \in [Loads -> Services]
    /\ service \in Services /\ starts \in Services
    /\ registered \in Nat /\ told \in Nat /\ strayed \in BOOLEAN

ClientInit ==
    /\ proxy = NoService /\ loadFinished = FALSE /\ diedCallback = FALSE
    /\ pc = [t \in Threads |-> "idle"]
    /\ held = [t \in Threads |-> NoService] /\ mine = [t \in Threads |-> 0]
    /\ loads = 0
    /\ answer = [i \in Loads |-> "none"] /\ notice = [i \in Loads |-> "none"]
    /\ loaded = [i \in Loads |-> NoService] /\ watch = [i \in Loads |-> NoService]
    /\ service = NoService /\ starts = 0
    /\ registered = 0 /\ told = 0 /\ strayed = FALSE

Goes(t, place) == pc' = [pc EXCEPT ![t] = place]

\* The request is over, and its locals go with it.
Returns(t) ==
    /\ Goes(t, "idle")
    /\ held' = [held EXCEPT ![t] = NoService] /\ mine' = [mine EXCEPT ![t] = 0]

-----------------------------------------------------------------------------
(* A thread's request *)

\* GetAssessmentProxy: the cached proxy is taken as it is, dead or not.
GetProxy(t) ==
    /\ pc[t] = "idle"
    /\ held' = [held EXCEPT ![t] = proxy]
    /\ Goes(t, IF proxy = NoService THEN "reset" ELSE "call")
    /\ UNCHANGED <<memberVars, mine, loadVars, serviceVars, historyVars>>

\* LoadAssessmentService clears the flag all threads wait for.
ResetFlag(t) ==
    /\ pc[t] = "reset" /\ Goes(t, "ask")
    /\ loadFinished' = FALSE
    /\ UNCHANGED <<proxy, diedCallback, held, mine, loadVars, serviceVars, historyVars>>

AskForLoad(t) ==
    /\ pc[t] = "ask"
    /\ \/ /\ loads < MaxLoads
          /\ loads' = loads + 1 /\ mine' = [mine EXCEPT ![t] = loads']
          /\ answer' = [answer EXCEPT ![loads'] = "due"]
          /\ Goes(t, "wait") /\ UNCHANGED held
       \/ Returns(t) /\ UNCHANGED <<loads, answer>>
    /\ UNCHANGED <<memberVars, loaded, watch, notice, serviceVars, historyVars>>

\* The predicate is judged when the thread is notified and, once more, when the
\* time is over; any load that finished will do.
WaitSucceeds(t) ==
    /\ pc[t] = "wait" /\ loadFinished
    /\ Goes(t, "fetch")
    /\ UNCHANGED <<memberVars, held, mine, loadVars, serviceVars, historyVars>>

\* The load goes on without the thread, or its callback was here and another
\* thread has cleared the flag since.
WaitTimesOut(t) ==
    /\ pc[t] = "wait" /\ ~loadFinished
    /\ Returns(t)
    /\ strayed' = (strayed \/ proxy # NoService)
    /\ UNCHANGED <<memberVars, loadVars, serviceVars, registered, told>>

FetchProxy(t) ==
    /\ pc[t] = "fetch"
    /\ \/ proxy = NoService /\ Returns(t)
       \/ /\ proxy # NoService /\ Goes(t, "watch")
          /\ held' = [held EXCEPT ![t] = proxy] /\ UNCHANGED mine
    /\ UNCHANGED <<memberVars, loadVars, serviceVars, historyVars>>

\* Mutant: the recipient is created and not added.
RecipientsMutant(t) == watch

\* The recipients once the thread has added its own.
Recipients(t) == [watch EXCEPT ![mine[t]] = held[t]]

\* AddDeathRecipient fails for a process that is gone; nobody looks at that.
WatchService(t) ==
    /\ pc[t] = "watch" /\ Goes(t, "call")
    /\ IF held[t] = service
         THEN watch' = Recipients(t) /\ UNCHANGED strayed
         ELSE strayed' = TRUE /\ UNCHANGED watch
    /\ UNCHANGED <<memberVars, held, mine, loads, answer, loaded, notice, serviceVars,
                   registered, told>>

\* The request itself.  A begin that was accepted goes on to set the callback.
CallService(t) ==
    /\ pc[t] = "call"
    /\ \/ Returns(t)
       \/ /\ held[t] = service /\ registered < MaxBegins
          /\ Goes(t, "register") /\ UNCHANGED <<held, mine>>
    /\ UNCHANGED <<memberVars, loadVars, serviceVars, historyVars>>

RegisterActiveCallback(t) ==
    /\ pc[t] = "register" /\ Returns(t)
    /\ diedCallback' = TRUE /\ registered' = registered + 1
    /\ UNCHANGED <<proxy, loadFinished, loadVars, serviceVars, told, strayed>>

\* The session ended: its callback is taken back.
UnregisterActiveCallback ==
    /\ diedCallback /\ diedCallback' = FALSE
    /\ UNCHANGED <<proxy, loadFinished, threadVars, loadVars, serviceVars, historyVars>>

-----------------------------------------------------------------------------
(* The callback of a load *)

\* The system ability manager starts the service if it does not run, and
\* reports it, or reports that it could not be loaded.
LoadIsAnswered(i) ==
    /\ answer[i] = "due"
    /\ answer' = [answer EXCEPT ![i] = "set"]
    /\ \/ UNCHANGED <<service, starts, loaded>>
       \/ /\ service # NoService
          /\ loaded' = [loaded EXCEPT ![i] = service]
          /\ UNCHANGED serviceVars
       \/ /\ service = NoService /\ starts < MaxServices
          /\ starts' = starts + 1 /\ service' = starts'
          /\ loaded' = [loaded EXCEPT ![i] = starts']
    /\ UNCHANGED <<memberVars, threadVars, loads, watch, notice, historyVars>>

\* SetAssessmentService, of OnLoadSystemAbilitySuccess and ...Fail.  Whoever
\* asked for the load may not wait for it any more.
SetProxy(i) ==
    /\ answer[i] = "set"
    /\ answer' = [answer EXCEPT ![i] = "finish"]
    /\ proxy' = loaded[i]
    /\ strayed' = (strayed \/ \A t \in Threads : ~(mine[t] = i /\ pc[t] = "wait"))
    /\ UNCHANGED <<loadFinished, diedCallback, threadVars, loads, loaded, watch, notice,
                   serviceVars, registered, told>>

SetFinished(i) ==
    /\ answer[i] = "finish"
    /\ answer' = [answer EXCEPT ![i] = "done"]
    /\ loadFinished' = TRUE
    /\ UNCHANGED <<proxy, diedCallback, threadVars, loads, loaded, watch, notice, serviceVars,
                   historyVars>>

-----------------------------------------------------------------------------
(* The death of the service *)

ServiceDies ==
    /\ service # NoService /\ service' = NoService
    /\ notice' = [i \in Loads |-> IF watch[i] = service THEN "due" ELSE notice[i]]
    /\ UNCHANGED <<memberVars, threadVars, loads, answer, loaded, watch, starts, historyVars>>

\* Mutant: the proxy is kept.
ClearedMutant == proxy

\* ClearProxy compares nothing: the proxy of a later service goes as well.
Cleared == NoService

\* OnRemoteDied clears the proxy twice, through proxy_ and by itself.
ClearProxy(i) ==
    /\ \/ notice[i] = "due" /\ notice' = [notice EXCEPT ![i] = "again"]
       \/ notice[i] = "again" /\ notice' = [notice EXCEPT ![i] = "reset"]
    /\ proxy' = Cleared
    /\ UNCHANGED <<loadFinished, diedCallback, threadVars, loads, answer, loaded, watch,
                   serviceVars, historyVars>>

NoticeResetsFlag(i) ==
    /\ notice[i] = "reset"
    /\ notice' = [notice EXCEPT ![i] = "take"]
    /\ loadFinished' = FALSE
    /\ UNCHANGED <<proxy, diedCallback, threadVars, loads, answer, loaded, watch, serviceVars,
                   historyVars>>

\* Mutant: the callback is copied, not moved.
TakenMutant == diedCallback

\* SaDiedCallback_ once its callback was moved out of it.
Taken == FALSE

TakeDiedCallback(i) ==
    /\ notice[i] = "take"
    /\ notice' = [notice EXCEPT ![i] = "done"]
    /\ diedCallback' = Taken
    /\ told' = IF diedCallback THEN told + 1 ELSE told
    /\ UNCHANGED <<proxy, loadFinished, threadVars, loads, answer, loaded, watch, serviceVars,
                   registered, strayed>>

-----------------------------------------------------------------------------

ThreadStep(t) ==
    \/ GetProxy(t) \/ ResetFlag(t) \/ AskForLoad(t) \/ WaitSucceeds(t) \/ WaitTimesOut(t)
    \/ FetchProxy(t) \/ WatchService(t) \/ CallService(t) \/ RegisterActiveCallback(t)

NoticeStep(i) == ClearProxy(i) \/ NoticeResetsFlag(i) \/ TakeDiedCallback(i)

LoadStep(i) == LoadIsAnswered(i) \/ SetProxy(i) \/ SetFinished(i)

ClientNext ==
    \/ \E t \in Threads : ThreadStep(t)
    \/ \E i \in Loads : LoadStep(i) \/ NoticeStep(i)
    \/ UnregisterActiveCallback
    \/ ServiceDies

\* A callback that has begun and a notice run to their end; so does a request,
\* of which the wait has a time limit.  A load need not be answered.
ClientFairness ==
    /\ \A t \in Threads : WF_clientVars(pc[t] # "idle" /\ ThreadStep(t))
    /\ \A i \in Loads :
        WF_clientVars(SetProxy(i) \/ SetFinished(i)) /\ WF_clientVars(NoticeStep(i))

ClientSpec == ClientInit /\ [][ClientNext]_clientVars /\ ClientFairness

-----------------------------------------------------------------------------

\* One registered callback is called once, although several recipients may
\* watch the same service and notices of several services may be under way.
DeathToldOnce == told <= registered

\* A cached proxy has a recipient whose notice has not cleared the cache yet, or
\* a thread on its way to add one, unless an answer came after its wait was
\* over, another thread's flag was missed, or the service died before the
\* recipient was added (strayed): then the proxy may stay for good.
ProxyIsWatched ==
    proxy # NoService /\ ~strayed =>
        \/ \E i \in Loads : watch[i] = proxy /\ notice[i] \in {"none", "due", "again"}
        \/ \E t \in Threads : pc[t] \in {"wait", "fetch", "watch"}

\* Unless that happened, the proxy of a dead service does not stay, and a later
\* begin loads the service again (README_en.md:148: "the caller must call begin
\* again").
DeadProxyDropped ==
    \A k \in 1..MaxServices : (proxy = k /\ service # k) ~> (proxy # k \/ strayed)
=============================================================================
