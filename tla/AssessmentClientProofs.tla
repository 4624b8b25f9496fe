------------------------ MODULE AssessmentClientProofs ------------------------
(***************************************************************************)
(* Proofs about the client library: for any number of threads, loads and   *)
(* starts of the service.                                                  *)
(*                                                                         *)
(* DeathToldOnce counts: the callback that is set is one registration not  *)
(* told yet.  ProxyIsWatched follows a proxy from the load that brought it *)
(* to the recipient: the thread that waits for the load fetches the proxy  *)
(* of that moment and adds a recipient to it, under a number no other      *)
(* thread uses.                                                            *)
(***************************************************************************)
EXTENDS AssessmentClient, TLAPS

\* A callback that is set was registered and not called yet.
ToldOnceInv ==
    /\ registered \in Nat /\ told \in Nat
    /\ DeathToldOnce
    /\ diedCallback => told < registered

\* The death of the service is told to a registered callback once at most,
\* however many recipients and notices there are (SaDiedCallback_ is moved out
\* under loadSaMutex_, assessment_service_client.cpp).
THEOREM DeathIsToldOnce == ClientSpec => []DeathToldOnce
<1>1. ClientInit => ToldOnceInv
  <2> SUFFICES ASSUME ClientInit PROVE ToldOnceInv
    OBVIOUS
  <2>1. registered = 0 /\ told = 0 /\ ~diedCallback
    BY Zenon DEF ClientInit
  <2>2. QED
    BY <2>1 DEF ToldOnceInv, DeathToldOnce
<1>2. ToldOnceInv /\ [ClientNext]_clientVars => ToldOnceInv'
  <2> SUFFICES ASSUME ToldOnceInv, [ClientNext]_clientVars PROVE ToldOnceInv'
    OBVIOUS
  <2> USE DEF ToldOnceInv, DeathToldOnce
  <2>1. ASSUME NEW t \in Threads, RegisterActiveCallback(t) PROVE ToldOnceInv'
    BY <2>1 DEF RegisterActiveCallback
  <2>2. ASSUME NEW t \in Threads, ThreadStep(t), ~RegisterActiveCallback(t)
        PROVE  UNCHANGED <<diedCallback, registered, told>>
    BY <2>2 DEF ThreadStep, GetProxy, ResetFlag, AskForLoad, WaitSucceeds, WaitTimesOut,
       FetchProxy, WatchService, CallService, memberVars, historyVars
  <2>3. ASSUME NEW i \in Loads, TakeDiedCallback(i) PROVE ToldOnceInv'
    BY <2>3 DEF TakeDiedCallback, Taken
  <2>4. ASSUME NEW i \in Loads, LoadStep(i) \/ ClearProxy(i) \/ NoticeResetsFlag(i)
        PROVE  UNCHANGED <<diedCallback, registered, told>>
    BY <2>4 DEF LoadStep, LoadIsAnswered, SetProxy, SetFinished, ClearProxy, NoticeResetsFlag,
       memberVars, historyVars
  <2>5. CASE UnregisterActiveCallback
    BY <2>5 DEF UnregisterActiveCallback, historyVars
  <2>6. CASE ServiceDies \/ UNCHANGED clientVars
    BY <2>6 DEF ServiceDies, clientVars, memberVars, historyVars
  <2>7. QED
    BY <2>1, <2>2, <2>3, <2>4, <2>5, <2>6 DEF ClientNext, NoticeStep
<1>3. QED
  BY <1>1, <1>2, PTL DEF ClientSpec, ToldOnceInv

-----------------------------------------------------------------------------

Places == {"idle", "reset", "ask", "wait", "fetch", "watch", "call", "register"}
Notices == {"none", "due", "again", "reset", "take", "done"}

\* The parts of the type invariant: the flags, the threads, the loads, the rest.
FlagsOK == loadFinished \in BOOLEAN /\ diedCallback \in BOOLEAN /\ strayed \in BOOLEAN
ThreadsOK ==
    /\ pc \in [Threads -> Places]
    /\ held \in [Threads -> Services] /\ mine \in [Threads -> 0..MaxLoads]
LoadsOK ==
    /\ loads \in 0..MaxLoads
    /\ answer \in [Loads -> {"none", "due", "set", "finish", "done"}]
    /\ notice \in [Loads -> Notices]
    /\ loaded \in [Loads -> Services] /\ watch \in [Loads -> Services]
ServiceOK == proxy \in Services /\ service \in Services /\ starts \in Services
CountsOK == registered \in Nat /\ told \in Nat

LEMMA FlagsKept ==
    ASSUME FlagsOK, [ClientNext]_clientVars PROVE FlagsOK'
<1> USE DEF FlagsOK
<1>1. ASSUME NEW t \in Threads, ThreadStep(t) PROVE FlagsOK'
  BY <1>1, Zenon DEF ThreadStep, GetProxy, ResetFlag, AskForLoad, WaitSucceeds, WaitTimesOut,
     FetchProxy, WatchService, CallService, RegisterActiveCallback, memberVars, historyVars
<1>2. ASSUME NEW i \in Loads, LoadStep(i) \/ NoticeStep(i) PROVE FlagsOK'
  BY <1>2, Zenon DEF LoadStep, LoadIsAnswered, SetProxy, SetFinished, NoticeStep, ClearProxy,
     NoticeResetsFlag, TakeDiedCallback, Taken, memberVars, historyVars
<1>3. CASE UnregisterActiveCallback \/ ServiceDies \/ UNCHANGED clientVars
  BY <1>3, Zenon DEF UnregisterActiveCallback, ServiceDies, clientVars, memberVars, historyVars
<1>4. QED
  BY <1>1, <1>2, <1>3 DEF ClientNext

LEMMA CountsKept ==
    ASSUME CountsOK, [ClientNext]_clientVars PROVE CountsOK'
<1> USE DEF CountsOK
<1>1. ASSUME NEW t \in Threads, ThreadStep(t)
      PROVE  told' = told /\ (registered' = registered \/ registered' = registered + 1)
  BY <1>1, Zenon DEF ThreadStep, GetProxy, ResetFlag, AskForLoad, WaitSucceeds, WaitTimesOut,
     FetchProxy, WatchService, CallService, RegisterActiveCallback, historyVars
<1>2. ASSUME NEW i \in Loads, LoadStep(i) \/ NoticeStep(i)
      PROVE  registered' = registered /\ (told' = told \/ told' = told + 1)
  BY <1>2, Zenon DEF LoadStep, LoadIsAnswered, SetProxy, SetFinished, NoticeStep, ClearProxy,
     NoticeResetsFlag, TakeDiedCallback, historyVars
<1>3. CASE UnregisterActiveCallback \/ ServiceDies \/ UNCHANGED clientVars
  BY <1>3, Zenon DEF UnregisterActiveCallback, ServiceDies, clientVars, historyVars
<1>4. QED
  BY <1>1, <1>2, <1>3 DEF ClientNext

LEMMA ThreadsKept ==
    ASSUME ThreadsOK, LoadsOK, ServiceOK, [ClientNext]_clientVars PROVE ThreadsOK'
<1> USE ClientAssumption DEF ThreadsOK, Places, Services, Loads, NoService, Goes, Returns
<1>1. ASSUME NEW t \in Threads, ThreadStep(t) PROVE ThreadsOK'
  <2>1. CASE GetProxy(t) \/ ResetFlag(t) \/ WaitSucceeds(t)
    BY <2>1 DEF GetProxy, ResetFlag, WaitSucceeds, ServiceOK
  <2>2. CASE AskForLoad(t)
    <3>1. CASE Returns(t)
      BY <3>1
    <3>2. CASE /\ loads < MaxLoads /\ loads' = loads + 1
               /\ mine' = [mine EXCEPT ![t] = loads'] /\ Goes(t, "wait") /\ UNCHANGED held
      BY <3>2 DEF LoadsOK
    <3>3. QED
      BY <2>2, <3>1, <3>2, Zenon DEF AskForLoad
  <2>3. CASE WaitTimesOut(t) \/ RegisterActiveCallback(t)
    <3>1. Returns(t)
      BY <2>3, Zenon DEF WaitTimesOut, RegisterActiveCallback
    <3>2. QED
      BY <3>1
  <2>4. CASE FetchProxy(t) \/ CallService(t)
    BY <2>4 DEF FetchProxy, CallService, ServiceOK
  <2>5. CASE WatchService(t)
    BY <2>5 DEF WatchService
  <2>6. QED
    BY <1>1, <2>1, <2>2, <2>3, <2>4, <2>5 DEF ThreadStep
<1>2. CASE UNCHANGED threadVars
  BY <1>2 DEF threadVars
<1>3. ASSUME NEW i \in Loads, LoadStep(i) \/ NoticeStep(i) PROVE UNCHANGED threadVars
  BY <1>3, Zenon DEF LoadStep, LoadIsAnswered, SetProxy, SetFinished, NoticeStep, ClearProxy,
     NoticeResetsFlag, TakeDiedCallback
<1>4. UnregisterActiveCallback \/ ServiceDies \/ UNCHANGED clientVars => UNCHANGED threadVars
  BY Zenon DEF UnregisterActiveCallback, ServiceDies, clientVars
<1>5. QED
  BY <1>1, <1>2, <1>3, <1>4, Zenon DEF ClientNext

LEMMA LoadsKept ==
    ASSUME ThreadsOK, LoadsOK, ServiceOK, [ClientNext]_clientVars PROVE LoadsOK' /\ ServiceOK'
<1> USE ClientAssumption DEF LoadsOK, ServiceOK, Notices, Services, Loads, NoService,
      memberVars, loadVars, serviceVars
<1>1. ASSUME NEW t \in Threads, ThreadStep(t) PROVE LoadsOK' /\ ServiceOK'
  <2>1. CASE AskForLoad(t)
    <3>1. UNCHANGED <<proxy, service, starts, notice, loaded, watch>>
      BY <2>1 DEF AskForLoad
    <3>2. CASE UNCHANGED <<loads, answer>>
      BY <3>1, <3>2
    <3>3. CASE loads < MaxLoads /\ loads' = loads + 1 /\ answer' = [answer EXCEPT ![loads'] = "due"]
      BY <3>1, <3>3
    <3>4. QED
      BY <2>1, <3>2, <3>3, Zenon DEF AskForLoad
  <2>2. CASE WatchService(t)
    <3>1. UNCHANGED <<proxy, service, starts, loads, answer, notice, loaded>>
          /\ (watch' = Recipients(t) \/ watch' = watch)
      BY <2>2, Zenon DEF WatchService
    <3>2. QED
      BY <3>1 DEF Recipients, ThreadsOK
  <2>3. CASE ~AskForLoad(t) /\ ~WatchService(t)
    <3>1. UNCHANGED <<proxy, loadVars, serviceVars>>
      BY <1>1, <2>3, Zenon DEF ThreadStep, GetProxy, ResetFlag, WaitSucceeds, WaitTimesOut,
         FetchProxy, CallService, RegisterActiveCallback
    <3>2. QED
      BY <3>1
  <2>4. QED
    BY <2>1, <2>2, <2>3
<1>2. ASSUME NEW i \in Loads, LoadStep(i) \/ NoticeStep(i) PROVE LoadsOK' /\ ServiceOK'
  <2>1. CASE LoadIsAnswered(i)
    BY <2>1 DEF LoadIsAnswered
  <2>2. CASE SetProxy(i)
    <3>1. proxy' = loaded[i] /\ answer' = [answer EXCEPT ![i] = "finish"]
          /\ UNCHANGED <<loads, loaded, watch, notice, serviceVars>>
      BY <2>2, Zenon DEF SetProxy
    <3>2. QED
      BY <3>1
  <2>3. CASE SetFinished(i)
    BY <2>3 DEF SetFinished
  <2>4. CASE ClearProxy(i)
    BY <2>4 DEF ClearProxy, Cleared
  <2>5. CASE NoticeResetsFlag(i)
    BY <2>5 DEF NoticeResetsFlag
  <2>6. CASE TakeDiedCallback(i)
    <3>1. notice' = [notice EXCEPT ![i] = "done"]
          /\ UNCHANGED <<proxy, loads, answer, loaded, watch, serviceVars>>
      BY <2>6, Zenon DEF TakeDiedCallback
    <3>2. QED
      BY <3>1
  <2>7. QED
    BY <1>2, <2>1, <2>2, <2>3, <2>4, <2>5, <2>6 DEF LoadStep, NoticeStep
<1>3. CASE ServiceDies
  BY <1>3 DEF ServiceDies
<1>4. CASE UnregisterActiveCallback \/ UNCHANGED clientVars
  <2>1. UNCHANGED <<proxy, loadVars, serviceVars>>
    BY <1>4, Zenon DEF UnregisterActiveCallback, clientVars
  <2>2. QED
    BY <2>1
<1>5. QED
  BY <1>1, <1>2, <1>3, <1>4 DEF ClientNext

ClientValuesOK == ThreadsOK /\ LoadsOK /\ ServiceOK

LEMMA ValuesInitially == ClientInit => ClientValuesOK
<1> SUFFICES ASSUME ClientInit PROVE ClientValuesOK
  OBVIOUS
<1>1. ThreadsOK
  BY ClientAssumption DEF ClientInit, ThreadsOK, Places, Services, NoService
<1>2. LoadsOK /\ ServiceOK
  BY ClientAssumption DEF ClientInit, LoadsOK, ServiceOK, Notices, Services, Loads, NoService
<1>3. QED
  BY <1>1, <1>2 DEF ClientValuesOK

\* The bounds and the states of threads, load callbacks and notices.
THEOREM ClientTypeCorrect == ClientSpec => []ClientTypeOK
<1> DEFINE Inv == ClientValuesOK /\ FlagsOK /\ CountsOK
<1>1. ClientInit => Inv
  <2> SUFFICES ASSUME ClientInit PROVE Inv
    OBVIOUS
  <2>1. FlagsOK /\ registered = 0 /\ told = 0
    BY Zenon DEF ClientInit, FlagsOK
  <2>2. CountsOK
    BY <2>1 DEF CountsOK
  <2>3. QED
    BY <2>1, <2>2, ValuesInitially
<1>2. Inv /\ [ClientNext]_clientVars => Inv'
  BY FlagsKept, CountsKept, ThreadsKept, LoadsKept DEF ClientValuesOK
<1>3. Inv => ClientTypeOK
  BY Zenon DEF ClientValuesOK, ThreadsOK, LoadsOK, ServiceOK, CountsOK, FlagsOK, ClientTypeOK,
     Places, Notices
<1>4. QED
  BY <1>1, <1>2, <1>3, PTL DEF ClientSpec
-----------------------------------------------------------------------------

\* A load has one thread at most, which asked for it.
LoadsAreOwned ==
    /\ \A t \in Threads :
        /\ pc[t] \in {"idle", "reset", "ask"} => mine[t] = 0
        /\ pc[t] \in {"wait", "fetch", "watch"} => mine[t] # 0
        /\ mine[t] <= loads
        /\ pc[t] = "watch" => held[t] # NoService
    /\ \A t, u \in Threads : mine[t] = mine[u] => t = u \/ mine[t] = 0

\* A recipient is created by the thread of its load; until then nobody is told.
NotWatching(i) == watch[i] = NoService /\ notice[i] = "none"
RecipientsAreOwned ==
    /\ \A i \in Loads : i > loads => NotWatching(i)
    /\ \A t \in Threads : pc[t] \in {"wait", "fetch", "watch"} => NotWatching(mine[t])

\* A recipient watches the proxy, and its notice has not cleared the cache.
WatchedBy(i) == watch[i] = proxy /\ notice[i] \in {"none", "due", "again"}

\* A thread is going to add a recipient for the proxy.
AboutToWatch(t) == pc[t] \in {"wait", "fetch"} \/ (pc[t] = "watch" /\ held[t] = proxy)

ProxyFollowed ==
    proxy # NoService /\ ~strayed =>
        (\E i \in Loads : WatchedBy(i)) \/ (\E t \in Threads : AboutToWatch(t))

WatchInv == ClientValuesOK /\ LoadsAreOwned /\ RecipientsAreOwned /\ ProxyFollowed

\* What a step of a thread is, to its load and the recipients: the load is
\* asked for, the request is over, it goes on, or the recipient is added.
AsksForLoad(t) ==
    /\ pc[t] = "ask" /\ loads < MaxLoads /\ loads' = loads + 1
    /\ pc' = [pc EXCEPT ![t] = "wait"] /\ mine' = [mine EXCEPT ![t] = loads + 1]
    /\ UNCHANGED <<held, watch, notice>>
IsOver(t) ==
    /\ pc' = [pc EXCEPT ![t] = "idle"]
    /\ mine' = [mine EXCEPT ![t] = 0] /\ held' = [held EXCEPT ![t] = 0]
    /\ UNCHANGED <<loads, watch, notice>>
Ways == {<<"idle", "reset">>, <<"idle", "call">>, <<"reset", "ask">>, <<"wait", "fetch">>,
         <<"fetch", "watch">>, <<"call", "register">>}
GoesOn(t) ==
    /\ \E p \in Places : <<pc[t], p>> \in Ways /\ pc' = [pc EXCEPT ![t] = p]
    /\ \E h \in Services :
        /\ held' = [held EXCEPT ![t] = h]
        /\ pc[t] = "fetch" => h = proxy /\ h # NoService
    /\ UNCHANGED <<mine, loads, watch, notice>>
AddsRecipient(t) ==
    /\ pc[t] = "watch" /\ pc' = [pc EXCEPT ![t] = "call"]
    /\ watch' = [watch EXCEPT ![mine[t]] = held[t]] \/ (watch' = watch /\ strayed')
    /\ UNCHANGED <<held, mine, loads, notice>>

LEMMA ThreadMoves ==
    ASSUME ClientValuesOK, NEW t \in Threads, ThreadStep(t)
    PROVE  AsksForLoad(t) \/ IsOver(t) \/ GoesOn(t) \/ AddsRecipient(t)
<1>1. CASE GetProxy(t) \/ ResetFlag(t) \/ WaitSucceeds(t)
  <2>1. GoesOn(t)
    BY <1>1 DEF GetProxy, ResetFlag, WaitSucceeds, Goes, loadVars, GoesOn, Ways, Places,
       ClientValuesOK, ThreadsOK, ServiceOK
  <2>2. QED
    BY <2>1
<1>2. CASE AskForLoad(t)
  <2>1. CASE Returns(t) /\ UNCHANGED <<loads, watch, notice>>
    BY <2>1, Zenon DEF Returns, Goes, IsOver, NoService
  <2>2. CASE ~(Returns(t) /\ UNCHANGED <<loads, watch, notice>>)
    BY <1>2, <2>2 DEF AskForLoad, Goes, AsksForLoad
  <2>3. QED
    BY <2>1, <2>2
<1>3. CASE WaitTimesOut(t) \/ RegisterActiveCallback(t)
  BY <1>3, Zenon DEF WaitTimesOut, RegisterActiveCallback, Returns, Goes, IsOver, loadVars, NoService
<1>4. CASE FetchProxy(t)
  <2>1. CASE Returns(t)
    BY <1>4, <2>1 DEF FetchProxy, loadVars, Returns, Goes, IsOver, NoService
  <2>2. CASE ~Returns(t)
    BY <1>4, <2>2 DEF FetchProxy, loadVars, Goes, GoesOn, Ways, Places, ClientValuesOK, ServiceOK
  <2>3. QED
    BY <2>1, <2>2
<1>5. CASE WatchService(t)
  BY <1>5, Zenon DEF WatchService, Recipients, Goes, AddsRecipient
<1>6. CASE CallService(t)
  <2>1. CASE Returns(t)
    BY <1>6, <2>1 DEF CallService, loadVars, Returns, Goes, IsOver, NoService
  <2>2. CASE ~Returns(t)
    BY <1>6, <2>2 DEF CallService, loadVars, Goes, GoesOn, Ways, Places, ClientValuesOK, ThreadsOK
  <2>3. QED
    BY <2>1, <2>2
<1>7. QED
  BY <1>1, <1>2, <1>3, <1>4, <1>5, <1>6 DEF ThreadStep

\* A thread that moves on within its request keeps its load.
LEMMA OwnershipKept ==
    ASSUME WatchInv, ClientValuesOK', [ClientNext]_clientVars PROVE LoadsAreOwned'
<1> USE DEF WatchInv, ClientValuesOK, ThreadsOK, LoadsOK, ServiceOK, LoadsAreOwned, Services,
      Loads, NoService, Places
<1> USE ClientAssumption
<1>1. ASSUME NEW t \in Threads, ThreadStep(t) PROVE LoadsAreOwned'
  <2>1. CASE AsksForLoad(t)
    <3>1. \A u \in Threads : mine'[u] = IF u = t THEN loads + 1 ELSE mine[u]
      BY <2>1 DEF AsksForLoad
    <3>2. \A u \in Threads : pc'[u] = IF u = t THEN "wait" ELSE pc[u]
      BY <2>1 DEF AsksForLoad
    <3>3. loads' = loads + 1 /\ held' = held
      BY <2>1 DEF AsksForLoad
    <3>4. \A u \in Threads : mine[u] \in Nat /\ mine[u] <= loads
      OBVIOUS
    <3>5. ASSUME NEW u \in Threads, NEW w \in Threads, mine'[u] = mine'[w], u # w
          PROVE  mine'[u] = 0
      <4>1. mine[u] \in Nat /\ mine[u] <= loads /\ mine[w] \in Nat /\ mine[w] <= loads
            /\ loads \in Nat
        BY <3>4
      <4>2. u # t /\ w # t
        <5>1. CASE u = t
          <6>1. mine'[u] = loads + 1 /\ mine'[w] = mine[w]
            BY <3>1, <3>5, <5>1, Zenon
          <6>2. mine[w] = loads + 1
            BY <3>5, <6>1, Zenon
          <6>3. QED
            BY <4>1, <6>2
        <5>2. CASE w = t
          <6>1. mine'[w] = loads + 1 /\ mine'[u] = mine[u]
            BY <3>1, <3>5, <5>2, Zenon
          <6>2. mine[u] = loads + 1
            BY <3>5, <6>1, Zenon
          <6>3. QED
            BY <4>1, <6>2
        <5>3. QED
          BY <5>1, <5>2
      <4>3. mine[u] = mine[w]
        BY <3>1, <3>5, <4>2
      <4>4. QED
        BY <3>1, <3>5, <4>2, <4>3
    <3>6. ASSUME NEW u \in Threads
          PROVE  /\ pc'[u] \in {"idle", "reset", "ask"} => mine'[u] = 0
                 /\ pc'[u] \in {"wait", "fetch", "watch"} => mine'[u] # 0
                 /\ mine'[u] <= loads'
                 /\ pc'[u] = "watch" => held'[u] # NoService
      BY <3>1, <3>2, <3>3, <3>4
    <3>7. QED
      BY <3>5, <3>6
  <2>2. CASE IsOver(t)
    BY <2>2 DEF IsOver
  <2>3. CASE GoesOn(t)
    BY <2>3 DEF GoesOn, Ways
  <2>4. CASE AddsRecipient(t)
    BY <2>4 DEF AddsRecipient
  <2>5. QED
    BY <1>1, <2>1, <2>2, <2>3, <2>4, ThreadMoves
<1>2. CASE UNCHANGED <<threadVars, loads>>
  BY <1>2 DEF threadVars
<1>3. ASSUME NEW i \in Loads, LoadStep(i) \/ NoticeStep(i) PROVE UNCHANGED <<threadVars, loads>>
  BY <1>3, Zenon DEF LoadStep, LoadIsAnswered, SetProxy, SetFinished, NoticeStep, ClearProxy,
     NoticeResetsFlag, TakeDiedCallback
<1>4. UnregisterActiveCallback \/ ServiceDies \/ UNCHANGED clientVars
        => UNCHANGED <<threadVars, loads>>
  BY Zenon DEF UnregisterActiveCallback, ServiceDies, clientVars, loadVars
<1>5. QED
  BY <1>1, <1>2, <1>3, <1>4, Zenon DEF ClientNext

\* Only a thread at its own load begins to watch, only a recipient is told.
LEMMA RecipientsKept ==
    ASSUME WatchInv, ClientValuesOK', LoadsAreOwned', [ClientNext]_clientVars
    PROVE  RecipientsAreOwned'
<1> USE DEF WatchInv, ClientValuesOK, ThreadsOK, LoadsOK, ServiceOK, LoadsAreOwned, Services,
      Loads, NoService, Places, RecipientsAreOwned, NotWatching
<1> USE ClientAssumption
<1>1. ASSUME NEW t \in Threads, ThreadStep(t) PROVE RecipientsAreOwned'
  <2>1. CASE AsksForLoad(t)
    BY <2>1 DEF AsksForLoad
  <2>2. CASE IsOver(t)
    BY <2>2 DEF IsOver
  <2>3. CASE GoesOn(t)
    BY <2>3 DEF GoesOn, Ways
  <2>4. CASE AddsRecipient(t)
    <3>1. \A i \in Loads \ {mine[t]} : watch'[i] = watch[i]
      BY <2>4 DEF AddsRecipient
    <3>2. \A u \in Threads : pc'[u] \in {"wait", "fetch", "watch"} =>
            u # t /\ pc[u] = pc'[u] /\ mine[u] # mine[t] /\ mine[u] \in Loads
      <4>1. \A u \in Threads \ {t} : pc'[u] = pc[u]
        BY <2>4 DEF AddsRecipient
      <4>2. pc'[t] = "call"
        BY <2>4 DEF AddsRecipient
      <4>3. \A u \in Threads : pc[u] \in {"wait", "fetch", "watch"} => mine[u] # 0
        OBVIOUS
      <4>4. \A u \in Threads : mine[u] = mine[t] => u = t \/ mine[u] = 0
        OBVIOUS
      <4>5. \A u \in Threads : mine[u] # 0 => mine[u] \in Loads
        OBVIOUS
      <4>6. QED
        BY <4>1, <4>2, <4>3, <4>4, <4>5
    <3>3. UNCHANGED <<notice, mine, loads>> /\ mine[t] <= loads
      BY <2>4 DEF AddsRecipient
    <3>4. \A i \in Loads : i > loads' => NotWatching(i)'
      <4>1. \A i \in Loads : i > loads => i # mine[t]
        BY <3>3
      <4>2. QED
        BY <3>1, <3>3, <4>1
    <3>5. \A u \in Threads : pc'[u] \in {"wait", "fetch", "watch"} => NotWatching(mine[u])'
      BY <3>1, <3>2, <3>3
    <3>6. QED
      BY <3>3, <3>4, <3>5
  <2>5. QED
    BY <1>1, <2>1, <2>2, <2>3, <2>4, ThreadMoves
<1>2. ASSUME NEW i \in Loads, NoticeStep(i) PROVE RecipientsAreOwned'
  <2>1. notice[i] # "none" /\ \E n \in Notices : notice' = [notice EXCEPT ![i] = n]
    BY <1>2 DEF NoticeStep, ClearProxy, NoticeResetsFlag, TakeDiedCallback, Notices
  <2>2. UNCHANGED <<threadVars, loads, watch>>
    BY <1>2, Zenon DEF NoticeStep, ClearProxy, NoticeResetsFlag, TakeDiedCallback
  <2>3. QED
    BY <2>1, <2>2 DEF threadVars
<1>3. CASE ServiceDies
  BY <1>3 DEF ServiceDies, threadVars
<1>4. CASE UNCHANGED <<threadVars, loads, watch, notice>>
  BY <1>4 DEF threadVars
<1>5. ASSUME NEW i \in Loads, LoadStep(i) PROVE UNCHANGED <<threadVars, loads, watch, notice>>
  BY <1>5, Zenon DEF LoadStep, LoadIsAnswered, SetProxy, SetFinished
<1>6. UnregisterActiveCallback \/ UNCHANGED clientVars
        => UNCHANGED <<threadVars, loads, watch, notice>>
  BY Zenon DEF UnregisterActiveCallback, clientVars, loadVars
<1>7. QED
  BY <1>1, <1>2, <1>3, <1>4, <1>5, <1>6, Zenon DEF ClientNext

\* A proxy that is cached came with a load whose thread follows it.
LEMMA ProxyStaysFollowed ==
    ASSUME WatchInv, ClientValuesOK', [ClientNext]_clientVars PROVE ProxyFollowed'
<1> USE DEF WatchInv, ClientValuesOK, ThreadsOK, LoadsOK, ServiceOK, Services, Loads, NoService,
      Places, ProxyFollowed, WatchedBy, AboutToWatch
<1> USE ClientAssumption
<1> SUFFICES ASSUME proxy' # NoService, ~strayed'
             PROVE  (\E i \in Loads : WatchedBy(i)') \/ (\E t \in Threads : AboutToWatch(t)')
  OBVIOUS
<1>1. ASSUME NEW t \in Threads, ThreadStep(t)
      PROVE  (\E i \in Loads : WatchedBy(i)') \/ (\E u \in Threads : AboutToWatch(u)')
  <2>1. proxy' = proxy /\ ~strayed /\ ~WaitTimesOut(t)
    <3>1. proxy' = proxy
      BY <1>1, Zenon DEF ThreadStep, GetProxy, ResetFlag, AskForLoad, WaitSucceeds, WaitTimesOut,
         FetchProxy, WatchService, CallService, RegisterActiveCallback, memberVars
    <3>2. ~WaitTimesOut(t)
      BY <3>1, Zenon DEF WaitTimesOut
    <3>3. CASE WatchService(t)
      <4>1. (strayed' = strayed) \/ (strayed' = TRUE)
        BY <3>3, Zenon DEF WatchService
      <4>2. strayed' = TRUE => FALSE
        BY Zenon
      <4>3. strayed' = strayed
        BY <4>1, <4>2, Zenon
      <4>4. QED
        BY <3>1, <3>2, <4>3, Zenon
    <3>4. CASE ~WatchService(t)
      <4>1. strayed' = strayed
        BY <1>1, <3>2, <3>4, Zenon DEF ThreadStep, GetProxy, ResetFlag, AskForLoad, WaitSucceeds,
           FetchProxy, CallService, RegisterActiveCallback, historyVars
      <4>2. QED
        BY <3>1, <3>2, <4>1, Zenon
    <3>5. QED
      BY <3>3, <3>4, Zenon
  <2>2. CASE AsksForLoad(t)
    BY <2>1, <2>2 DEF AsksForLoad
  <2>3. CASE IsOver(t)
    <3>1. ~AboutToWatch(t)
      <4>1. pc'[t] = "idle"
        BY <2>3 DEF IsOver
      <4>2. ~WaitSucceeds(t) /\ ~WatchService(t)
        BY <4>1 DEF WaitSucceeds, WatchService, Goes
      <4>3. ~FetchProxy(t)
        BY <2>1, <4>1 DEF FetchProxy, Goes
      <4>4. GetProxy(t) \/ ResetFlag(t) \/ AskForLoad(t) \/ CallService(t)
            \/ RegisterActiveCallback(t)
        BY <1>1, <2>1, <4>2, <4>3, Zenon DEF ThreadStep
      <4>5. pc[t] \in {"idle", "reset", "ask", "call", "register"}
        BY <4>4 DEF GetProxy, ResetFlag, AskForLoad, CallService, RegisterActiveCallback
      <4>6. QED
        BY <4>5
    <3>2. QED
      BY <2>1, <2>3, <3>1 DEF IsOver
  <2>4. CASE GoesOn(t)
    BY <2>1, <2>4 DEF GoesOn, Ways
  <2>5. CASE AddsRecipient(t)
    <3>1. watch' = [watch EXCEPT ![mine[t]] = held[t]]
      BY <2>5 DEF AddsRecipient
    <3>2. NotWatching(mine[t]) /\ mine[t] \in Loads
      BY <2>5 DEF AddsRecipient, RecipientsAreOwned, LoadsAreOwned
    <3>3. QED
      BY <2>1, <2>5, <3>1, <3>2 DEF AddsRecipient, NotWatching
  <2>6. QED
    BY <1>1, <2>2, <2>3, <2>4, <2>5, ThreadMoves
<1>2. ASSUME NEW i \in Loads, SetProxy(i) PROVE \E t \in Threads : AboutToWatch(t)'
  <2>1. UNCHANGED threadVars /\ \E t \in Threads : mine[t] = i /\ pc[t] = "wait"
    BY <1>2, Zenon DEF SetProxy
  <2>2. QED
    BY <2>1 DEF threadVars
<1>3. ASSUME NEW i \in Loads, LoadIsAnswered(i) \/ SetFinished(i)
      PROVE  UNCHANGED <<proxy, strayed, threadVars, watch, notice>>
  BY <1>3, Zenon DEF LoadIsAnswered, SetFinished, memberVars, historyVars
<1>4. ASSUME NEW i \in Loads, ClearProxy(i) PROVE FALSE
  BY <1>4 DEF ClearProxy, Cleared
<1>5. ASSUME NEW i \in Loads, NoticeResetsFlag(i) \/ TakeDiedCallback(i)
      PROVE  (\E j \in Loads : WatchedBy(j)') \/ (\E u \in Threads : AboutToWatch(u)')
  <2>1. UNCHANGED <<proxy, strayed, threadVars, watch>> /\ notice[i] \in {"reset", "take"}
        /\ \E n \in Notices : notice' = [notice EXCEPT ![i] = n]
    BY <1>5 DEF NoticeResetsFlag, TakeDiedCallback, Notices, historyVars
  <2>2. QED
    BY <2>1 DEF threadVars
<1>6. CASE ServiceDies
  BY <1>6 DEF ServiceDies, threadVars, memberVars, historyVars
<1>7. CASE UNCHANGED <<proxy, strayed, threadVars, watch, notice>>
  BY <1>7 DEF threadVars
<1>8. UnregisterActiveCallback \/ UNCHANGED clientVars
        => UNCHANGED <<proxy, strayed, threadVars, watch, notice>>
  BY Zenon DEF UnregisterActiveCallback, clientVars, memberVars, loadVars, historyVars
<1>9. QED
  BY <1>1, <1>2, <1>3, <1>4, <1>5, <1>6, <1>7, <1>8, Zenon DEF ClientNext, LoadStep, NoticeStep

\* As long as no answer, flag or recipient went astray, a cached proxy is
\* watched, or about to be (GetAssessmentProxy and its death recipient,
\* assessment_service_client.cpp).
THEOREM ProxyHasRecipient == ClientSpec => []ProxyIsWatched
<1>1. ClientInit => WatchInv
  <2> SUFFICES ASSUME ClientInit PROVE WatchInv
    OBVIOUS
  <2>1. LoadsAreOwned /\ RecipientsAreOwned /\ ProxyFollowed
    BY ClientAssumption DEF ClientInit, LoadsAreOwned, RecipientsAreOwned, ProxyFollowed,
       NotWatching, Loads, NoService
  <2>2. QED
    BY <2>1, ValuesInitially DEF WatchInv
<1>2. WatchInv /\ [ClientNext]_clientVars => WatchInv'
  <2> SUFFICES ASSUME WatchInv, [ClientNext]_clientVars PROVE WatchInv'
    OBVIOUS
  <2>1. ClientValuesOK'
    BY ThreadsKept, LoadsKept DEF WatchInv, ClientValuesOK
  <2>2. QED
    BY <2>1, OwnershipKept, RecipientsKept, ProxyStaysFollowed DEF WatchInv
<1>3. WatchInv => ProxyIsWatched
  BY DEF WatchInv, ProxyFollowed, ProxyIsWatched, WatchedBy, AboutToWatch
<1>4. QED
  BY <1>1, <1>2, <1>3, PTL DEF ClientSpec
=============================================================================
