--------------------------- MODULE ServiceProofs ---------------------------
(***************************************************************************)
(* The program implements Service: a step of main, of a handler or of the  *)
(* clock is a step of Service or none, for every list of devices and       *)
(* whatever signals come.                                                  *)
(***************************************************************************)
EXTENDS ProxyMainProofs

\* Where the bridge runs, and where main has devices to serve.
RunLabel == LoopLabel \cup {"log_ready", "log_stop", "stop"}
WithDevices ==
  {"log_device", "create", "log_init", "init", "log_ready"} \cup Adding \cup LoopLabel

\* The bridge runs from start to stop, with a device, and polls in sync_state only.
ServeInv ==
  /\ running_ => pc \in RunLabel
  /\ pc \in RunLabel => running_
  /\ pc \in WithDevices => devices # <<>>
  /\ inSync => pc \in SyncLabel

\* Main's steps leave these of the bridge alone, unless they call it.
LEMMA BridgeAlone ==
  ASSUME UNCHANGED bridgeVars
  PROVE  UNCHANGED <<running_, inSync, pending, devices_, initialized>>
  BY DEF bridgeVars, lifecycleVars, endpointVars, syncVars

\* ServeInv across main's steps on its own variables,
LEMMA ControlServes ==
  ASSUME ServeInv, Control
  PROVE  ServeInv'
<1>1. UNCHANGED <<running_, inSync>>
  BY BridgeAlone DEF Control
<1> USE DEF ServeInv, RunLabel, WithDevices, Adding, LoopLabel, SyncLabel, WaitLabel
<1>2. CASE \/ LoadConfig \/ CheckConfig \/ CreateClient \/ Discover \/ CycleReply
           \/ LoopTest \/ WaitPredicate \/ WaitNotified \/ WaitTimeout
  BY <1>1, <1>2
  DEF LoadConfig, CheckConfig, CreateClient, Discover, CycleReply, LoopTest, WaitPredicate,
      WaitNotified, WaitTimeout, Goto, Fail
<1>3. CASE ReadList
  BY <1>1, <1>3 DEF ReadList, Fail
<1>4. CASE CreateDevice
  BY <1>1, <1>4 DEF CreateDevice, NextTurn
<1>5. CASE AddDone
  BY <1>1, <1>5 DEF AddDone, Goto
<1> QED
  BY <1>2, <1>3, <1>4, <1>5 DEF Control

\* and across main's calls of the bridge.
LEMMA CallServes ==
  ASSUME ListInv, BridgedInv, ServeInv, BridgeCall
  PROVE  ServeInv'
<1> USE DEF ServeInv, RunLabel, WithDevices, Adding, LoopLabel, SyncLabel, WaitLabel
<1>1. CASE AddNext
  <2>1. pc = "add" /\ initialized /\ devices[index] \in Device
    BY <1>1 DEF AddNext, BridgedInv, ListInv
  <2>2. UNCHANGED running_
    BY <1>1, <2>1, AddAddsId DEF AddNext, lifecycleVars
  <2>3. UNCHANGED inSync
    BY <1>1 DEF AddNext, add_device, Refuse, Register, syncVars
  <2> QED
    BY <1>1, <2>2, <2>3 DEF AddNext, NextTurn
<1>2. CASE InitBridge
  <2>1. UNCHANGED <<running_, inSync>>
    BY <1>2 DEF InitBridge, initialize, Refuse, lifecycleVars, syncVars
  <2> QED
    BY <1>2, <2>1 DEF InitBridge, Goto, Fail
<1>3. CASE StartBridge
  <2>1. UNCHANGED inSync /\ pc = "start" /\ ~running_
    BY <1>3 DEF StartBridge, start, Refuse, syncVars
  <2>2. initialized
    BY <2>1 DEF BridgedInv
  <2>3. running_' = TRUE /\ Return("start", "Success")
    BY <1>3, <2>1, <2>2 DEF StartBridge, start
  <2> QED
    BY <1>3, <2>1, <2>3 DEF StartBridge, Return, Goto
<1>4. CASE CycleBegin
  <2>1. pc = "sync" /\ running_
    BY <1>4 DEF CycleBegin
  <2>2. inSync' = TRUE /\ running_' = running_
    BY <1>4, <2>1 DEF CycleBegin, SyncBegin, lifecycleVars
  <2> QED
    BY <1>4, <2>1, <2>2 DEF CycleBegin
<1>5. CASE CyclePoll \/ CycleStore
  BY <1>5 DEF CyclePoll, CycleStore, SyncPoll, lifecycleVars, mainVars, Goto
<1>6. CASE CycleEnd
  BY <1>6 DEF CycleEnd, SyncReturn, lifecycleVars
<1>7. CASE StopBridge
  BY <1>7 DEF StopBridge, stop, Callable, syncVars, Goto
<1>8. CASE ReturnFromMain
  <2>1. pc = "return" /\ pc' = "exited" /\ ~running_ /\ ~inSync
    BY <1>8 DEF ReturnFromMain, Goto
  <2>2. ~running_' /\ ~inSync'
    BY <1>8, <2>1 DEF ReturnFromMain, Destroy, bridgeVars, lifecycleVars, syncVars
  <2> QED
    BY <2>1, <2>2
<1> QED
  BY <1>1, <1>2, <1>3, <1>4, <1>5, <1>6, <1>7, <1>8 DEF BridgeCall

\* ServeInv is inductive.
LEMMA NextServes ==
  ASSUME ListInv, BridgedInv, ServeInv, [MainNext]_vars
  PROVE  ServeInv'
<1>1. CASE (LogEnter \/ LogLeave \/ WaitEnter \/ WaitBlock \/ WaitSpurious) /\ UNCHANGED bridgeVars
  <2> USE DEF ServeInv, RunLabel, WithDevices, Adding, LoopLabel, SyncLabel, WaitLabel
  <2>1. UNCHANGED <<running_, inSync, devices>>
    BY <1>1, BridgeAlone
    DEF LogEnter, LogLeave, WaitEnter, WaitBlock, WaitSpurious, Goto, mainVars
  <2>2. CASE LogLeave
    BY <2>1, <2>2 DEF LogLeave, AfterLog, Goto
  <2>3. CASE LogEnter \/ WaitEnter \/ WaitBlock \/ WaitSpurious
    BY <2>1, <2>3 DEF LogEnter, WaitEnter, WaitBlock, WaitSpurious, Goto, mainVars
  <2> QED
    BY <1>1, <2>2, <2>3
<1>2. CASE ~MainStep /\ ~Spurious
  <2>1. UNCHANGED <<pc, devices, running_, inSync>>
    BY <1>2, StepsOfOthers, BridgeAlone
  <2> QED
    BY <2>1 DEF ServeInv
<1> QED
  BY <1>1, <1>2, ControlServes, CallServes DEF MainStep, Spurious

\* ServeInv holds initially.
LEMMA InitServes == MainInit => ServeInv
  BY DEF MainInit, BridgeInit, ServeInv, RunLabel, WithDevices, Adding, LoopLabel, SyncLabel,
         WaitLabel
-----------------------------------------------------------------------------
(***************************************************************************)
(* Every step in the terms of Service.                                     *)
(***************************************************************************)
\* What the promise does not see.
Unseen ==
  UNCHANGED <<Phase, Served, Remaining>> /\ UNCHANGED <<running, lateCycles>>

LEMMA UnseenStutters == Unseen => UNCHANGED Promise!serviceVars
  BY DEF Unseen, Promise!serviceVars

\* A step of main that leaves the bridge and the request alone is unseen, unless the
\* program gives up.
LEMMA GiveUpOrUnseen ==
  ASSUME UNCHANGED <<running_, Served, Remaining, running, lateCycles>>,
         running_ \/ pc' \in Leaving \/ (pc \notin Leaving /\ pc' \notin Leaving)
  PROVE  Promise!GiveUp \/ Unseen
  BY DEF Unseen, Phase, Promise!GiveUp

\* Main's steps on its own variables.
LEMMA ControlKeepsPromise ==
  ASSUME ServeInv, Control, UNCHANGED running
  PROVE  Promise!GiveUp \/ Unseen
<1>1. UNCHANGED <<running_, inSync, pending, devices_>>
  BY BridgeAlone DEF Control
<1>2. UNCHANGED <<Served, Remaining>>
  BY <1>1 DEF Served, Remaining
<1>3. UNCHANGED lateCycles
  BY DEF Control, LoadConfig, CheckConfig, CreateClient, Discover, ReadList, CreateDevice,
         AddDone, CycleReply, LoopTest, WaitPredicate, WaitNotified, WaitTimeout, Goto, Fail, NextTurn
<1>4. pc' \in Leaving \/ (pc \notin Leaving /\ pc' \notin Leaving)
  BY DEF Control, LoadConfig, CheckConfig, CreateClient, Discover, ReadList, CreateDevice,
         AddDone, CycleReply, LoopTest, WaitPredicate, WaitNotified, WaitTimeout, Goto, Fail, NextTurn,
         Leaving, EndLabel
<1> QED
  BY <1>1, <1>2, <1>3, <1>4, GiveUpOrUnseen

\* Main's calls of the bridge.
LEMMA CallKeepsPromise ==
  ASSUME ListInv, BridgeTypeOK, LifecycleOrder, BridgedInv, LateInv, EndInv, ServeInv,
         BridgeCall, UNCHANGED running
  PROVE  Unseen \/ Promise!Next
<1> USE DEF RunLabel, WithDevices, Adding, LoopLabel, SyncLabel, WaitLabel, EndLabel, Leaving
<1>1. CASE InitBridge
  <2>1. UNCHANGED <<running_, inSync, pending, devices_, lateCycles>> /\ pc = "init"
    BY <1>1 DEF InitBridge, initialize, Refuse, endpointVars, syncVars, lifecycleVars, Goto, Fail
  <2>2. pc' \in {"log_adding", "log_fail"}
    BY <1>1 DEF InitBridge, Goto, Fail
  <2> QED
    BY <2>1, <2>2, GiveUpOrUnseen DEF Served, Remaining, Promise!Next
<1>2. CASE AddNext
  <2>1. pc = "add" /\ pc' = "log_added" /\ initialized /\ devices[index] \in Device
        /\ UNCHANGED lateCycles
    BY <1>2 DEF AddNext, NextTurn, BridgedInv, ListInv
  <2>2. UNCHANGED running_ /\ ~running_
    BY <1>2, <2>1, AddAddsId DEF AddNext, lifecycleVars, ServeInv
  <2>3. UNCHANGED <<inSync, pending>>
    BY <1>2 DEF AddNext, add_device, Refuse, Register, syncVars
  <2> QED
    BY <2>1, <2>2, <2>3 DEF Phase, Served, Remaining, Unseen
<1>3. CASE StartBridge
  <2>1. pc = "start" /\ ~running_ /\ initialized
    BY <1>3 DEF StartBridge, BridgedInv, ServeInv
  <2>2. running_' = TRUE /\ UNCHANGED <<devices_, inSync, pending>>
    BY <1>3, <2>1 DEF StartBridge, start, Refuse, endpointVars, syncVars
  <2>3. UNCHANGED lateCycles
    BY <1>3 DEF StartBridge, Goto, Fail
  <2>4. DOMAIN devices_ \in SUBSET DeviceId /\ DOMAIN devices_ # {}
    <3>1. DOMAIN devices_ = IdsOfFirst(Len(devices)) /\ devices # <<>>
      BY <2>1 DEF BridgedInv, ServeInv, ListInv
    <3>2. IdOf[devices[1]] \in IdsOfFirst(Len(devices))
      BY <3>1 DEF IdsOfFirst, ListInv
    <3> QED
      BY <3>1, <3>2 DEF BridgeTypeOK, IsMap
  <2>5. Promise!Serve(DOMAIN devices_)
    BY <2>1, <2>2, <2>3, <2>4 DEF Promise!Serve, Phase, Served, Remaining
  <2> QED
    BY <2>4, <2>5 DEF Promise!Next
<1>4. CASE CycleBegin
  <2>1. pc = "sync" /\ running_ /\ ~inSync
    BY <1>4 DEF CycleBegin, SyncBegin, Callable, ServeInv
  <2>2. inSync' = TRUE /\ pending' = DOMAIN devices_ /\ UNCHANGED <<running_, devices_>>
    BY <1>4, <2>1 DEF CycleBegin, SyncBegin, lifecycleVars, endpointVars
  <2>3. lateCycles = 0
    BY <2>1 DEF LateInv
  <2>4. lateCycles' = IF running THEN 0 ELSE 1
    BY <1>4, <2>2, <2>3 DEF CycleBegin
  <2>5. Promise!BeginCycle
    BY <2>1, <2>2, <2>3, <2>4 DEF Promise!BeginCycle, Phase, Served, Remaining
  <2> QED
    BY <2>5 DEF Promise!Next
<1>5. CASE CyclePoll \/ CycleStore
  <2>1. PICK id \in pending : SyncPoll(id)
    BY <1>5 DEF CyclePoll, CycleStore
  <2>2. inSync /\ inSync' = inSync /\ pending' = pending \ {id}
        /\ UNCHANGED <<running_, devices_>>
    BY <2>1 DEF SyncPoll, lifecycleVars, endpointVars
  <2>3. UNCHANGED lateCycles /\ pc \in SyncLabel /\ pc' \in SyncLabel
    BY <1>5 DEF CyclePoll, CycleStore, Goto, mainVars
  <2>4. id \in DeviceId
    BY <2>1 DEF BridgeTypeOK
  <2>5. Promise!Poll(id)
    BY <2>1, <2>2, <2>3 DEF Promise!Poll, Phase, Served, Remaining
  <2> QED
    BY <2>4, <2>5 DEF Promise!Next
<1>6. CASE CycleEnd
  <2>1. pc = "sync" /\ pending = {} /\ ~inSync' /\ UNCHANGED <<running_, devices_, lateCycles>>
    BY <1>6 DEF CycleEnd, SyncReturn, lifecycleVars, endpointVars
  <2>2. running_
    BY <2>1 DEF ServeInv
  <2> QED
    BY <2>1, <2>2 DEF Unseen, Phase, Served, Remaining
<1>7. CASE StopBridge
  <2>1. pc = "stop" /\ pc' = "log_done" /\ UNCHANGED lateCycles /\ ~running /\ running_
    BY <1>7 DEF StopBridge, Goto, EndInv, ServeInv
  <2>2. ~inSync /\ ~inSync' /\ ~running_'
    BY <1>7 DEF StopBridge, stop, Callable, syncVars
  <2>3. Promise!End
    BY <2>1, <2>2 DEF Promise!End, Phase, Served, Remaining
  <2> QED
    BY <2>3 DEF Promise!Next
<1>8. CASE ReturnFromMain
  <2>1. pc = "return" /\ pc' = "exited" /\ UNCHANGED lateCycles /\ ~running_ /\ ~inSync
    BY <1>8 DEF ReturnFromMain, Goto, ServeInv
  <2>2. ~running_' /\ ~inSync'
    BY <1>8, <2>1, BridgeAlone DEF ReturnFromMain, Destroy, syncVars
  <2> QED
    BY <2>1, <2>2 DEF Unseen, Phase, Served, Remaining
<1> QED
  BY <1>1, <1>2, <1>3, <1>4, <1>5, <1>6, <1>7, <1>8 DEF BridgeCall

\* Steps of main that neither call the bridge nor decide anything.
LEMMA LoggingKeepsPromise ==
  ASSUME ServeInv, UNCHANGED <<running, bridgeVars>>,
         LogEnter \/ LogLeave \/ WaitEnter \/ WaitBlock \/ WaitSpurious
  PROVE  Promise!GiveUp \/ Unseen
<1>1. UNCHANGED <<running_, inSync, pending, devices_>>
  BY BridgeAlone
<1>2. UNCHANGED <<Served, Remaining>>
  BY <1>1 DEF Served, Remaining
<1>3. UNCHANGED lateCycles
  BY DEF LogEnter, LogLeave, WaitEnter, WaitBlock, WaitSpurious, Goto, mainVars
<1>4. pc' \in Leaving \/ (pc \notin Leaving /\ pc' \notin Leaving)
  BY DEF LogEnter, LogLeave, WaitEnter, WaitBlock, WaitSpurious, Goto, mainVars, AfterLog,
         Leaving, EndLabel
<1> QED
  BY <1>1, <1>2, <1>3, <1>4, GiveUpOrUnseen

\* A signal, a handler or the clock can only make a request.
LEMMA OthersKeepPromise ==
  ASSUME FlagsTyped, [MainNext]_vars, ~MainStep, ~Spurious
  PROVE  Unseen \/ Promise!Request
<1>1. UNCHANGED <<pc, lateCycles, running_, inSync, pending, devices_>>
  BY StepsOfOthers, BridgeAlone
<1>2. UNCHANGED <<Phase, Served, Remaining>>
  BY <1>1 DEF Phase, Served, Remaining
<1>3. running' = running \/ running' = FALSE
  BY DEF MainNext, HandlerStep, HandlerLogEnter, HandlerLogLeave, HandlerStore, HandlerNotify,
         DeadlinePasses, Deliver, vars, handlerVars
<1> QED
  BY <1>1, <1>2, <1>3 DEF Unseen, Promise!Request, FlagsTyped

\* Every step is a step of Service or none.
LEMMA StepKeepsPromise ==
  ASSUME ListInv, BridgeTypeOK, LifecycleOrder, BridgedInv, LateInv, EndInv, ServeInv,
         FlagsTyped, [MainNext]_vars
  PROVE  [Promise!Next]_(Promise!serviceVars)
<1>1. Unseen \/ Promise!Next
  <2>1. CASE MainStep \/ Spurious
    <3>1. UNCHANGED running
      BY <2>1, StepsOfMain
    <3> QED
      BY <2>1, <3>1, ControlKeepsPromise, CallKeepsPromise, LoggingKeepsPromise
      DEF MainStep, Spurious, Promise!Next
  <2>2. CASE ~MainStep /\ ~Spurious
    BY <2>2, OthersKeepPromise DEF Promise!Next
  <2> QED
    BY <2>1, <2>2
<1> QED
  BY <1>1, UnseenStutters

\* Main, the bridge, the handlers and the clock implement Service: one set of devices,
\* whole cycles, and an end on request after one cycle more at most.
THEOREM ProgramImplementsService == MainSpec => ServiceSpec
<1>1. MainInit => Promise!Init
  BY DEF MainInit, BridgeInit, Promise!Init, Phase, Served, Remaining, Leaving, EndLabel
<1>2. MainInit => FlagsTyped /\ LateInv
  BY InitInv DEF MainInit, FlagsTyped, MainInv
<1>3. MainSpec => [](BridgeTypeOK /\ LifecycleOrder)
  BY ProgramUsesBridge, TypeCorrect, LifecycleAlwaysOrdered, PTL
<1> QED
  BY <1>1, <1>2, <1>3, InitList, InitBridged, InitServes, NextList, NextBridged, NextLate,
     EndHolds, NextServes, NextFlags, StepKeepsPromise, PTL
  DEF MainSpec, ServiceSpec, Promise!Spec
=============================================================================
