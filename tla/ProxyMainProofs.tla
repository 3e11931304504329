-------------------------- MODULE ProxyMainProofs --------------------------
(***************************************************************************)
(* Theorems about ProxyMain, for every set of signals, every list of       *)
(* discovered devices and every number of signals and cycles.              *)
(***************************************************************************)
EXTENDS ProxyMain, MatterBridgeProofs

USE MainAssumption

\* The position of main's loops never leaves the numbers its list is indexed by.
ListInv ==
  /\ devices \in Seq(Device)
  /\ index \in Nat \ {0}

\* Where main can be before its first cycle.
StartUp ==
  {"log_load", "log_config", "log_client", "log_discover", "log_list", "log_none",
   "log_device", "log_init", "log_adding", "log_added", "log_start", "log_ready", "load",
   "check_config", "client", "discover", "read_list", "create", "init", "add", "start"}

\* Once it has cycled, main stands before a new cycle only if the interval is over.
PaceInv ==
  /\ pc \in StartUp => ~cycled
  /\ pc \in {"loop", "log_cycle"} /\ cycled /\ running => due

\* A cycle begun after the request is the last one: main does not come back to
\* the beginning of a cycle.
LateInv ==
  /\ lateCycles \in {0, 1}
  /\ running => lateCycles = 0
  /\ lateCycles = 1 => pc # "log_cycle" /\ (pc \in SyncLabel => inSync)

MainInv == PaceInv /\ LateInv
-----------------------------------------------------------------------------
\* The steps that leave main's own variables alone.
LEMMA StepsOfOthers ==
  ASSUME [MainNext]_vars, ~MainStep, ~Spurious
  PROVE  UNCHANGED <<pc, devices, index, exitCode, cycled, lateCycles>> /\ UNCHANGED bridgeVars
  BY DEF MainNext, HandlerStep, DeadlinePasses, Deliver, vars, mainVars

\* Main's steps leave the handlers alone.
LEMMA StepsOfMain ==
  ASSUME MainStep \/ Spurious
  PROVE  frames = <<>> /\ UNCHANGED <<running, frames, signals>>
  BY DEF MainStep, Spurious, Uninterrupted, handlerVars

\* ListInv is inductive.
LEMMA NextList ==
  ASSUME ListInv, [MainNext]_vars
  PROVE  ListInv'
<1> USE DEF ListInv
<1>1. CASE UNCHANGED <<devices, index>>
  BY <1>1
<1>2. CASE UNCHANGED devices /\ index' \in {1, index + 1}
  BY <1>2
<1>3. CASE ReadList
  BY <1>3 DEF ReadList, Fail
<1>4. CASE MainStep
  <2>1. CASE Control
    BY <1>1, <1>2, <1>3, <2>1
    DEF Control, LoadConfig, CheckConfig, CreateClient, Discover, CreateDevice, AddDone,
        CycleReply, LoopTest, WaitPredicate, WaitNotified, WaitTimeout, Goto, Fail, NextTurn
  <2>2. CASE BridgeCall
    BY <1>1, <1>2, <2>2
    DEF BridgeCall, InitBridge, AddNext, StartBridge, CycleBegin, CyclePoll, CycleStore,
        CycleEnd, StopBridge, ReturnFromMain, Goto, Fail, NextTurn, mainVars
  <2>3. CASE LogEnter \/ LogLeave \/ WaitEnter \/ WaitBlock
    BY <1>1, <2>3 DEF LogEnter, LogLeave, WaitEnter, WaitBlock, Goto, mainVars
  <2> QED
    BY <1>4, <2>1, <2>2, <2>3 DEF MainStep
<1>5. CASE Spurious
  BY <1>1, <1>5 DEF Spurious, WaitSpurious, Goto
<1> QED
  BY <1>1, <1>4, <1>5, StepsOfOthers

\* Whatever main and the handlers do, the bridge makes a step of its own or none.
LEMMA StepOfBridge ==
  ASSUME ListInv, [MainNext]_vars
  PROVE  [BridgeNext]_bridgeVars
<1>1. CASE MainStep
  <2>1. CASE BridgeCall
    <3>1. AddNext => BridgeNext
      BY DEF AddNext, ListInv, BridgeNext
    <3>2. InitBridge \/ StartBridge \/ StopBridge => BridgeNext
      BY DEF InitBridge, StartBridge, StopBridge, BridgeNext
    <3>3. CycleBegin \/ CyclePoll \/ CycleStore \/ CycleEnd => BridgeNext
      BY DEF CycleBegin, CyclePoll, CycleStore, CycleEnd, BridgeNext, sync_state
    <3>4. ReturnFromMain => BridgeNext \/ UNCHANGED bridgeVars
      BY DEF ReturnFromMain, BridgeNext
    <3> QED
      BY <2>1, <3>1, <3>2, <3>3, <3>4 DEF BridgeCall
  <2> QED
    BY <1>1, <2>1 DEF MainStep, Control
<1>2. CASE Spurious
  BY <1>2 DEF Spurious
<1> QED
  BY <1>1, <1>2, StepsOfOthers

\* ListInv holds initially.
LEMMA InitList == MainInit => ListInv
  BY DEF MainInit, ListInv

\* The program uses the bridge as MatterBridge says it may be used: every
\* theorem about the bridge is a theorem about the program.
THEOREM ProgramUsesBridge == MainSpec => BridgeSpec
<1>1. MainInit => BridgeInit
  BY DEF MainInit
<1> QED
  BY <1>1, InitList, NextList, StepOfBridge, PTL DEF MainSpec, BridgeSpec

\* So while fewer devices are added than there are endpoints, whatever signals come.
THEOREM ProgramKeepsRegistry ==
  ASSUME MaxAdds < EndpointModulus
  PROVE  MainSpec => RegistrySpec
  BY ProgramUsesBridge, BridgeImplementsRegistry, PTL
-----------------------------------------------------------------------------
\* PaceInv is inductive: the only ways to the loop test are the start-up, the
\* deadline, and a predicate that found the request.
LEMMA NextPace ==
  ASSUME PaceInv, [MainNext]_vars
  PROVE  PaceInv'
<1> USE DEF PaceInv, StartUp
<1>1. CASE MainStep
  <2>1. UNCHANGED running
    BY <1>1, StepsOfMain
  <2>2. CASE Control
    BY <2>1, <2>2
    DEF Control, LoadConfig, CheckConfig, CreateClient, Discover, ReadList, CreateDevice,
        AddDone, CycleReply, LoopTest, WaitPredicate, WaitNotified, WaitTimeout, Goto, Fail, NextTurn,
        waitVars
  <2>3. CASE BridgeCall
    BY <2>1, <2>3
    DEF BridgeCall, InitBridge, AddNext, StartBridge, CycleBegin, CyclePoll, CycleStore,
        CycleEnd, StopBridge, ReturnFromMain, Goto, Fail, NextTurn, mainVars, waitVars
  <2>4. CASE LogLeave
    BY <2>1, <2>4 DEF LogLeave, AfterLog, Goto, waitVars
  <2>5. CASE LogEnter \/ WaitEnter \/ WaitBlock
    BY <2>1, <2>5 DEF LogEnter, WaitEnter, WaitBlock, Goto, mainVars, waitVars
  <2> QED
    BY <1>1, <2>2, <2>3, <2>4, <2>5 DEF MainStep
<1>2. CASE Spurious
  BY <1>2 DEF Spurious, WaitSpurious, Goto
<1>3. CASE ~MainStep /\ ~Spurious
  <2>1. UNCHANGED <<pc, cycled>>
    BY <1>3, StepsOfOthers
  <2>2. running' => running
    BY <1>3
    DEF MainNext, HandlerStep, HandlerLogEnter, HandlerLogLeave, HandlerStore, HandlerNotify,
        DeadlinePasses, Deliver, vars, handlerVars
  <2>3. CASE DeadlinePasses
    BY <2>1, <2>2, <2>3 DEF DeadlinePasses
  <2>4. CASE ~DeadlinePasses
    <3>1. UNCHANGED due
      BY <1>3, <2>4
      DEF MainNext, HandlerStep, HandlerLogEnter, HandlerLogLeave, HandlerStore,
          HandlerNotify, Deliver, vars, waitVars
    <3> QED
      BY <2>1, <2>2, <3>1
  <2> QED
    BY <2>3, <2>4
<1> QED
  BY <1>1, <1>2, <1>3

\* LateInv is inductive: after the request the loop test lets no cycle begin.
LEMMA NextLate ==
  ASSUME LateInv, [MainNext]_vars
  PROVE  LateInv'
<1> USE DEF LateInv, SyncLabel
<1>1. CASE MainStep
  <2>1. UNCHANGED running
    BY <1>1, StepsOfMain
  <2>2. CASE Control
    <3>1. UNCHANGED lateCycles
      BY <2>2
      DEF Control, LoadConfig, CheckConfig, CreateClient, Discover, ReadList, CreateDevice,
          AddDone, CycleReply, LoopTest, WaitPredicate, WaitNotified, WaitTimeout, Goto, Fail, NextTurn
    <3>2. (pc' \in SyncLabel => inSync) /\ (pc' = "log_cycle" => running)
      BY <2>2
      DEF Control, LoadConfig, CheckConfig, CreateClient, Discover, ReadList, CreateDevice,
          AddDone, CycleReply, LoopTest, WaitPredicate, WaitNotified, WaitTimeout, Goto, Fail, NextTurn
    <3>3. UNCHANGED inSync
      BY <2>2 DEF Control, bridgeVars, syncVars
    <3> QED
      BY <2>1, <3>1, <3>2, <3>3
  <2>3. CASE CycleBegin
    <3>1. pc = "sync" /\ ~inSync
      BY <2>3 DEF CycleBegin, SyncBegin, Callable
    <3>2. lateCycles = 0
      BY <3>1
    <3> QED
      BY <2>1, <2>3, <3>2 DEF CycleBegin, Goto
  <2>4. CASE CyclePoll \/ CycleStore
    BY <2>1, <2>4 DEF CyclePoll, CycleStore, SyncPoll, Goto, mainVars
  <2>5. CASE BridgeCall /\ ~CycleBegin /\ ~CyclePoll /\ ~CycleStore
    BY <2>1, <2>5
    DEF BridgeCall, InitBridge, AddNext, StartBridge, CycleEnd, StopBridge, ReturnFromMain,
        Goto, Fail, NextTurn
  <2>6. CASE LogLeave /\ UNCHANGED bridgeVars
    BY <2>1, <2>6 DEF LogLeave, AfterLog, Goto, bridgeVars, syncVars
  <2>7. CASE LogEnter /\ UNCHANGED bridgeVars
    BY <2>1, <2>7 DEF LogEnter, mainVars, bridgeVars, syncVars
  <2>8. CASE WaitEnter \/ WaitBlock
    BY <2>1, <2>8 DEF WaitEnter, WaitBlock, Goto
  <2> QED
    BY <1>1, <2>2, <2>3, <2>4, <2>5, <2>6, <2>7, <2>8 DEF MainStep
<1>2. CASE Spurious
  BY <1>2, StepsOfMain DEF Spurious, WaitSpurious, Goto
<1>3. CASE ~MainStep /\ ~Spurious
  <2>1. UNCHANGED <<pc, lateCycles, inSync>>
    BY <1>3, StepsOfOthers DEF bridgeVars, syncVars
  <2>2. running' => running
    BY <1>3
    DEF MainNext, HandlerStep, HandlerLogEnter, HandlerLogLeave, HandlerStore, HandlerNotify,
        DeadlinePasses, Deliver, vars, handlerVars
  <2> QED
    BY <2>1, <2>2
<1> QED
  BY <1>1, <1>2, <1>3

\* The invariants hold initially.
LEMMA InitInv == MainInit => MainInv
  BY DEF MainInit, MainInv, PaceInv, LateInv, StartUp

\* Every step keeps them.
LEMMA InvHolds == MainSpec => []MainInv
<1>1. MainInv /\ [MainNext]_vars => MainInv'
  BY NextPace, NextLate DEF MainInv
<1> QED
  BY <1>1, InitInv, PTL DEF MainSpec

\* However often the wait is woken and whatever signals come, main polls no
\* sooner than the interval says, until a shutdown is requested.
THEOREM PollsAlwaysPaced == MainSpec => []PollsArePaced
<1>1. MainInv => PollsArePaced
  BY DEF MainInv, PaceInv, PollsArePaced
<1> QED
  BY <1>1, InvHolds, PTL

\* At most one cycle of polling begins after the shutdown request, wherever in
\* main the handler's signal arrived.
THEOREM AtMostOneLateCycle == MainSpec => []OneLateCycle
<1>1. MainInv => OneLateCycle
  BY DEF MainInv, LateInv, OneLateCycle
<1> QED
  BY <1>1, InvHolds, PTL
-----------------------------------------------------------------------------
(***************************************************************************)
(* What main has done to the bridge by the time it is at a label.          *)
(***************************************************************************)
BeforeInit ==
  {"log_load", "log_config", "log_client", "log_discover", "log_list", "log_device",
   "log_init", "load", "check_config", "client", "discover", "read_list", "create", "init"}
Adding == {"log_adding", "log_added", "add", "log_start", "start"}

\* The ids of the first n devices.
IdsOfFirst(n) == {IdOf[devices[i]] : i \in 1 .. n}

BridgedInv ==
  /\ pc \in {"log_init", "init", "log_adding"} => index = 1
  /\ pc \in BeforeInit => DOMAIN devices_ = {}
  /\ pc \in Adding =>
       initialized /\ index <= Len(devices) + 1 /\ DOMAIN devices_ = IdsOfFirst(index - 1)
  /\ pc \in {"log_start", "start"} => index = Len(devices) + 1
  /\ pc \in LoopLabel \cup {"log_ready"} =>
       running_ /\ DOMAIN devices_ = IdsOfFirst(Len(devices))

\* Adding a device adds its id, unless it is there.
LEMMA AddAddsId ==
  ASSUME NEW d \in Device, initialized, add_device(d)
  PROVE  DOMAIN devices_' = DOMAIN devices_ \cup {IdOf[d]} /\ UNCHANGED lifecycleVars
<1>1. d # NullDevice
  BY BridgeAssumption
<1>2. CASE IdOf[d] \in DOMAIN devices_
  BY <1>1, <1>2 DEF add_device, Refuse, endpointVars, lifecycleVars
<1>3. CASE IdOf[d] \notin DOMAIN devices_
  BY <1>1, <1>3 DEF add_device, Register, Store, lifecycleVars
<1> QED
  BY <1>2, <1>3

\* One more turn of the loop over the devices is one more id.
LEMMA OneMoreId ==
  ASSUME ListInv, index <= Len(devices)
  PROVE  IdsOfFirst(index) = IdsOfFirst(index - 1) \cup {IdOf[devices[index]]}
<1>1. 1 .. index = (1 .. index - 1) \cup {index}
  BY DEF ListInv
<1> QED
  BY <1>1 DEF IdsOfFirst

\* Main's steps on its own variables.
LEMMA ControlBridged ==
  ASSUME ListInv, BridgedInv, Control
  PROVE  BridgedInv'
<1>1. UNCHANGED <<initialized, running_, devices_>>
  BY DEF Control, bridgeVars, lifecycleVars, endpointVars
<1> USE DEF BridgedInv, BeforeInit, Adding, LoopLabel, SyncLabel, WaitLabel, IdsOfFirst
<1>2. CASE \/ LoadConfig \/ CheckConfig \/ CreateClient \/ Discover \/ CycleReply
           \/ LoopTest \/ WaitPredicate \/ WaitNotified \/ WaitTimeout
  BY <1>1, <1>2
  DEF LoadConfig, CheckConfig, CreateClient, Discover, CycleReply, LoopTest, WaitPredicate,
      WaitNotified, WaitTimeout, Goto, Fail
<1>3. CASE ReadList
  BY <1>1, <1>3 DEF ReadList, Fail
<1>4. CASE CreateDevice
  BY <1>1, <1>4 DEF CreateDevice, NextTurn
<1>5. CASE AddDone
  BY <1>1, <1>5 DEF AddDone, Goto, ListInv
<1> QED
  BY <1>2, <1>3, <1>4, <1>5 DEF Control

\* Main's calls of the bridge.
LEMMA CallBridged ==
  ASSUME ListInv, BridgedInv, BridgeCall
  PROVE  BridgedInv'
<1>1. CASE AddNext
  <2>1. /\ pc = "add" /\ pc' = "log_added" /\ index' = index + 1 /\ devices' = devices
        /\ index <= Len(devices) /\ devices[index] \in Device
        /\ add_device(devices[index])
    BY <1>1 DEF AddNext, NextTurn, ListInv
  <2>2. initialized /\ DOMAIN devices_ = IdsOfFirst(index - 1)
    BY <2>1 DEF BridgedInv, Adding
  <2>3. DOMAIN devices_' = DOMAIN devices_ \cup {IdOf[devices[index]]}
    BY <2>1, <2>2, AddAddsId
  <2>4. initialized'
    BY <2>1, <2>2, AddAddsId DEF lifecycleVars
  <2>5. IdsOfFirst(index - 1)' = IdsOfFirst(index)
    BY <2>1 DEF ListInv, IdsOfFirst
  <2>6. DOMAIN devices_' = IdsOfFirst(index - 1)'
    BY <2>1, <2>2, <2>3, <2>5, OneMoreId
  <2> QED
    BY <2>1, <2>4, <2>6
    DEF BridgedInv, BeforeInit, Adding, LoopLabel, SyncLabel, WaitLabel, ListInv
<1>2. CASE InitBridge
  <2>1. pc = "init" /\ index' = index /\ devices' = devices /\ devices_' = devices_
    BY <1>2
    DEF InitBridge, initialize, Refuse, endpointVars, Goto, Fail
  <2>2. CASE pc' = "log_fail"
    BY <2>2 DEF BridgedInv, BeforeInit, Adding, LoopLabel, SyncLabel, WaitLabel
  <2>3. CASE pc' = "log_adding" /\ result'.code = "Success"
    <3>1. initialized'
      BY <1>2, <2>3 DEF InitBridge, initialize, Refuse, Return
    <3>2. DOMAIN devices_' = {} /\ index' = 1
      BY <2>1 DEF BridgedInv, BeforeInit
    <3>3. IdsOfFirst(index - 1)' = {}
      BY <3>2 DEF IdsOfFirst
    <3> QED
      BY <2>1, <2>3, <3>1, <3>2, <3>3
      DEF BridgedInv, BeforeInit, Adding, LoopLabel, SyncLabel, WaitLabel, ListInv
  <2> QED
    BY <1>2, <2>2, <2>3 DEF InitBridge, Goto, Fail
<1>3. CASE StartBridge
  <2>1. pc = "start" /\ devices' = devices /\ devices_' = devices_
    BY <1>3 DEF StartBridge, start, Refuse, endpointVars, Goto, Fail
  <2>2. CASE pc' = "log_fail"
    BY <2>2 DEF BridgedInv, BeforeInit, Adding, LoopLabel, SyncLabel, WaitLabel
  <2>3. CASE pc' = "log_ready" /\ result'.code = "Success"
    <3>1. running_'
      BY <1>3, <2>3 DEF StartBridge, start, Refuse, Return
    <3>2. DOMAIN devices_' = IdsOfFirst(Len(devices))'
      BY <2>1 DEF BridgedInv, Adding, ListInv, IdsOfFirst
    <3> QED
      BY <2>1, <2>3, <3>1, <3>2
      DEF BridgedInv, BeforeInit, Adding, LoopLabel, SyncLabel, WaitLabel
  <2> QED
    BY <1>3, <2>2, <2>3 DEF StartBridge, Goto, Fail
<1>4. CASE CycleBegin \/ CyclePoll \/ CycleStore \/ CycleEnd
  <2>1. pc \in {"sync", "store"} /\ UNCHANGED <<running_, devices_, devices>>
    BY <1>4
    DEF CycleBegin, CyclePoll, CycleStore, CycleEnd, SyncBegin, SyncPoll, SyncReturn, Refuse,
        lifecycleVars, endpointVars, Goto, mainVars
  <2>2. pc' \in {"sync", "log_warn", "wait"}
    BY <1>4, <2>1 DEF CycleBegin, CyclePoll, CycleStore, CycleEnd, Goto, mainVars
  <2> QED
    BY <2>1, <2>2
    DEF BridgedInv, BeforeInit, Adding, LoopLabel, SyncLabel, WaitLabel, IdsOfFirst
<1>5. CASE StopBridge \/ ReturnFromMain
  BY <1>5
  DEF StopBridge, ReturnFromMain, Goto, BridgedInv, BeforeInit, Adding, LoopLabel, SyncLabel,
      WaitLabel
<1> QED
  BY <1>1, <1>2, <1>3, <1>4, <1>5 DEF BridgeCall

\* BridgedInv is inductive.
LEMMA NextBridged ==
  ASSUME ListInv, BridgedInv, [MainNext]_vars
  PROVE  BridgedInv'
<1>1. CASE Control
  BY <1>1, ControlBridged
<1>2. CASE BridgeCall
  BY <1>2, CallBridged
<1>3. CASE (LogEnter \/ LogLeave \/ WaitEnter \/ WaitBlock \/ WaitSpurious) /\ UNCHANGED bridgeVars
  <2>1. UNCHANGED <<initialized, running_, devices_, devices, index>>
    BY <1>3
    DEF LogEnter, LogLeave, WaitEnter, WaitBlock, WaitSpurious, Goto, mainVars, bridgeVars,
        lifecycleVars, endpointVars
  <2>2. CASE LogLeave
    BY <2>1, <2>2
    DEF LogLeave, AfterLog, Goto, BridgedInv, BeforeInit, Adding, LoopLabel, SyncLabel,
        WaitLabel, IdsOfFirst
  <2>3. CASE LogEnter \/ WaitEnter \/ WaitBlock \/ WaitSpurious
    BY <2>1, <2>3
    DEF LogEnter, WaitEnter, WaitBlock, WaitSpurious, Goto, mainVars, BridgedInv, BeforeInit,
        Adding, LoopLabel, SyncLabel, WaitLabel, IdsOfFirst
  <2> QED
    BY <1>3, <2>2, <2>3
<1>4. CASE ~MainStep /\ ~Spurious
  <2>1. UNCHANGED <<pc, devices, index>> /\ UNCHANGED <<initialized, running_, devices_>>
    BY <1>4, StepsOfOthers DEF bridgeVars, lifecycleVars, endpointVars
  <2> QED
    BY <2>1 DEF BridgedInv, IdsOfFirst
<1> QED
  BY <1>1, <1>2, <1>3, <1>4 DEF MainStep, Spurious

\* BridgedInv holds initially.
LEMMA InitBridged == MainInit => BridgedInv
  BY DEF MainInit, BridgeInit, EmptyMap, BridgedInv, BeforeInit, Adding, LoopLabel, SyncLabel,
         WaitLabel

\* In every cycle the bridge runs and holds every device that was discovered, whatever
\* duplicates the list has and whatever signals come.
THEOREM AllDevicesBridged == MainSpec => []EveryDeviceBridged
<1>1. MainInit => ListInv /\ BridgedInv
  BY InitList, InitBridged
<1>2. ListInv /\ BridgedInv /\ [MainNext]_vars => ListInv' /\ BridgedInv'
  BY NextList, NextBridged
<1>3. ListInv /\ BridgedInv => EveryDeviceBridged
  <2> SUFFICES ASSUME ListInv, BridgedInv, pc \in LoopLabel PROVE EveryDeviceBridged
    BY DEF EveryDeviceBridged
  <2>1. running_ /\ DOMAIN devices_ = IdsOfFirst(Len(devices))
    BY DEF BridgedInv
  <2>2. IdsOfFirst(Len(devices)) = {IdOf[devices[i]] : i \in DOMAIN devices}
    BY DEF IdsOfFirst, ListInv
  <2> QED
    BY <2>1, <2>2 DEF EveryDeviceBridged
<1> QED
  BY <1>1, <1>2, <1>3, PTL DEF MainSpec
-----------------------------------------------------------------------------
(***************************************************************************)
(* The types.                                                              *)
(***************************************************************************)
\* Main's own variables; before the discovery, its loops have not begun.
MainVarsTyped ==
  /\ pc \in Label
  /\ devices \in DeviceLists \cup {<<>>}
  /\ index \in 1 .. Len(devices) + 1
  /\ exitCode \in {0, 1}
  /\ lateCycles \in 0 .. 2
  /\ pc \in {"log_load", "load", "log_config", "check_config", "log_client", "client",
             "log_discover", "discover", "log_list", "read_list"} => index = 1

FlagsTyped == cycled \in BOOLEAN /\ running \in BOOLEAN /\ woken \in BOOLEAN /\ due \in BOOLEAN

HandlersTyped ==
  /\ frames \in Seq(Frame)
  /\ signals \in 0 .. MaxSignals
  /\ sink \in {"free", "held"}

\* Main's own variables keep their types when main does not call the bridge,
LEMMA ControlVars ==
  ASSUME MainVarsTyped, Control
  PROVE  MainVarsTyped'
<1>0. Len(devices) \in Nat
  BY DEF MainVarsTyped
<1> USE <1>0 DEF MainVarsTyped, Label, LoopLabel, SyncLabel, WaitLabel, EndLabel, AfterLog
<1>1. CASE LoadConfig \/ CheckConfig \/ CreateClient \/ Discover \/ CycleReply \/ LoopTest
  BY <1>1 DEF LoadConfig, CheckConfig, CreateClient, Discover, CycleReply, LoopTest, Goto, Fail
<1>2. CASE WaitPredicate \/ WaitNotified \/ WaitTimeout \/ AddDone
  BY <1>2 DEF WaitPredicate, WaitNotified, WaitTimeout, AddDone, Goto
<1>3. CASE ReadList
  BY <1>3 DEF ReadList, Fail
<1>4. CASE CreateDevice
  BY <1>4 DEF CreateDevice, NextTurn
<1> QED
  BY <1>1, <1>2, <1>3, <1>4 DEF Control

\* when it does,
LEMMA CallVars ==
  ASSUME MainVarsTyped, BridgeCall
  PROVE  MainVarsTyped'
<1>0. Len(devices) \in Nat
  BY DEF MainVarsTyped
<1> USE <1>0 DEF MainVarsTyped, Label, LoopLabel, SyncLabel, WaitLabel, EndLabel, AfterLog
<1>1. CASE InitBridge \/ StartBridge \/ StopBridge \/ ReturnFromMain
  BY <1>1 DEF InitBridge, StartBridge, StopBridge, ReturnFromMain, Goto, Fail
<1>2. CASE AddNext
  BY <1>2 DEF AddNext, NextTurn
<1>3. CASE CycleBegin \/ CyclePoll \/ CycleStore \/ CycleEnd
  BY <1>3 DEF CycleBegin, CyclePoll, CycleStore, CycleEnd, Goto, mainVars
<1> QED
  BY <1>1, <1>2, <1>3 DEF BridgeCall

\* and at every step.
LEMMA NextVars ==
  ASSUME MainVarsTyped, [MainNext]_vars
  PROVE  MainVarsTyped'
<1>1. CASE LogEnter \/ LogLeave \/ WaitEnter \/ WaitBlock \/ WaitSpurious
  BY <1>1
  DEF LogEnter, LogLeave, WaitEnter, WaitBlock, WaitSpurious, Goto, mainVars, MainVarsTyped,
      Label, LoopLabel, SyncLabel, WaitLabel, EndLabel, AfterLog
<1>2. CASE ~MainStep /\ ~Spurious
  BY <1>2, StepsOfOthers DEF MainVarsTyped
<1> QED
  BY <1>1, <1>2, ControlVars, CallVars DEF MainStep, Spurious

\* So do the flags that main shares with the handlers.
LEMMA NextFlags ==
  ASSUME FlagsTyped, [MainNext]_vars
  PROVE  FlagsTyped'
<1>1. cycled' \in BOOLEAN
  <2>1. CASE MainStep
    <3>1. cycled' = cycled \/ cycled' = TRUE
      BY <2>1
      DEF MainStep, Control, BridgeCall, LoadConfig, CheckConfig, CreateClient, Discover,
          ReadList, CreateDevice, AddDone, CycleReply, LoopTest, WaitPredicate, WaitNotified,
          WaitTimeout, InitBridge, AddNext, StartBridge, CycleBegin, CyclePoll, CycleStore,
          CycleEnd, StopBridge, ReturnFromMain, LogEnter, LogLeave, WaitEnter, WaitBlock, Goto,
          Fail, NextTurn, mainVars
    <3> QED
      BY <3>1 DEF FlagsTyped
  <2>2. CASE Spurious
    BY <2>2 DEF FlagsTyped, Spurious, WaitSpurious, Goto
  <2> QED
    BY <2>1, <2>2, StepsOfOthers DEF FlagsTyped
<1>2. running' = running \/ running' = FALSE
  BY StepsOfMain
  DEF MainNext, HandlerStep, HandlerLogEnter, HandlerLogLeave, HandlerStore, HandlerNotify,
      DeadlinePasses, Deliver, vars, handlerVars
<1>3. woken' = woken \/ woken' = FALSE \/ woken' = (woken \/ pc = "blocked")
  BY DEF MainNext, MainStep, Spurious, Control, BridgeCall, LogEnter, LogLeave, WaitEnter,
         WaitBlock, HandlerStep, HandlerLogEnter, HandlerLogLeave, HandlerStore,
         HandlerNotify, DeadlinePasses, Deliver, vars, waitVars
<1>4. due' = due \/ due' = FALSE \/ due' = TRUE
  BY DEF MainNext, MainStep, Spurious, Control, BridgeCall, LogEnter, LogLeave, WaitEnter,
         WaitBlock, HandlerStep, HandlerLogEnter, HandlerLogLeave, HandlerStore,
         HandlerNotify, DeadlinePasses, Deliver, vars, waitVars
<1> QED
  BY <1>1, <1>2, <1>3, <1>4 DEF FlagsTyped

\* The handler on top moves within its own code.
LEMMA MoveTopTyped ==
  ASSUME frames \in Seq(Frame), frames # <<>>,
         NEW at \in {"log", "logging", "store", "notify"}, MoveTop(at)
  PROVE  frames' \in Seq(Frame)
<1>1. Len(frames) \in 1 .. Len(frames)
  OBVIOUS
<1>2. frames[Len(frames)] \in Frame
  BY <1>1
<1>3. ASSUME NEW f \in Frame PROVE [f EXCEPT !.at = at] \in Frame
  BY DEF Frame
<1>4. frames' = [frames EXCEPT ![Len(frames)] = [frames[Len(frames)] EXCEPT !.at = at]]
  BY DEF MoveTop
<1> QED
  BY <1>1, <1>2, <1>3, <1>4

\* So does the stack of handlers.
LEMMA NextHandlers ==
  ASSUME HandlersTyped, [MainNext]_vars
  PROVE  HandlersTyped'
<1>1. CASE MainStep \/ Spurious
  <2>1. UNCHANGED <<frames, signals>>
    BY <1>1, StepsOfMain
  <2>2. sink' \in {"free", "held"}
    BY <1>1
    DEF MainStep, Spurious, Control, BridgeCall, LogEnter, LogLeave, WaitEnter, WaitBlock,
        HandlersTyped
  <2> QED
    BY <2>1, <2>2 DEF HandlersTyped
<1>2. CASE HandlerStep
  <2>1. signals' = signals /\ sink' \in {"free", "held"} /\ frames # <<>>
    BY <1>2
    DEF HandlerStep, HandlerLogEnter, HandlerLogLeave, HandlerStore, HandlerNotify,
        HandlersTyped
  <2>2. CASE HandlerNotify
    BY <2>1, <2>2 DEF HandlerNotify, HandlersTyped
  <2>3. CASE HandlerLogEnter \/ HandlerLogLeave \/ HandlerStore
    BY <2>1, <2>3, MoveTopTyped
    DEF HandlerLogEnter, HandlerLogLeave, HandlerStore, HandlersTyped
  <2> QED
    BY <1>2, <2>2, <2>3 DEF HandlerStep
<1>3. CASE DeadlinePasses \/ UNCHANGED vars
  BY <1>3 DEF DeadlinePasses, vars, handlerVars, HandlersTyped
<1>4. ASSUME NEW s \in Signal, Deliver(s)
      PROVE  HandlersTyped'
  <2>1. [signal |-> s, at |-> "log"] \in Frame
    BY DEF Frame
  <2> QED
    BY <1>4, <2>1 DEF Deliver, HandlersTyped
<1> QED
  BY <1>1, <1>2, <1>3, <1>4 DEF MainNext

\* The types hold; main's position in the list of devices stays within it.
THEOREM MainTypeCorrect == MainSpec => []MainTypeOK
<1> DEFINE Typed == BridgeTypeOK /\ MainVarsTyped /\ FlagsTyped /\ HandlersTyped
<1>1. MainInit => Typed
  <2>1. MainInit => BridgeTypeOK /\ HandlersTyped
    BY InitType DEF MainInit, HandlersTyped
  <2>2. MainInit => FlagsTyped
    BY DEF MainInit, FlagsTyped
  <2>3. MainInit => MainVarsTyped
    BY DEF MainInit, MainVarsTyped, Label, AfterLog
  <2> QED
    BY <2>1, <2>2, <2>3
<1>2. ListInv /\ Typed /\ [MainNext]_vars => Typed'
  BY StepOfBridge, NextType, NextVars, NextFlags, NextHandlers
<1>3. Typed => MainTypeOK
  BY DEF MainVarsTyped, FlagsTyped, HandlersTyped, MainTypeOK
<1> QED
  BY <1>1, <1>2, <1>3, InitList, NextList, PTL DEF MainSpec
-----------------------------------------------------------------------------
(***************************************************************************)
(* The end of the program.                                                 *)
(***************************************************************************)
\* Why the program is at its end.
EndInv ==
  /\ pc \in {"log_stop", "stop", "log_done"} => ~running
  /\ pc = "log_fail" => exitCode = 1
  /\ pc = "log_none" => devices = <<>>
  /\ pc = "return" => ~running \/ exitCode = 1 \/ devices = <<>>
  /\ pc = "exited" => frames = <<>>
  /\ ExitOnlyOnRequest

\* The sink is held by main at a log line, or by a handler that logs.
HandlerLogs == \E i \in DOMAIN frames : frames[i].at = "logging"
SinkInv == sink = "held" => pc \in DOMAIN AfterLog \/ HandlerLogs

\* No handler, and no time that passes, takes a request back.
LEMMA RequestStays ==
  ASSUME [MainNext]_vars
  PROVE  running' => running
<1>1. CASE MainStep \/ Spurious
  BY <1>1, StepsOfMain
<1>2. CASE ~MainStep /\ ~Spurious
  BY <1>2
  DEF MainNext, HandlerStep, HandlerLogEnter, HandlerLogLeave, HandlerStore, HandlerNotify,
      DeadlinePasses, Deliver, vars, handlerVars
<1> QED
  BY <1>1, <1>2

\* A held sink has a holder: main does not leave a log line holding it, and neither
\* does a handler.
LEMMA NextSink ==
  ASSUME HandlersTyped, SinkInv, [MainNext]_vars
  PROVE  SinkInv'
<1> USE DEF SinkInv, HandlerLogs
<1>1. CASE MainStep \/ Spurious
  <2>1. frames = <<>> /\ frames' = frames
    BY <1>1, StepsOfMain
  <2>2. sink = "held" => pc \in DOMAIN AfterLog
    BY <2>1
  <2>3. CASE LogEnter \/ LogLeave
    BY <2>3 DEF LogEnter, LogLeave, mainVars
  <2>4. CASE Control
    <3>1. pc \notin DOMAIN AfterLog
      BY <2>4
      DEF Control, LoadConfig, CheckConfig, CreateClient, Discover, ReadList, CreateDevice,
          AddDone, CycleReply, LoopTest, WaitPredicate, WaitNotified, WaitTimeout, AfterLog
    <3> QED
      BY <2>2, <2>4, <3>1 DEF HandlersTyped, Control
  <2>5. CASE BridgeCall
    <3>1. pc \notin DOMAIN AfterLog
      BY <2>5
      DEF BridgeCall, InitBridge, AddNext, StartBridge, CycleBegin, CyclePoll, CycleStore,
          CycleEnd, StopBridge, ReturnFromMain, AfterLog
    <3> QED
      BY <2>2, <2>5, <3>1 DEF HandlersTyped, BridgeCall
  <2>6. CASE (WaitEnter \/ WaitBlock \/ Spurious) /\ sink' = sink
    <3>1. pc \notin DOMAIN AfterLog
      BY <2>6 DEF WaitEnter, WaitBlock, Spurious, WaitSpurious, AfterLog
    <3> QED
      BY <2>2, <2>6, <3>1 DEF HandlersTyped
  <2> QED
    BY <1>1, <2>3, <2>4, <2>5, <2>6 DEF MainStep, Spurious, WaitEnter, WaitBlock
<1>2. CASE HandlerStep
  <2>1. frames # <<>> /\ pc' = pc /\ Len(frames) \in DOMAIN frames
    BY <1>2 DEF HandlerStep, mainVars, HandlersTyped
  <2>2. CASE HandlerLogEnter
    BY <2>1, <2>2 DEF HandlerLogEnter, MoveTop, HandlersTyped, Frame
  <2>3. CASE HandlerLogLeave
    BY <2>3 DEF HandlerLogLeave
  <2>4. CASE HandlerStore
    <3>1. ASSUME NEW i \in DOMAIN frames, frames[i].at = "logging"
          PROVE  i \in DOMAIN frames' /\ frames'[i].at = "logging"
      BY <2>1, <2>4, <3>1 DEF HandlerStore, MoveTop, Top, HandlersTyped
    <3> QED
      BY <2>1, <2>4, <3>1 DEF HandlerStore
  <2>5. CASE HandlerNotify
    <3>1. ASSUME NEW i \in DOMAIN frames, frames[i].at = "logging"
          PROVE  i \in DOMAIN frames' /\ frames'[i].at = "logging"
      <4>1. i # Len(frames) /\ i \in 1 .. Len(frames) - 1
        BY <2>1, <2>5, <3>1 DEF HandlerNotify, Top, HandlersTyped
      <4> QED
        BY <2>5, <3>1, <4>1 DEF HandlerNotify, HandlersTyped
    <3> QED
      BY <2>1, <2>5, <3>1 DEF HandlerNotify
  <2> QED
    BY <1>2, <2>2, <2>3, <2>4, <2>5 DEF HandlerStep
<1>3. ASSUME NEW s \in Signal, Deliver(s), UNCHANGED pc
      PROVE  SinkInv'
  <2>1. ASSUME NEW i \in DOMAIN frames, frames[i].at = "logging"
        PROVE  i \in DOMAIN frames' /\ frames'[i].at = "logging"
    BY <1>3, <2>1 DEF Deliver, HandlersTyped
  <2> QED
    BY <1>3, <2>1 DEF Deliver
<1>4. CASE DeadlinePasses \/ UNCHANGED vars
  BY <1>4 DEF DeadlinePasses, vars, mainVars, handlerVars
<1> QED
  BY <1>1, <1>2, <1>3, <1>4 DEF MainNext, mainVars

\* The ways to the end: a failure, an empty list, or the loop test after a request.
LEMMA NextEnd ==
  ASSUME EndInv, SinkInv, HandlersTyped, [MainNext]_vars
  PROVE  EndInv'
<1>a. running' => running
  BY RequestStays
<1> USE DEF EndInv, ExitOnlyOnRequest
<1>1. CASE MainStep
  <2>1. running' = running /\ frames = <<>> /\ frames' = frames
    BY <1>1, StepsOfMain
  <2>2. CASE Control
    BY <2>1, <2>2
    DEF Control, LoadConfig, CheckConfig, CreateClient, Discover, ReadList, CreateDevice,
        AddDone, CycleReply, LoopTest, WaitPredicate, WaitNotified, WaitTimeout, Goto, Fail, NextTurn
  <2>3. CASE ReturnFromMain /\ devices # <<>> /\ UNCHANGED sink
    <3>1. /\ pc = "return" /\ pc' = "exited" /\ devices' = devices /\ exitCode' = exitCode
      BY <2>3 DEF ReturnFromMain, Goto
    <3>2. running_' = FALSE
      BY <2>3 DEF ReturnFromMain, Destroy
    <3>3. ~inSync /\ inSync' = inSync
      BY <2>3 DEF ReturnFromMain, Destroy, Callable, syncVars
    <3>4. sink' # "held"
      BY <2>1, <2>3, <3>1 DEF SinkInv, HandlerLogs, AfterLog
    <3>5. sink' = "free"
      BY <2>3, <3>4 DEF HandlersTyped
    <3> QED
      BY <2>1, <2>3, <3>1, <3>2, <3>3, <3>5
  <2>4. CASE ReturnFromMain /\ devices = <<>>
    BY <2>1, <2>4 DEF ReturnFromMain, Goto
  <2>5. CASE BridgeCall /\ ~ReturnFromMain
    BY <2>1, <2>5
    DEF BridgeCall, InitBridge, AddNext, StartBridge, CycleBegin, CyclePoll, CycleStore,
        CycleEnd, StopBridge, Goto, Fail, NextTurn, mainVars
  <2>6. CASE LogLeave
    BY <2>1, <2>6 DEF LogLeave, AfterLog, Goto
  <2>7. CASE (LogEnter \/ WaitEnter \/ WaitBlock) /\ UNCHANGED bridgeVars
    BY <2>1, <2>7
    DEF LogEnter, AfterLog, WaitEnter, WaitBlock, Goto, mainVars, bridgeVars, lifecycleVars,
        syncVars
  <2> QED
    BY <1>1, <2>2, <2>3, <2>4, <2>5, <2>6, <2>7 DEF MainStep, BridgeCall
<1>2. CASE Spurious
  BY <1>a, <1>2 DEF Spurious, WaitSpurious, Goto
<1>3. CASE ~MainStep /\ ~Spurious
  <2>1. UNCHANGED <<pc, devices, exitCode>> /\ UNCHANGED <<running_, inSync>>
    BY <1>3, StepsOfOthers DEF bridgeVars, lifecycleVars, syncVars
  <2>2. pc = "exited" => UNCHANGED <<frames, sink>>
    BY <1>3
    DEF MainNext, HandlerStep, DeadlinePasses, Deliver, EndLabel, vars, handlerVars
  <2> QED
    BY <1>a, <2>1, <2>2
<1> QED
  BY <1>1, <1>2, <1>3

\* EndInv is an invariant.
LEMMA EndHolds == MainSpec => []EndInv
<1>1. MainInit => EndInv /\ SinkInv /\ HandlersTyped
  BY DEF MainInit, EndInv, ExitOnlyOnRequest, SinkInv, HandlersTyped
<1> QED
  BY <1>1, NextEnd, NextSink, NextHandlers, PTL DEF MainSpec

\* The program does not end by itself: it returns 0 only because a signal asked for
\* it (or there is no device), and leaves nothing running and no sink held.
THEOREM ExitsOnlyOnRequest == MainSpec => []ExitOnlyOnRequest
<1>1. EndInv => ExitOnlyOnRequest
  BY DEF EndInv
<1> QED
  BY <1>1, EndHolds, PTL
=============================================================================
