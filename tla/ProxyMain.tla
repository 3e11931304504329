----------------------------- MODULE ProxyMain -----------------------------
(***************************************************************************)
(* The program (src/main.cpp): the main thread, from loading the           *)
(* configuration to the polling loop and the clean shutdown, and the       *)
(* handler of SIGINT and SIGTERM, which interrupts that same thread.       *)
(*                                                                         *)
(* The state of the bridge and its methods come from MatterBridge; main's  *)
(* steps call them.  A log line is two steps, for the sink's mutex is held *)
(* between them and a signal may arrive there; this includes the lines     *)
(* that Config::load and the client write about what they have read.       *)
(* Lines with nothing but network calls between them are one log label.    *)
(* The wait on shutdown_cv is split where a notification can be missed.    *)
(*                                                                         *)
(* A handler runs to its end before main goes on, and its own signal is    *)
(* blocked meanwhile, but the other signal may interrupt it: `frames' is   *)
(* the stack of the handlers that are active.                              *)
(***************************************************************************)
EXTENDS MatterBridge, Integers, Sequences

CONSTANTS
  Signal,       \* SIGINT and SIGTERM
  DeviceLists,  \* what get_devices may return: the created objects, in order
  MaxSignals    \* bound of the model: signals delivered

ASSUME MainAssumption ==
  /\ DeviceLists \subseteq Seq(Device)
  /\ \A list \in DeviceLists : Len(list) <= MaxAdds
  /\ MaxSignals \in Nat

VARIABLES
  pc,          \* where main is
  devices,     \* main's vector of devices
  index,       \* position of main's loop over them
  exitCode,
  cycled,      \* a sync cycle has ended (cycle > 0)
  lateCycles,  \* cycles begun after the shutdown was requested, counted up to 2
  running,     \* the atomic flag
  frames,      \* active handlers, the innermost last: its signal and where it is
  signals,     \* signals delivered so far
  sink,        \* the mutex of spdlog's sink
  woken,       \* a notification has reached the blocked main thread
  due          \* the poll interval of the current wait has elapsed

mainVars == <<pc, devices, index, exitCode, cycled, lateCycles>>
waitVars == <<woken, due>>
handlerVars == <<running, frames, signals>>
vars == <<bridgeVars, mainVars, waitVars, handlerVars, sink>>

\* The labels where main logs, each with the label that follows.
AfterLog ==
  [log_load |-> "load", log_config |-> "check_config", log_client |-> "client",
   log_discover |-> "discover", log_list |-> "read_list", log_reply |-> "store",
   log_none |-> "return", log_device |-> "create", log_init |-> "init",
   log_adding |-> "add", log_added |-> "add", log_start |-> "start",
   log_ready |-> "loop", log_cycle |-> "sync", log_warn |-> "wait",
   log_stop |-> "stop", log_done |-> "return", log_fail |-> "return"]

WaitLabel == {"pred", "block", "blocked"}
SyncLabel == {"sync", "log_reply", "store"}
LoopLabel == WaitLabel \cup SyncLabel \cup {"loop", "log_cycle", "log_warn", "wait"}
EndLabel == {"exited", "aborted"}
Label == LoopLabel \cup EndLabel \cup DOMAIN AfterLog
           \cup {"load", "check_config", "client", "discover", "read_list", "create",
                 "init", "add", "start", "stop", "return"}

\* The signal handlers are installed; the bridge is not constructed yet.
MainInit ==
  /\ BridgeInit
  /\ pc = "log_load"
  /\ devices = <<>>
  /\ index = 1
  /\ exitCode = 0
  /\ cycled = FALSE
  /\ lateCycles = 0
  /\ running = TRUE
  /\ frames = <<>>
  /\ signals = 0
  /\ sink = "free"
  /\ woken = FALSE
  /\ due = FALSE

\* Main moves on, and changes nothing else of its own.
Goto(label) ==
  /\ pc' = label
  /\ UNCHANGED <<devices, index, exitCode, cycled, lateCycles>>

\* The next turn of a loop over devices.
NextTurn(label) ==
  /\ pc' = label
  /\ index' = index + 1
  /\ UNCHANGED <<devices, exitCode, cycled, lateCycles>>
-----------------------------------------------------------------------------
(***************************************************************************)
(* Mutated definitions.                                                    *)
(***************************************************************************)
\* EveryDeviceBridged: the first device that cannot be added ends the loop.
AddThenBreak ==
  /\ pc = "add"
  /\ index <= Len(devices)
  /\ add_device(devices[index])
  /\ IF result'.code = "Success" THEN NextTurn("log_added") ELSE Goto("log_start")

\* MainTypeOK: a failure returns -1, which is no exit status.
FailMinusOne ==
  /\ pc' = "log_fail"
  /\ exitCode' = -1
  /\ UNCHANGED <<devices, index, cycled, lateCycles>>

\* OneLateCycle: the loop runs while the bridge does.
LoopOnBridge == pc = "loop" /\ Goto(IF running_ THEN "log_cycle" ELSE "log_stop")

\* ExitOnlyOnRequest: a timeout of the wait leaves the loop.
TimeoutStops == pc = "blocked" /\ due /\ Goto("log_stop")

\* ShutdownCompletes: main waits for the notification only (wait, not wait_for).
NoTimeout == pc = "blocked" /\ woken /\ Goto("loop")

\* PollsArePaced: any wakeup ends the wait (wait_for without its predicate).
SpuriousLeaves == pc = "blocked" /\ ~due /\ ~woken /\ Goto("loop")
-----------------------------------------------------------------------------
(***************************************************************************)
(* Main: steps on its own variables only.                                  *)
(***************************************************************************)
\* Log an error and return 1.
Fail ==
  /\ pc' = "log_fail"
  /\ exitCode' = 1
  /\ UNCHANGED <<devices, index, cycled, lateCycles>>

\* Config::load: a file that parses is printed before its values are looked at.
LoadConfig == pc = "load" /\ (Goto("log_config") \/ Fail)

CheckConfig == pc = "check_config" /\ (Goto("log_client") \/ Fail)

\* The constructor of ApiClient throws when curl cannot be set up, and main
\* does not catch.
CreateClient == pc = "client" /\ (Goto("log_discover") \/ Goto("aborted"))

\* get_devices: a reply is printed before it is read.
Discover == pc = "discover" /\ (Goto("log_list") \/ Fail)

ReadList ==
  /\ pc = "read_list"
  /\ \/ Fail
     \/ \E list \in DeviceLists :
           /\ devices' = list
           /\ pc' = IF list = <<>> THEN "log_none" ELSE "log_device"
           /\ UNCHANGED <<index, exitCode, cycled, lateCycles>>

\* Print the status and the profile of one device and create its object; the
\* requests may fail without consequence.
CreateDevice ==
  /\ pc = "create"
  /\ IF index < Len(devices)
       THEN NextTurn("log_device")
       ELSE /\ pc' = "log_init"
            /\ index' = 1
            /\ UNCHANGED <<devices, exitCode, cycled, lateCycles>>

AddDone == pc = "add" /\ index > Len(devices) /\ Goto("log_start")

\* In sync_state, a device has replied, and the client prints what it replied.
CycleReply == pc = "sync" /\ inSync /\ pending # {} /\ Goto("log_reply")

LoopTest == pc = "loop" /\ Goto(IF running THEN "log_cycle" ELSE "log_stop")

\* wait_for evaluates its predicate before it blocks and after every wakeup.
WaitPredicate == pc = "pred" /\ Goto(IF running THEN "block" ELSE "loop")

WaitNotified == pc = "blocked" /\ woken /\ Goto("pred")

WaitTimeout == pc = "blocked" /\ due /\ Goto("loop")

WaitSpurious == pc = "blocked" /\ ~due /\ ~woken /\ Goto("pred")

Control ==
  /\ \/ LoadConfig \/ CheckConfig \/ CreateClient \/ Discover \/ ReadList \/ CreateDevice
     \/ AddDone \/ CycleReply \/ LoopTest \/ WaitPredicate \/ WaitNotified \/ WaitTimeout
  /\ UNCHANGED <<waitVars, sink, bridgeVars>>
-----------------------------------------------------------------------------
(***************************************************************************)
(* Main: calls of the bridge.                                              *)
(***************************************************************************)
InitBridge ==
  /\ pc = "init"
  /\ initialize
  /\ IF result'.code = "Success" THEN Goto("log_adding") ELSE Fail

\* A device that cannot be added is skipped with a warning.
AddNext ==
  /\ pc = "add"
  /\ index <= Len(devices)
  /\ add_device(devices[index])
  /\ NextTurn("log_added")

StartBridge ==
  /\ pc = "start"
  /\ start
  /\ IF result'.code = "Success" THEN Goto("log_ready") ELSE Fail

\* The call of sync_state, and its loop up to the last device.
CycleBegin ==
  /\ pc = "sync"
  /\ SyncBegin
  /\ IF inSync'
       THEN /\ lateCycles' = IF running \/ lateCycles = 2 THEN lateCycles ELSE lateCycles + 1
            /\ UNCHANGED <<pc, devices, index, exitCode, cycled>>
       ELSE Goto("log_warn")

\* A poll without a reply fails.
CyclePoll ==
  /\ pc = "sync"
  /\ \E id \in pending : SyncPoll(id) /\ polled'[id] = "failed"
  /\ UNCHANGED mainVars

\* One with a reply fails if it cannot be parsed.
CycleStore == pc = "store" /\ (\E id \in pending : SyncPoll(id)) /\ Goto("sync")

CycleEnd ==
  /\ pc = "sync"
  /\ SyncReturn
  /\ pc' = "wait"
  /\ cycled' = TRUE
  /\ UNCHANGED <<devices, index, exitCode, lateCycles>>

StopBridge == pc = "stop" /\ stop /\ Goto("log_done")

\* Returning destroys the bridge, if main came as far as constructing it.
ReturnFromMain ==
  /\ pc = "return"
  /\ IF devices = <<>> THEN UNCHANGED bridgeVars ELSE Destroy
  /\ Goto("exited")

BridgeCall ==
  /\ \/ InitBridge \/ AddNext \/ StartBridge
     \/ CycleBegin \/ CyclePoll \/ CycleStore \/ CycleEnd \/ StopBridge \/ ReturnFromMain
  /\ UNCHANGED <<waitVars, sink>>
-----------------------------------------------------------------------------
(***************************************************************************)
(* Main: logging and the wait.                                             *)
(***************************************************************************)
LogEnter ==
  /\ pc \in DOMAIN AfterLog
  /\ sink = "free"
  /\ sink' = "held"
  /\ UNCHANGED <<mainVars, waitVars>>

LogLeave ==
  /\ pc \in DOMAIN AfterLog
  /\ sink = "held"
  /\ sink' = "free"
  /\ Goto(AfterLog[pc])
  /\ UNCHANGED waitVars

\* wait_for sets the deadline.
WaitEnter ==
  /\ pc = "wait"
  /\ due' = FALSE
  /\ woken' = FALSE
  /\ Goto("pred")
  /\ UNCHANGED sink

\* Only from here on does a notification find a waiter.
WaitBlock ==
  /\ pc = "block"
  /\ woken' = FALSE
  /\ Goto("blocked")
  /\ UNCHANGED <<due, sink>>

\* Main moves only when no handler is active.
Uninterrupted == frames = <<>> /\ UNCHANGED handlerVars

MainStep ==
  /\ Uninterrupted
  /\ \/ Control
     \/ BridgeCall
     \/ (LogEnter \/ LogLeave \/ WaitEnter \/ WaitBlock) /\ UNCHANGED bridgeVars

Spurious == Uninterrupted /\ WaitSpurious /\ UNCHANGED <<waitVars, sink, bridgeVars>>
-----------------------------------------------------------------------------
(***************************************************************************)
(* signal_handler, on top of whatever main was doing.                      *)
(***************************************************************************)
Top == frames[Len(frames)]
MoveTop(at) == frames' = [frames EXCEPT ![Len(frames)].at = at]

Deliver(s) ==
  /\ pc \notin EndLabel
  /\ signals < MaxSignals
  /\ \A i \in DOMAIN frames : frames[i].signal # s
  /\ frames' = Append(frames, [signal |-> s, at |-> "log"])
  /\ signals' = signals + 1
  /\ UNCHANGED <<running, sink, waitVars>>

\* The sink's mutex is not recursive: if the interrupted code holds it, the
\* handler waits for code that waits for the handler.
HandlerLogEnter ==
  /\ Top.at = "log"
  /\ sink = "free"
  /\ sink' = "held"
  /\ MoveTop("logging")
  /\ UNCHANGED <<running, waitVars>>

HandlerLogLeave ==
  /\ Top.at = "logging"
  /\ sink' = "free"
  /\ MoveTop("store")
  /\ UNCHANGED <<running, waitVars>>

HandlerStore ==
  /\ Top.at = "store"
  /\ running' = FALSE
  /\ MoveTop("notify")
  /\ UNCHANGED <<sink, waitVars>>

\* notify_all reaches main only if main is blocked; then the handler returns.
HandlerNotify ==
  /\ Top.at = "notify"
  /\ woken' = (woken \/ pc = "blocked")
  /\ frames' = SubSeq(frames, 1, Len(frames) - 1)
  /\ UNCHANGED <<running, sink, due>>

HandlerStep ==
  /\ frames # <<>>
  /\ HandlerLogEnter \/ HandlerLogLeave \/ HandlerStore \/ HandlerNotify
  /\ UNCHANGED <<signals, mainVars, bridgeVars>>

\* Time passes whatever the thread does.
DeadlinePasses ==
  /\ pc \in WaitLabel
  /\ ~due
  /\ due' = TRUE
  /\ UNCHANGED <<woken, sink, handlerVars, mainVars, bridgeVars>>
-----------------------------------------------------------------------------
MainNext ==
  \/ MainStep
  \/ Spurious
  \/ HandlerStep
  \/ DeadlinePasses
  \/ (\E s \in Signal : Deliver(s)) /\ UNCHANGED <<mainVars, bridgeVars>>

\* The thread is scheduled, every network call it makes has a timeout, and time
\* passes; nothing obliges a signal to come or a wakeup to be spurious.
MainSpec ==
  /\ MainInit
  /\ [][MainNext]_vars
  /\ WF_vars(MainStep)
  /\ WF_vars(HandlerStep)
  /\ WF_vars(DeadlinePasses)
-----------------------------------------------------------------------------
(***************************************************************************)
(* Properties.                                                             *)
(***************************************************************************)
Frame == [signal : Signal, at : {"log", "logging", "store", "notify"}]

\* The type of every variable of the program.
MainTypeOK ==
  /\ BridgeTypeOK
  /\ pc \in Label
  /\ devices \in DeviceLists \cup {<<>>}
  /\ index \in 1 .. Len(devices) + 1
  /\ exitCode \in {0, 1}
  /\ cycled \in BOOLEAN
  /\ lateCycles \in 0 .. 2
  /\ running \in BOOLEAN
  /\ frames \in Seq(Frame)
  /\ signals \in 0 .. MaxSignals
  /\ sink \in {"free", "held"}
  /\ woken \in BOOLEAN
  /\ due \in BOOLEAN

\* The handler on top waits for the sink, which is held by code it interrupted.
Stuck == frames # <<>> /\ Top.at = "log" /\ sink = "held"

\* In the polling loop the bridge runs, so sync_state is never refused, and every
\* discovered device is bridged, although some could not be added (duplicates).
EveryDeviceBridged ==
  pc \in LoopLabel =>
    /\ running_
    /\ DOMAIN devices_ = {IdOf[devices[i]] : i \in DOMAIN devices}

\* Once the handler has stored the shutdown request, at most one more cycle of
\* polling begins: the one whose loop test came before the request.
OneLateCycle == lateCycles <= 1

\* With devices to serve, the program ends with exit code 0 only if a signal asked
\* for it, and then it leaves behind neither a running bridge nor a held sink.
ExitOnlyOnRequest ==
  pc = "exited" /\ exitCode = 0 /\ devices # <<>> =>
    ~running /\ ~running_ /\ ~inSync /\ sink = "free"

\* While no shutdown is requested, a cycle after the first begins only when the
\* poll interval has elapsed: no wakeup, spurious or not, shortens it.
PollsArePaced == pc = "log_cycle" /\ cycled /\ running => due

\* Once the request is stored the program ends, unless a second signal's handler
\* deadlocks on the sink.
ShutdownCompletes == ~running ~> (pc \in EndLabel \/ Stuck)

\* The program in the terms of Service: it serves while the bridge runs, and has ended
\* once main can only return.
Leaving == {"log_none", "log_fail", "log_done", "return"} \cup EndLabel
Phase == IF running_ THEN "serving" ELSE IF pc \in Leaving THEN "ended" ELSE "starting"
Served == IF running_ THEN DOMAIN devices_ ELSE {}
Remaining == IF inSync THEN pending ELSE {}

Promise == INSTANCE Service WITH
  Id <- DeviceId, phase <- Phase, served <- Served, remaining <- Remaining,
  requested <- ~running, grace <- lateCycles = 0

\* Main, the bridge and the handlers together keep the promise of Service.
ServiceSpec == Promise!Spec

\* A signal received in the polling loop ends the program ("Press Ctrl+C to stop.").
CtrlCStops == (frames # <<>> /\ pc \in LoopLabel) ~> pc = "exited"

\* Main is not asleep with nothing to wake it before the deadline while a shutdown
\* is requested ("Wait for either timeout or shutdown signal").
ShutdownEndsWait == pc = "blocked" /\ ~running /\ frames = <<>> => woken \/ due
=============================================================================
