# ThinQ proxy: verification project

TLA+ models of the ThinQ to Matter bridge in this repository, the TLC
configurations that check them on small instances, and theorems about them that
the TLA+ proof system checks for every value of the constants.  `PROJECT.json`
lists components, runs, findings, hazards and theorems, and says for every
definition which source lines it stands for.  Paths such as `src/src/main.cpp`
are the repository's `src/main.cpp` below a directory `src/`.

## 1. Inventory

### Components and their state

| Component | Code | State | Operations |
|---|---|---|---|
| Program and signal handling | `src/src/main.cpp` | `running` (atomic), `shutdown_mutex`, `shutdown_cv`; the vector of devices; the cycle number; implicitly the mutex of spdlog's sink | `main`; `signal_handler` for SIGINT and SIGTERM |
| Matter bridge | `src/src/matter/bridge.cpp` | `initialized`, `running_`, `devices_`, `device_endpoints_`, `next_endpoint_id_` (uint16_t) | `initialize`, `add_device`, `remove_device`, `start`, `stop`, `sync_state`, the destructor |
| ThinQ API client | `src/src/thinq/api_client.cpp` | one curl easy handle, whose options stay set from call to call; the timeout | `get_devices`, `get_device_status`, `get_device_profile`, `send_command`; `http_get`, `http_post` |
| Device objects | `src/src/thinq/device.cpp`, `src/src/devices/` | `status_`; the settings a setter caches | `update_status`, `send_command`, eight setters, `parse_status` (empty) |
| Configuration | `src/src/config/config.cpp` | the file | `load`, `is_valid`, `save` |
| Discovery and device types | `api_client.cpp`, `types.hpp` | none | `parse_device_type`, `extract_device_type`, `to_device_infos` |
| Message ids | `api_client.cpp` | none | `generate_message_id` |
| Authentication, errors | `auth.cpp`, `error.hpp` | immutable | accessors |
| Example program | `src/examples/basic_bridge.cpp` | | a shorter `main` |

### How they interact

`main` loads the configuration, builds one `ApiClient` and lets it discover the
devices, builds one `Device` per answer (all with the same client), adds them to
the `MatterBridge`, starts it, and then repeats: `sync_state`, which calls
`update_status` on every device, which calls `get_device_status` on the client;
then a wait of one poll interval on `shutdown_cv`.  A signal interrupts the
**same thread** wherever it is, a log call included; its handler logs, clears
`running` and notifies the condition variable.

There is one thread.  All concurrency is between that thread and the handlers
that interrupt it, and between the client and the cloud.

### What is hard here

* the handler against main: a log call of main holds the sink's mutex; the
  notification may fall where nobody waits; a handler may interrupt the handler
  of the other signal (`main.cpp:57-61`, `172-185`);
* one curl handle for all devices and both methods: what a call leaves in it is
  seen by the next (`api_client.cpp:338-457`);
* requests and answers that are lost, refused or garbled, while an object
  remembers what it was set to;
* two maps and a 16-bit counter that must stay consistent over any sequence of
  adds and removes (`bridge.cpp:76-138`);
* one device of many that fails, in `add_device`'s loop and in `sync_state`'s;
* the configuration file, truncated before it is written, and written without a look
  at the stream, while a program may be loading it (`config.cpp:116-199`);
* replies in two formats, whose readers ignore what they do not know and take what is
  missing for empty (`api_client.cpp:470-486`); a type that two functions read from
  different fields (`136-159`, `173-184`);
* a text that is edited while it is searched (`device.cpp:44-50`), and a buffer of 32
  bits through which 128 are shifted (`api_client.cpp:68-80`).

### What makes each component correct

* Program: every discovered device is bridged; polls are paced by the interval;
  a shutdown request is followed by at most one more cycle and by a clean exit;
  no exit without a request.  Together: the abstract `Service`.
* Bridge: the maps agree; the life cycle is respected; a sync reaches every
  device; a controller can rely on endpoints (the abstract `EndpointRegistry`).
* Client and objects: a request carries only what its own call prepared; a status
  is about the object's own device; a failed call changes nothing; a cached
  setting is what the appliance was last told.
* Configuration: what loads is the last text written as a whole, never a mixture; a
  save that reports success can be loaded; only a save that did not succeed leaves
  an unreadable file; what loads has credentials the client accepts.
* Calls: a list is read whole or not at all; the two readers of a type agree; a
  parameter that is sent arrives as it was given; a message id keeps every bit of its bytes.

## 2. Modules

| Module | Models | Builds on |
|---|---|---|
| `Maps` | `std::map` with insertion and erasure | |
| `MapLemmas` | five facts about `Maps`, proved | `Maps`, `TLAPS` |
| `EndpointRegistry` | abstract: what the bridge promises about endpoints | `Maps` |
| `MatterBridge` | the class `MatterBridge` | `Maps`, instance of `EndpointRegistry` |
| `MatterBridgeProofs` | theorems about `MatterBridge` | `MatterBridge`, `MapLemmas` |
| `ProxyMain` | `main` and `signal_handler`, calling the bridge's methods | extends `MatterBridge` |
| `ProxyMainProofs` | theorems about `ProxyMain` | `ProxyMain`, `MatterBridgeProofs` |
| `Service` | abstract: what the program promises to those it serves | |
| `ServiceProofs` | `ProxyMain` implements `Service` | `ProxyMainProofs` |
| `ThinQClient` | the shared handle of `ApiClient`, the setters of the device objects, the cloud | `Maps` |
| `ThinQClientProofs` | theorems about `ThinQClient` | `ThinQClient`, `MapLemmas` |
| `ConfigStore` | `Config::load`, `save`, `is_valid`, and the start of the program | |
| `ConfigStoreProofs` | theorems about `ConfigStore` | `ConfigStore` |
| `Places` | places in a sequence: how many of a set there are up to one | |
| `MessageId` | `generate_message_id` | |
| `CommandText` | the escaping in `Device::send_command`, and JSON strings | `Places` |
| `DeviceReplies` | pure: what the client reads out of replies | |
| `ApiCalls` | calls from their arguments to their results, and one device object | extends `MessageId`, `CommandText`, `DeviceReplies` |
| `CallTextProofs` | lemmas about places, ids and escaped texts | `CommandText`, `MessageId` |
| `ApiCallsProofs` | theorems about `ApiCalls` | `ApiCalls`, `CallTextProofs` |
| `MCMatterBridge`, `MCProxyMain`, `MCThinQClient`, `MCConfigStore`, `MCApiCalls` | values for the constants | |

**MatterBridge.**  Variables carry the names of the class's members; `alive`,
`inSync`, `pending`, `polled`, `result` and `adds` stand for the life of the
object, the loop of `sync_state`, the last method that returned and the number of
successful adds.  Every method that changes state is one action with one disjunct per return, except
`sync_state`, whose loop is three (`SyncBegin`, `SyncPoll`, `SyncReturn`), because
it waits for the network once per device and the program can be interrupted there.
`next_endpoint_id_++` is taken modulo `EndpointModulus`, which is 2^16 in the code.
The loop of `sync_state` visits the devices in any order; `std::map` has one, and
no property depends on it.

**ProxyMain** composes the bridge with main and the handler: main's steps that call
the bridge are conjunctions with the bridge's actions, so every behaviour of the
program is one of the bridge (a theorem, `ProgramUsesBridge`).  `pc` is where main
is, `frames` the stack of active handlers.  A log line is two steps with the sink
held in between; lines with nothing but network calls between them are one label.
`Config::load` prints the file it has parsed, before it looks at the values, and the
client prints every reply, in the discovery (`log_list`) and, within `sync_state`, in
each poll that got one (`CycleReply`, `log_reply`, `CycleStore`; a poll without a reply
is `CyclePoll`): the sink is held there too.
`wait_for` is evaluated as its definition says: predicate, block, and after a
wakeup the predicate again; `WaitBlock` is the instant from which a notification
finds a waiter.  A handler runs to its end before main goes on, its own signal is
blocked meanwhile and the other signal may interrupt it.

**ThinQClient.**  A call is three steps: the options of `handle` are set
(`http_get`, `http_post` with the call's operation), `Perform` sends the request
and lets the cloud act, and `Return` turns the reply into an error code and lets
the object store what it stores; then the call's locals are gone, so that what
still refers to them is `"dangling"`.  `appliance` is what the cloud was told by
this program and `doubt` the settings whose last command was not acknowledged;
both exist to state properties.  Temperatures count half degrees, so that the cut
to `int` is visible.

**Service.**  The promise of the whole program in six actions: it serves one set of
devices, not empty, until it ends; it polls in cycles that come to every device; it
ends only on request, between two cycles, after at most one cycle more.  `Phase`,
`Served` and `Remaining` in `ProxyMain` are the refinement mapping.

**ConfigStore.**  `save` is three steps, because the constructor of `std::ofstream`
empties the file before anything is serialized: `SaveOpen`, then one of the ends
(`SaveWrite`, `SaveToFullDisk`, `SaveCannotSerialize`, `SaverKilled`).  A text is a
function from the keys it has to values, which a user may leave out, misspell or
mistype; a part of a text is `"broken"`.  `load` reads the file in one step.
`latest` is the last text the file held as a whole, for the properties.

**MessageId, CommandText, DeviceReplies, ApiCalls.**  `MessageId` is one step per
byte, with the width of the buffer as a constant; `CommandText` is one step per quote
found, in the text being edited; `DeviceReplies` translates the pure functions, with
JSON objects as functions from keys to values and texts of types given by the keywords
found in them.  `ApiCalls` puts them in the order of a call: escape, headers with the
id, the check of the body, the request, the reply, and for the discovery one step per
entry of the list; then the device object is made, polled and sent commands.  It
leaves the handle and the failures of the transport to `ThinQClient`, which leaves
the contents of replies to `ApiCalls`.

## 3. Runs

| Run | Expected | Question |
|---|---|---|
| `bridge` | pass | do the maps, the life cycle, the sync loop and the endpoint registry survive any sequence of calls? |
| `endpoint_wrap` | violation | is endpoint 0 never given to a device? |
| `program` | pass | with signals everywhere, are devices bridged, polls paced, and is the shutdown clean, prompt and certain? |
| `ctrl_c` | violation | does one Ctrl+C always end the program? |
| `lost_wakeup` | violation | does a signal always end the wait? |
| `client` | pass | does a shared handle keep calls apart, and do objects follow their appliances? |
| `get_after_post` | violation | is a GET still a GET after a command? |
| `poll_refreshes` | violation | does a successful poll correct what an object remembers? |
| `config` | pass | does a configuration survive saves that fail, are killed or meet a start? |
| `api_calls` | pass | do ids, parameters, lists and types come through the conversions of a call? |
| `devices_lost` | violation | does a successful discovery list every device that was sent? |
| `dishwasher` | violation | is a dishwasher taken for one? |

### Bounds, and why they are enough

* `bridge`: two ids, three objects (two of one id, so that duplicates are refused),
  endpoint ids of 3 bits, seven successful adds.  Seven is one less than the number
  of endpoint values: the counter reaches its wrap to 0, which is never issued.
  Two ids show every relation between a device and another; removal and re-adding
  happen up to six times.  About 35 000 states.
* `endpoint_wrap`: 2-bit endpoints and five adds; the fourth add issues 0.  What it
  shows needs 65 536 successful adds in the code.
* `program`: discovery finds nothing, one device, two, or a device that is listed
  twice before another; two signals, one of each kind, so that one handler may be
  inside the other.  A third signal would find both handlers active or `running`
  already cleared.  `lateCycles` stops counting at 2.  About 18 000 states, some of
  them in loops of any length, for the polling loop itself is not bounded.
* `client`: two devices of different types with one setting each, a positive and a
  negative temperature with a fraction; two devices are enough for one to disturb
  the other, and calls are not bounded.  About 2.5 million states.  The switches
  (`power_on_`, `state_`) are in the instance of `get_after_post` and
  `poll_refreshes`.

* `config`: eight configurations on both sides of every limit of `is_valid`, nine texts
  (a key too many, too few, of another type, out of its width, an unknown country).
  One save and one program at a time, each any number of times.  TLC's integers have
  32 bits, so `UInt32Max` is 2^31 - 1 here; no value in between is of interest, for
  the passcodes that are accepted are below 10^8.  About 12 000 states.
* `api_calls`, `devices_lost`, `dishwasher`: ids of 4 bytes in a buffer of 16 bits, so that it
  overflows from the third byte as the code's does from the fifth, and 2 bits remain
  at the end, as of the code's 128; the stamped bytes are the second and the third.
  Values of up to two symbols of every kind, of three that are quotes or not, and of
  four quotes: quotes at the beginning, at the end, and next to each other.  Some 25
  entries, each with another place for its type or another flaw, in lists of up to
  two.  About 670 000 states.

`api_calls`, `devices_lost` and `dishwasher` check for deadlock: a call always comes to its end.
The other runs set `CHECK_DEADLOCK FALSE`: a program that failed to start and a file
that cannot be written may be the end of `ConfigStore`; a bridge is destroyed, the program exits, hangs
in its handler or aborts on an exception, and a client may crash on post fields that
no longer exist.

### Fairness

`MainSpec` has weak fairness of `MainStep`, `HandlerStep` and `DeadlinePasses`: the
thread is scheduled, each network call returns within the 30 s that
`main.cpp:103` sets for `CURLOPT_TIMEOUT_MS`, and time passes, so the deadline of
`wait_for` comes.  Nothing is assumed about signals or spurious wakeups.  A thread
that waits for the sink's mutex cannot take its step, and fairness does not help it.
`MatterBridge`, `ThinQClient`, `ConfigStore` and `ApiCalls` have no liveness property
and assume no fairness.

### Assumptions of the models

* Signals are delivered to the main thread; there is no other that runs code of the
  program.  A system call that a signal interrupts is resumed or retried.
* The sink's mutex stands for the locks taken by a log call that are not reentrant.
* A request the cloud refuses has no effect; one without an answer, or with an answer
  that cannot be parsed, may or may not have had one.
* The cloud is modelled from how the client uses it (`Apply`, `Answer` are marked
  external).  Changes made at the appliance by others are left out of `appliance`:
  they would only make the objects less accurate.
* A raw `send_command` of a caller does not touch a setting an object remembers.
* A request that goes out as a POST by mistake reads post fields that may still be in
  memory, or crash (`PerformCrashes`); it never counts as a command.

* One save at a time; an editor replaces the file, and not while a save is under way.
  The text of a save reaches the file at once (it is below the size of a stream's
  buffer) or not at all.  A killed process is modelled, a loss of power is not.
* The sections `thinq` and `matter` of the file are flattened: their keys are distinct.
* glaze as configured in the code: `read_json` refuses unknown keys, the relaxed
  options ignore them; a missing key leaves its default; a value of another type or
  out of range fails.
* A reply to `get_devices` is of one format, and a legacy one has no `response`.  Where
  the reader wants an array or a boolean, a value is one or is ill-typed (`ReplyTypes`).
* The name of a type contains no other one that `parse_device_type` looks for, but
  `DISHWASHER`, which contains `WASHER` (`RepliesAssumption`).
* A command has one parameter, whose key needs no escaping.  JSON strings are read as
  the standard says: `\n` behind a backslash is another symbol, an unknown letter
  behind it is an error, and so is a control character as it stands (`"control"`, a line
  end or a tab in a value).

### Properties

`bridge`: `BridgeTypeOK`; `MapsAgree`; `LifecycleOrder`; `SyncReachesEveryDevice`;
`RegistrySpec`, the abstract specification under the refinement mapping
`endpointOf <- device_endpoints_`, `issued <- 1 .. adds`.

`program`: `MainTypeOK`; `EveryDeviceBridged` (start-up is complete in spite of
refused devices); `OneLateCycle`; `ExitOnlyOnRequest` (neither a running bridge nor a
held sink is left behind); `PollsArePaced`;
`ShutdownCompletes`, under fairness, with the exception the code really has
(`Stuck`: a handler waits for a sink that the code it interrupted holds); `ServiceSpec`,
the abstract specification under the mapping of `ProxyMain`.

`client`: `ClientTypeOK`; `RequestPrepared`; `CacheFollowsAppliance`; `StatusIsOwn`;
`FailedCallChangesNothing`, an action property.

`config`: `ConfigTypeOK`; `SaveThenLoad`; `UnreadableExplained`; `CredentialsAccepted`
(`ApiClient`'s constructor throws for empty credentials, and `main` does not catch: the
validation of the file is what keeps that from happening); `LoadsLatestText`, an action
property.  `SaveThenLoad` has two exceptions because the code has them: `save` does not
ask whether the disk was full, nor whether the configuration is valid.

`api_calls`: `ApiTypeOK`; `MessageIdFaithful` (the letters are the bits of the bytes);
`EscapedSoFar` (the invariant of the escape loop); `ParameterArrives`, for values
without a backslash, which the loop does not escape: one that is sent arrives, and only a
control character has one refused;
`ListFaithful`, in the loop of `to_device_infos`; `TypesReadBack`, for every type but the
dishwasher's (`DishwasherReadBack`, violated); `PollKeepsType`, an action property, for entries with one text of a type.

Each has a mutant in `PROJECT.json`: a definition changed as a plausible slip would
change it, under which the run finds the property violated.

## 4. What the violations show

1. `endpoint_wrap`: the endpoint counter is never checked and wraps to the endpoint
   that the comment at `bridge.cpp:117` reserves, then to endpoints in use.
2. `ctrl_c`: `signal_handler` logs.  If the signal arrives inside a log call of main,
   the thread waits for the mutex it holds, before it clears `running`.
3. `lost_wakeup`: the notification can fall between main's predicate and its wait;
   main then sleeps until the poll interval is over.  The shutdown is late, not lost:
   `ShutdownCompletes` holds.
4. `get_after_post`: `http_get` never sets `CURLOPT_HTTPGET`, so after the first
   command every request of the handle is a POST, with post fields that refer to a
   string that no longer exists.  `main` itself never sends a command, so this is met
   by users of the library.
5. `poll_refreshes`: `update_status` never touches the cached settings
   (`parse_status` is empty and is not called).
6. `devices_lost`: the legacy format is tried only when the current one fails, but a
   reply without `response` does not fail: it is a current reply with no device.  The
   legacy branch is reached only by a current list with an ill-typed value, in which it
   finds nothing.  Both are reported as success, and `main` ends with "No devices found".
7. `dishwasher`: `parse_device_type` looks for `WASHER` before `DISHWASHER`, which contains
   it, so the line for the dishwasher (`api_client.cpp:128`) is never reached and a
   dishwasher is a washer.

The models also show three things that no run of their own is about, because a passing
property has them as its exceptions:

* `Config::save` does not look at the stream after writing, and a full disk, which leaves
  an empty file, is reported as success (`SaveToFullDisk`; the exception of `SaveThenLoad`);
* the "basic escaping" of `device.cpp:44` leaves backslashes and control characters as they
  are.  The two symbols `\n` of a value are read by the cloud as a line end; an unknown
  letter behind a backslash, or a control character, makes the client refuse the command
  (the exceptions of `ParameterArrives`);
* a float target is cut to a whole number for the command and cached uncut (`Sent`, up to
  which `CacheFollowsAppliance` compares).

## 5. What is proved

`MatterBridgeProofs` proves, for every set of devices and every endpoint width:

* `TypeCorrect`, `MapsAlwaysAgree`, `LifecycleAlwaysOrdered`, `SyncAlwaysReaches`:
  `BridgeSpec => []P` for the four invariants of the run.  `SyncReachesEveryDevice`
  is not inductive: `LoopCovers` adds that, while the loop runs, what was polled and
  what is pending are together the bridged ids.  The lemma `StepEffect` sorts the steps:
  a step is `Quiet` (a stutter or a refused call) or one of nine effects.
* `EndpointZeroReserved`, `EndpointsNeverShared` and `BridgeImplementsRegistry`, from
  the assumption `MaxAdds < EndpointModulus` (fewer successful adds than endpoint
  values).  The invariant is `EndpointInv`: the counter is `adds + 1` modulo the
  width, and the endpoints in use are among `1 .. adds` and distinct.  Without it the
  refinement cannot tell that a new endpoint was never issued.  `endpoint_wrap` shows
  that the assumption is needed.

`ProxyMainProofs` proves about the program:

* `ProgramUsesBridge`: every step of the program is a step of the bridge or leaves it
  alone; so the bridge's theorems hold of the program, whatever the signals do.
  `ProgramKeepsRegistry` is one of them: `MainAssumption` bounds the length of every
  list by `MaxAdds`.
* `PollsAlwaysPaced`, from `PaceInv`: main comes back to the loop test, after a first
  cycle and with `running` set, only when the interval is over.
* `AtMostOneLateCycle`, from `LateInv`: once a late cycle has begun, main is not before
  the beginning of another, and the loop test finds `running` cleared, which is never
  set again.

* `AllDevicesBridged`, from `BridgedInv`: at every label of main, which ids are bridged
  (before the start, those of the devices before `index`), and that the bridge is
  initialized, or runs.  `EveryDeviceBridged` alone is not inductive, for it says
  nothing of the loop that adds.
* `ExitsOnlyOnRequest`, from `EndInv`: why main is at each label on the way out; and
  `SinkInv`: a held sink is held by a log line of main or by a handler that logs, of which
  there is none when main returns.
* `MainTypeCorrect`: also for the stack of handlers, of any depth.

`ServiceProofs` proves `ProgramImplementsService`: every step of main, of a handler or of
the clock is a step of `Service` or is not seen by it.  It needs nearly everything above
(`BridgedInv`, `LateInv`, `EndInv`, the bridge's `LifecycleOrder` and type), and
`ServeInv`, that the bridge runs exactly from `start` to `stop` and with a device.

`ThinQClientProofs` proves, for any devices, settings and values:

* `FailuresChangeNothing`, of every step, without an invariant;
* `RequestsArePrepared`, from `HandleInv`: between the beginning of a call and its
  request the handle holds that call's options.  Options of earlier calls stay in it
  (`GetsAreGets` is violated); what this shows is that those a request depends on do not;
* `StatusIsAlwaysOwn`, from `ReplyInv`: the reply is about the device of the call;
* `CacheAlwaysFollows`, from `CacheInv`: between the reply to a command and its return the
  appliance already holds what the object is about to store, and every other setting
  that is not in doubt agrees;
* `ClientTypeCorrect`, together with all of these.

`ConfigStoreProofs` proves, for any configurations and texts:

* `RoundTrip`: the text of a valid configuration loads as that configuration;
* `StoreHolds`, the inductive invariant: a whole file is `latest` (`FileInv`), the result
  of the last save says what is in the file (`SaveInv`), what is loaded was validated
  (`LoadInv`);
* from it `ConfigTypeCorrect`, `LatestTextIsLoaded`, `SavedIsLoaded`,
  `UnreadableIsExplained` and `CredentialsAreAccepted`.

`ApiCallsProofs` proves, for lists and values of any length, any number of bytes and
whatever the cloud replies:

* `Faithful`: the letters of an id are the bits of its bytes.  `MessageIdFaithful` does not
  say what is in the buffer; `Held` adds that its last `bits` bits are those of the bytes that
  have no letter yet.  The buffer may be as short as 12 bits (`BufferModulus` is a multiple of
  4096): six bits taken from it never reach further back.
* `Escaping`: before `pos` the value is escaped once, and from `pos` on it is as it was, at
  every turn of the loop, for every place of the quotes (`EscapeNextKeeps`).
* `Arrival`: such a text, if the value has no backslash, is read back as the value or, if
  the value has a control character, is not JSON.  A reader goes through the text symbol by
  symbol; lemma `EscapedIsRead` follows it by induction over the places of the value: after
  place `i` it has read `i` symbols, outside of an escape, or it has met a control character
  and failed (`Spoilt`).
* `Listings`: at every turn the devices are those of the entries passed, in order.
* `ReadBack` (for every type but the dishwasher's) and `PollsKeepType`: what the two readers of a type do with every entry, from
  the order in which `parse_device_type` looks for its keywords.  The action property needs
  `ObjectPart`: an object holds the device that was made of its entry.
* `TypeCorrectness`: in particular every listed device has an id, a name and a known type.
* `Invariance`, on which they rest: the invariant `CallInv` has a part for the id
  (`IdPart`), the value (`TextPart`), the call in progress (`OpPart`), the listing
  (`ListPart`) and the object (`ObjectPart`).  `ListFaithful` and `ParameterArrives` are not
  inductive: the first does not say that a legacy list, where it is read at all, has
  no entry to come to, nor what devices are made of, and the second says nothing before
  the headers are made.

The lemmas are in `CallTextProofs`.  The definitions count with `Rank`, how many places of
a set there are up to one, and not with folds or filters over a sequence, which the prover
cannot unfold: the entry at place `j` is device `Rank(Named, j)`, and symbol `j` of
a value is at `j + Rank(Quotes, j)` of the escaped text.

Constants are constrained only by the named assumptions of the modules
(`BridgeAssumption`, `MainAssumption`, `ConfigAssumption`, `ClientAssumption`,
`IdAssumption`, `ValueAssumption`, `RepliesAssumption`, `OneFormat`, `ReplyTypes`).

Only model-checked: `ShutdownCompletes` (liveness under fairness is out of the prover's
reach), and the violations, which are counterexamples.  Every other property of a passing
run is a theorem.

## 6. What is not modelled

* The Matter SDK: the code has placeholders under `HAVE_MATTER_SDK`.
* The texts: log lines, JSON layout, URLs, headers.  A URL is a path of two names, without
  the host that `get_endpoints` takes from the country.
* The const getters of `MatterBridge` and of the device objects: they change no state.
* `print_device_status` and `print_device_profile` of the start-up: two requests whose
  failure has no consequence, one step of `ProxyMain`; as requests they are in
  `ThinQClient`.
* Authentication but for `is_valid` (an immutable record), the example program (a shorter
  main), build files and documents.
* An object without a client, `last_update_ms`, commands of several parameters, the
  construction of a client for a second time (`curl_global_init` runs once), moves.
* `reportable` is computed in `DeviceReplies`, and no property is about it: nothing in the
  code reads it.
* Two programs, two threads that share a client, two saves at the same time: nothing in
  the repository does so.  Loss of power in a save.

## 7. Plan

1. Done: the modules and theorems above.  What the inventory lists is modelled, but for
   what section 6 names, and every property of a passing run but the one of liveness is
   proved.
2. Possible: `ApiCalls` and `ThinQClient` in one module, so that the contents of replies
   meet lost ones; the two share the object and its status, and no property found so far
   needs both.
3. Possible: `Service` with a wish for liveness, implemented but for `Stuck`.
