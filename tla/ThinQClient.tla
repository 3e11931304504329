---------------------------- MODULE ThinQClient ----------------------------
(***************************************************************************)
(* The ThinQ side: one ApiClient (src/thinq/api_client.cpp) and the device *)
(* objects that share it (src/thinq/device.cpp, src/devices).              *)
(*                                                                         *)
(* All calls go through one curl easy handle.  Its options stay set from   *)
(* call to call, and curl does not copy what the header list, the post     *)
(* fields and the response pointer refer to: those are locals of the call. *)
(* A call is three steps: the options are set, the request is performed,   *)
(* and the reply is turned into a result and stored by the device object.  *)
(*                                                                         *)
(* A device object remembers what it was set to, and the type reported by  *)
(* its last poll.  The cloud may lose a request, refuse it, apply it, and  *)
(* lose or garble its reply.                                               *)
(***************************************************************************)
EXTENDS Integers, Sequences, Maps

CONSTANTS
  DeviceId,     \* the devices, each with one object
  TypeOf,       \* TypeOf[d]: "AirConditioner", "Washer" or "Refrigerator"
  Settings,     \* Settings[d]: the settings of d that are used
  Temperature   \* temperatures asked for, in half degrees

SettingsOfType ==
  [AirConditioner |-> {"target_temp_", "power_on_", "mode_"},
   Washer         |-> {"state_"},
   Refrigerator   |-> {"fridge_temp_", "freezer_temp_"}]

TemperatureSetting == {"target_temp_", "fridge_temp_", "freezer_temp_"}

ASSUME ClientAssumption ==
  /\ TypeOf \in [DeviceId -> DOMAIN SettingsOfType]
  /\ \A d \in DeviceId : Settings[d] \subseteq SettingsOfType[TypeOf[d]]
  /\ Temperature \subseteq Int

VARIABLES
  handle,     \* the options of the curl handle
  stage,      \* "idle", "perform", "return", or "crashed"
  call,       \* the call in progress
  reply,      \* what the cloud answered
  cache,      \* cache[d][s]: the field s of the object of d
  status,     \* status[d]: status_.type of the object of d
  appliance,  \* appliance[d][s]: what the appliance was set to by this program
  doubt,      \* settings whose last command was not acknowledged
  result      \* the last call that returned, its device and its error code

clientVars == <<handle, stage, call, reply>>
deviceVars == <<cache, status>>
vars == <<clientVars, deviceVars, appliance, doubt, result>>

\* The values a setter can be given: the argument, or the method called.
ValuesOf(s) ==
  CASE s \in TemperatureSetting -> Temperature
    [] s = "power_on_" -> {"on", "off"}
    [] s = "mode_" -> {"cool", "heat", "dry", "fan", "auto"}
    [] s = "state_" -> {"Running", "Paused", "Idle"}

InitialValue ==
  [target_temp_ |-> 48, power_on_ |-> "off", mode_ |-> "cool", state_ |-> "Idle",
   fridge_temp_ |-> 8, freezer_temp_ |-> -36]

\* std::to_string(static_cast<int>(temp)): half degrees are cut off towards zero.
Whole(t) == IF t >= 0 THEN 2 * (t \div 2) ELSE -2 * ((-t) \div 2)

\* The value a command carries.
Sent(s, v) == IF s \in TemperatureSetting THEN Whole(v) ELSE v

NoCall == [op |-> "none", device |-> "none", setting |-> "none", value |-> "none"]
NoReply == [kind |-> "none", type |-> "Unknown"]

GetOp == {"get_devices", "get_device_status", "get_device_profile", "update_status"}
PostOp == {"send_command", "set"}
Rejection == {"unauthorized", "notFound", "failure"}

Init ==
  /\ handle = [method |-> "GET", url |-> <<>>, body |-> "unset", headers |-> "unset",
               response |-> "unset"]
  /\ stage = "idle"
  /\ call = NoCall
  /\ reply = NoReply
  /\ cache = [d \in DeviceId |-> [s \in Settings[d] |-> InitialValue[s]]]
  /\ status = TypeOf
  /\ appliance = [d \in DeviceId |-> EmptyMap]
  /\ doubt = {}
  /\ result = [op |-> "none", device |-> "none", code |-> "Success"]
-----------------------------------------------------------------------------
(***************************************************************************)
(* Mutated definitions.                                                    *)
(***************************************************************************)
\* RequestPrepared: http_get does not point the handle to its own response.
GetKeepsResponse(url) ==
  handle' = [handle EXCEPT !.url = url, !.headers = "live"]

\* StatusIsOwn: the URL is set by the first request only.
GetKeepsUrl(url) ==
  handle' = [handle EXCEPT !.url = IF @ = <<>> THEN url ELSE @, !.headers = "live",
                           !.response = "live"]

\* CacheFollowsAppliance: a setter does not look at send_command's result.
StoreUnchecked(code) ==
  /\ cache' = IF call.op = "set"
                THEN [cache EXCEPT ![call.device] = Store(@, call.setting, call.value)]
                ELSE cache
  /\ status' = IF call.op = "update_status" /\ code = "Success"
                 THEN [status EXCEPT ![call.device] = reply.type]
                 ELSE status

\* FailedCallChangesNothing: update_status stores the status of a failed request.
StoreEmptyStatus(code) ==
  /\ cache' = IF call.op = "set" /\ code = "Success"
                THEN [cache EXCEPT ![call.device] = Store(@, call.setting, call.value)]
                ELSE cache
  /\ status' = IF call.op = "update_status"
                 THEN [status EXCEPT ![call.device] = reply.type]
                 ELSE status

\* ClientTypeOK: a request that is lost is reported by a code the callers do not know.
CodeTimeout ==
  CASE reply.kind = "ok" -> "Success"
    [] reply.kind = "garbled" -> "ParseError"
    [] reply.kind = "lost" -> "Timeout"
    [] reply.kind = "unauthorized" -> "AuthenticationFailed"
    [] reply.kind = "notFound" /\ call.op \in GetOp -> "DeviceNotFound"
    [] OTHER -> "ApiError"
-----------------------------------------------------------------------------
(***************************************************************************)
(* Setting the options of the handle.                                      *)
(***************************************************************************)
\* The method is not among the options http_get sets.
http_get(url) ==
  handle' = [handle EXCEPT !.url = url, !.headers = "live", !.response = "live"]

http_post(url) ==
  handle' = [method |-> "POST", url |-> url, body |-> "live", headers |-> "live",
             response |-> "live"]

Begin(c) ==
  /\ stage = "idle"
  /\ stage' = "perform"
  /\ call' = c
  /\ reply' = NoReply
  /\ UNCHANGED <<deviceVars, appliance, doubt, result>>

get_devices ==
  /\ Begin([NoCall EXCEPT !.op = "get_devices"])
  /\ http_get(<<"devices">>)

get_device_status(d) ==
  /\ Begin([NoCall EXCEPT !.op = "get_device_status", !.device = d])
  /\ http_get(<<d, "state">>)

get_device_profile(d) ==
  /\ Begin([NoCall EXCEPT !.op = "get_device_profile", !.device = d])
  /\ http_get(<<d, "profile">>)

\* Device::update_status is get_device_status, and keeps the status.
update_status(d) ==
  /\ Begin([NoCall EXCEPT !.op = "update_status", !.device = d])
  /\ http_get(<<d, "state">>)

\* A command of the caller's own, for nothing the object remembers; a payload
\* that is not JSON is refused before the handle is touched.
send_command(d) ==
  \/ /\ Begin([NoCall EXCEPT !.op = "send_command", !.device = d])
     /\ http_post(<<d, "control">>)
  \/ /\ stage = "idle"
     /\ result' = [op |-> "send_command", device |-> d, code |-> "InvalidRequest"]
     /\ UNCHANGED <<clientVars, deviceVars, appliance, doubt>>

\* set_target_temperature, set_power, set_mode, start, pause, stop,
\* set_fridge_temperature, set_freezer_temperature.
SetSetting(d, s, v) ==
  /\ Begin([op |-> "set", device |-> d, setting |-> s, value |-> v])
  /\ http_post(<<d, "control">>)
-----------------------------------------------------------------------------
(***************************************************************************)
(* The request on the wire, and the cloud.                                 *)
(***************************************************************************)
\* The cloud does what the request says, if it is a command with a body.
Apply ==
  IF handle.method = "POST" /\ handle.body = "live" /\ call.op = "set"
    THEN appliance' = [appliance EXCEPT ![handle.url[1]] =
                         Store(@, call.setting, Sent(call.setting, call.value))]
    ELSE UNCHANGED appliance

\* The device types the answer to this URL can carry.
ReplyType ==
  IF Len(handle.url) = 2 /\ handle.url[2] = "state"
    THEN {TypeOf[handle.url[1]], "Unknown"}
    ELSE {"Unknown"}

Answer(kind) ==
  /\ stage' = "return"
  /\ \E type \in IF kind = "ok" THEN ReplyType ELSE {"Unknown"} :
        reply' = [kind |-> kind, type |-> type]

\* curl_easy_perform: the request or its answer may be lost, it may be refused,
\* or handled and answered in a way that can be parsed or not.
Perform ==
  /\ stage = "perform"
  /\ \/ Answer("lost") /\ UNCHANGED appliance
     \/ (\E kind \in Rejection : Answer(kind)) /\ UNCHANGED appliance
     \/ (\E kind \in {"ok", "garbled", "lost"} : Answer(kind)) /\ Apply
  /\ UNCHANGED <<handle, call, deviceVars, doubt, result>>

\* Post fields that are no longer live are read all the same, which may crash.
PerformCrashes ==
  /\ stage = "perform"
  /\ handle.method = "POST"
  /\ handle.body = "dangling"
  /\ stage' = "crashed"
  /\ UNCHANGED <<handle, call, reply, deviceVars, appliance, doubt, result>>
-----------------------------------------------------------------------------
(***************************************************************************)
(* The reply.                                                              *)
(***************************************************************************)
\* The error code: only http_get tells a 404 from other failures.
Code ==
  CASE reply.kind = "ok" -> "Success"
    [] reply.kind = "garbled" -> "ParseError"
    [] reply.kind = "lost" -> "NetworkError"
    [] reply.kind = "unauthorized" -> "AuthenticationFailed"
    [] reply.kind = "notFound" /\ call.op \in GetOp -> "DeviceNotFound"
    [] OTHER -> "ApiError"

\* What the device object stores.
StoreReply(code) ==
  /\ cache' = IF call.op = "set" /\ code = "Success"
                THEN [cache EXCEPT ![call.device] = Store(@, call.setting, call.value)]
                ELSE cache
  /\ status' = IF call.op = "update_status" /\ code = "Success"
                 THEN [status EXCEPT ![call.device] = reply.type]
                 ELSE status

\* A command that got no answer, or none that can be read, may have been carried out.
NoteDoubt(code) ==
  doubt' =
    IF call.op # "set" THEN doubt
    ELSE CASE code = "Success" -> doubt \ {<<call.device, call.setting>>}
           [] code \in {"NetworkError", "ParseError"} ->
                doubt \cup {<<call.device, call.setting>>}
           [] OTHER -> doubt

\* The call returns, and its locals are gone.
Return ==
  /\ stage = "return"
  /\ stage' = "idle"
  /\ result' = [op |-> call.op, device |-> call.device, code |-> Code]
  /\ StoreReply(Code)
  /\ NoteDoubt(Code)
  /\ handle' = [handle EXCEPT !.headers = "dangling", !.response = "dangling",
                              !.body = IF @ = "live" THEN "dangling" ELSE @]
  /\ call' = NoCall
  /\ reply' = NoReply
  /\ UNCHANGED appliance
-----------------------------------------------------------------------------
Next ==
  \/ get_devices
  \/ \E d \in DeviceId :
        \/ get_device_status(d)
        \/ get_device_profile(d)
        \/ update_status(d)
        \/ send_command(d)
        \/ \E s \in Settings[d] : \E v \in ValuesOf(s) : SetSetting(d, s, v)
  \/ Perform
  \/ PerformCrashes
  \/ Return

Spec == Init /\ [][Next]_vars
-----------------------------------------------------------------------------
(***************************************************************************)
(* Properties.                                                             *)
(***************************************************************************)
Borrowed == {"unset", "live", "dangling"}
Url == {<<"devices">>} \cup DeviceId \X {"state", "profile", "control"}
ErrorCode == {"Success", "NetworkError", "AuthenticationFailed", "DeviceNotFound",
              "InvalidRequest", "ApiError", "ParseError"}

\* The type of every variable of the client and of the device objects.
ClientTypeOK ==
  /\ handle.method \in {"GET", "POST"}
  /\ handle.url \in Url \cup {<<>>}
  /\ {handle.body, handle.headers, handle.response} \subseteq Borrowed
  /\ stage \in {"idle", "perform", "return", "crashed"}
  /\ call.op \in GetOp \cup PostOp \cup {"none"}
  /\ call.device \in DeviceId \cup {"none"}
  /\ reply.kind \in Rejection \cup {"none", "ok", "garbled", "lost"}
  /\ reply.type \in DOMAIN SettingsOfType \cup {"Unknown"}
  /\ \A d \in DeviceId :
        /\ DOMAIN cache[d] = Settings[d]
        /\ DOMAIN appliance[d] \subseteq Settings[d]
        /\ \A s \in DOMAIN cache[d] : cache[d][s] \in ValuesOf(s) \cup {InitialValue[s]}
        /\ \A s \in DOMAIN appliance[d] :
              appliance[d][s] \in {Sent(s, v) : v \in ValuesOf(s)}
  /\ status \in [DeviceId -> DOMAIN SettingsOfType \cup {"Unknown"}]
  /\ \A x \in doubt : x[1] \in DeviceId /\ x[2] \in Settings[x[1]]
  /\ result.op \in GetOp \cup PostOp \cup {"none"}
  /\ result.device \in DeviceId \cup {"none"}
  /\ result.code \in ErrorCode

\* Whatever the calls before left in the shared handle, a request goes to the
\* device of its call and uses the headers and the response of its call; a
\* command is posted, with its own body.
RequestPrepared ==
  stage = "perform" =>
    /\ handle.headers = "live" /\ handle.response = "live"
    /\ call.op # "get_devices" => handle.url[1] = call.device
    /\ call.op \in PostOp =>
          handle.method = "POST" /\ handle.body = "live" /\ handle.url[2] = "control"

\* A command for this setting is between the appliance and the object.
InFlight(d, s) == stage = "return" /\ call.device = d /\ call.setting = s

Settled(d) == {s \in Settings[d] : <<d, s>> \notin doubt /\ ~InFlight(d, s)}

\* Unless the last command for a setting went unacknowledged, the object agrees
\* with the appliance on it, up to the fraction a command cannot carry; before
\* the first command it has its initial value.
CacheFollowsAppliance ==
  \A d \in DeviceId : \A s \in Settled(d) :
    IF s \in DOMAIN appliance[d]
      THEN Sent(s, cache[d][s]) = appliance[d][s]
      ELSE cache[d][s] = InitialValue[s]

\* A polled status is about the object's own device, although all objects poll
\* through one handle: its type is the device's, or Unknown.
StatusIsOwn == \A d \in DeviceId : status[d] \in {TypeOf[d], "Unknown"}

\* A call that returns an error leaves every object as it was.
FailedCallChangesNothing == [][result'.code # "Success" => UNCHANGED deviceVars]_vars

\* http_get performs a GET ("Internal HTTP GET request").
GetsAreGets == stage = "perform" /\ call.op \in GetOp => handle.method = "GET"

\* After a successful poll the object agrees with the appliance ("Bidirectional
\* state synchronization between ThinQ and Matter").
PollRefreshesCache ==
  stage = "idle" /\ result.op = "update_status" /\ result.code = "Success" =>
    LET d == result.device
    IN  \A s \in DOMAIN appliance[d] : Sent(s, cache[d][s]) = appliance[d][s]
=============================================================================
