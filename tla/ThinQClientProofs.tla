------------------------- MODULE ThinQClientProofs -------------------------
(***************************************************************************)
(* Theorems about ThinQClient, for every set of devices, their types and   *)
(* the settings used, every temperature, and any number of calls, lost     *)
(* requests and garbled replies.                                           *)
(***************************************************************************)
EXTENDS ThinQClient, MapLemmas

USE ClientAssumption

\* A failed call changes no object, whatever is in the handle and in the reply.
LEMMA FailureKeepsObjects ==
  ASSUME [Next]_vars, result'.code # "Success"
  PROVE  UNCHANGED deviceVars
<1>1. CASE Return
  <2>1. result'.code = Code
    BY <1>1 DEF Return
  <2> QED
    BY <1>1, <2>1 DEF Return, StoreReply, deviceVars
<1>2. CASE Perform \/ PerformCrashes \/ UNCHANGED vars
  BY <1>2 DEF Perform, PerformCrashes, vars, deviceVars
<1>3. CASE get_devices \/ \E d \in DeviceId :
             \/ get_device_status(d) \/ get_device_profile(d)
             \/ update_status(d) \/ send_command(d)
             \/ \E s \in Settings[d] : \E v \in ValuesOf(s) : SetSetting(d, s, v)
  BY <1>3
  DEF get_devices, get_device_status, get_device_profile, update_status, send_command,
      SetSetting, Begin, deviceVars
<1> QED
  BY <1>1, <1>2, <1>3 DEF Next

\* A call that returns an error code leaves status_ and the cached settings of every
\* object as they were.
THEOREM FailuresChangeNothing == Spec => FailedCallChangesNothing
<1>1. [Next]_vars => (result'.code # "Success" => UNCHANGED deviceVars)
  BY FailureKeepsObjects
<1> QED
  BY <1>1, PTL DEF Spec, FailedCallChangesNothing
-----------------------------------------------------------------------------
(***************************************************************************)
(* The handle and the call.                                                *)
(***************************************************************************)
HandleOK ==
  handle \in [method : {"GET", "POST"}, url : Url \cup {<<>>}, body : Borrowed,
              headers : Borrowed, response : Borrowed]

\* The fields of a call that its operation uses.
CallOK ==
  /\ stage \in {"idle", "perform", "return", "crashed"}
  /\ call.op \in GetOp \cup PostOp \cup {"none"}
  /\ call.device \in DeviceId \cup {"none"}
  /\ call.op \notin {"get_devices", "none"} => call.device \in DeviceId
  /\ IF call.op = "set"
       THEN call.setting \in Settings[call.device] /\ call.value \in ValuesOf(call.setting)
       ELSE call.setting = "none"

HandleInv == HandleOK /\ CallOK /\ RequestPrepared

\* A call that gets as far as the handle.
Calling ==
  \/ get_devices
  \/ \E d \in DeviceId :
        \/ get_device_status(d) \/ get_device_profile(d) \/ update_status(d)
        \/ Begin([NoCall EXCEPT !.op = "send_command", !.device = d])
             /\ http_post(<<d, "control">>)
        \/ \E s \in Settings[d] : \E v \in ValuesOf(s) : SetSetting(d, s, v)

\* A command that is refused before it gets there.
Refused ==
  /\ stage = "idle"
  /\ \E d \in DeviceId :
        result' = [op |-> "send_command", device |-> d, code |-> "InvalidRequest"]
  /\ UNCHANGED <<clientVars, deviceVars, appliance, doubt>>

\* The kinds of steps.
LEMMA Steps == Next => Calling \/ Refused \/ Perform \/ PerformCrashes \/ Return
  BY DEF Next, Calling, Refused, send_command

\* A GET prepares the handle for its own call.
LEMMA GetPrepares ==
  ASSUME HandleOK, NEW c, NEW url \in Url, Begin(c), http_get(url),
         c.op \in GetOp, c.setting = "none", c.device \in DeviceId \cup {"none"},
         c.op # "get_devices" => c.device \in DeviceId /\ url[1] = c.device
  PROVE  HandleInv'
<1>1. call' = c /\ stage' = "perform"
  BY DEF Begin
<1>2. /\ handle'.method = handle.method /\ handle'.url = url /\ handle'.body = handle.body
      /\ handle'.headers = "live" /\ handle'.response = "live"
      /\ HandleOK'
  BY DEF http_get, HandleOK, Borrowed
<1> QED
  BY <1>1, <1>2 DEF HandleInv, CallOK, RequestPrepared, GetOp, PostOp

\* A POST replaces every option.
LEMMA PostPrepares ==
  ASSUME NEW c, NEW d \in DeviceId, Begin(c), http_post(<<d, "control">>),
         c.op \in PostOp, c.device = d,
         IF c.op = "set" THEN c.setting \in Settings[d] /\ c.value \in ValuesOf(c.setting)
                         ELSE c.setting = "none"
  PROVE  HandleInv'
<1>1. call' = c /\ stage' = "perform"
  BY DEF Begin
<1>2. /\ handle'.method = "POST" /\ handle'.url = <<d, "control">>
      /\ handle'.body = "live" /\ handle'.headers = "live" /\ handle'.response = "live"
      /\ HandleOK'
  BY DEF http_post, HandleOK, Borrowed, Url
<1> QED
  BY <1>1, <1>2 DEF HandleInv, CallOK, RequestPrepared, GetOp, PostOp

\* So does every call, GET or POST.
LEMMA CallingPrepares ==
  ASSUME HandleOK, Calling
  PROVE  HandleInv'
<1>1. CASE get_devices
  BY <1>1, GetPrepares DEF get_devices, Url, GetOp, NoCall
<1>2. ASSUME NEW d \in DeviceId,
             get_device_status(d) \/ get_device_profile(d) \/ update_status(d)
      PROVE  HandleInv'
  <2>1. <<d, "state">> \in Url /\ <<d, "profile">> \in Url
    BY DEF Url
  <2> QED
    BY <1>2, <2>1, GetPrepares
    DEF get_device_status, get_device_profile, update_status, GetOp, NoCall
<1>3. ASSUME NEW d \in DeviceId,
             Begin([NoCall EXCEPT !.op = "send_command", !.device = d]),
             http_post(<<d, "control">>)
      PROVE  HandleInv'
  BY <1>3, PostPrepares DEF NoCall, PostOp
<1>4. ASSUME NEW d \in DeviceId, NEW s \in Settings[d], NEW v \in ValuesOf(s),
             SetSetting(d, s, v)
      PROVE  HandleInv'
  BY <1>4, PostPrepares DEF SetSetting, PostOp
<1> QED
  BY <1>1, <1>2, <1>3, <1>4 DEF Calling

\* The handle keeps its invariant at every step.
LEMMA NextHandle ==
  ASSUME HandleInv, [Next]_vars
  PROVE  HandleInv'
<1>1. CASE Calling
  BY <1>1, CallingPrepares DEF HandleInv
<1>2. CASE Refused \/ UNCHANGED vars
  BY <1>2
  DEF Refused, vars, clientVars, HandleInv, HandleOK, CallOK, RequestPrepared
<1>3. CASE Perform \/ PerformCrashes
  <2>1. UNCHANGED <<handle, call>> /\ stage' \in {"return", "crashed"}
    BY <1>3 DEF Perform, PerformCrashes, Answer
  <2> QED
    BY <2>1 DEF HandleInv, HandleOK, CallOK, RequestPrepared
<1>4. CASE Return
  <2>1. stage' = "idle" /\ call' = NoCall
    BY <1>4 DEF Return
  <2>2. HandleOK'
    BY <1>4 DEF Return, HandleInv, HandleOK, Borrowed
  <2> QED
    BY <2>1, <2>2 DEF HandleInv, CallOK, RequestPrepared, NoCall
<1> QED
  BY <1>1, <1>2, <1>3, <1>4, Steps

\* It holds initially.
LEMMA InitHandle == Init => HandleInv
  BY DEF Init, HandleInv, HandleOK, CallOK, RequestPrepared, NoCall, Borrowed

\* However the calls follow each other, no request goes out with another call's
\* URL, headers or response, nor a command without its body.
THEOREM RequestsArePrepared == Spec => []RequestPrepared
<1>1. HandleInv => RequestPrepared
  BY DEF HandleInv
<1> QED
  BY <1>1, InitHandle, NextHandle, PTL DEF Spec
-----------------------------------------------------------------------------
(***************************************************************************)
(* The reply and the status of the objects.                                *)
(***************************************************************************)
Kind == Rejection \cup {"none", "ok", "garbled", "lost"}
ReportedType == DOMAIN SettingsOfType \cup {"Unknown"}

ReplyInv ==
  /\ reply.kind \in Kind
  /\ reply.type \in ReportedType
  /\ stage = "return" /\ call.op = "update_status" =>
       reply.type \in {TypeOf[call.device], "Unknown"}

StatusInv == status \in [DeviceId -> ReportedType] /\ StatusIsOwn

\* What the cloud answers, and how it is classified.
LEMMA Answers ==
  ASSUME HandleInv, Perform
  PROVE  /\ stage = "perform" /\ stage' = "return" /\ reply'.kind \in Kind \ {"none"}
         /\ reply'.type \in ReplyType \cup {"Unknown"}
         /\ UNCHANGED <<handle, call, cache, status, doubt, result>>
         /\ Apply \/ UNCHANGED appliance
         /\ reply'.kind = "ok" => Apply
         /\ reply'.kind \in Rejection => UNCHANGED appliance
<1>1. stage = "perform" /\ UNCHANGED <<handle, call, cache, status, doubt, result>>
  BY DEF Perform, deviceVars
<1>2. ASSUME NEW kind \in Kind \ {"none"}, Answer(kind)
      PROVE  stage' = "return" /\ reply'.kind = kind /\ reply'.type \in ReplyType \cup {"Unknown"}
  BY <1>2 DEF Answer
<1>3. CASE Answer("lost") /\ UNCHANGED appliance
  BY <1>1, <1>2, <1>3 DEF Kind, Rejection
<1>4. CASE (\E kind \in Rejection : Answer(kind)) /\ UNCHANGED appliance
  BY <1>1, <1>2, <1>4 DEF Kind, Rejection
<1>5. CASE (\E kind \in {"ok", "garbled", "lost"} : Answer(kind)) /\ Apply
  BY <1>1, <1>2, <1>5 DEF Kind, Rejection
<1> QED
  BY <1>3, <1>4, <1>5 DEF Perform

\* The answer to a poll is about the device of the poll.
LEMMA AnswerIsOwn ==
  ASSUME HandleInv, stage = "perform"
  PROVE  /\ ReplyType \subseteq ReportedType
         /\ call.op = "update_status" => ReplyType \subseteq {TypeOf[call.device], "Unknown"}
<1>1. call.op # "get_devices" /\ call.op # "none" => handle.url[1] = call.device
  BY DEF HandleInv, RequestPrepared
<1>2. handle.url \in Url \cup {<<>>}
  BY DEF HandleInv, HandleOK
<1>3. Len(handle.url) = 2 => handle.url[1] \in DeviceId
  BY <1>2 DEF Url
<1> QED
  BY <1>1, <1>3 DEF ReplyType, ReportedType

\* A reply is about the device of its call, at every step.
LEMMA NextReply ==
  ASSUME HandleInv, ReplyInv, [Next]_vars
  PROVE  ReplyInv'
<1>1. CASE Perform
  BY <1>1, Answers, AnswerIsOwn DEF ReplyInv, ReportedType
<1>2. CASE Calling \/ Return
  <2>1. reply' = NoReply /\ stage' # "return"
    BY <1>2
    DEF Calling, get_devices, get_device_status, get_device_profile, update_status,
        SetSetting, Begin, Return
  <2> QED
    BY <2>1 DEF ReplyInv, NoReply, Kind, ReportedType
<1>3. CASE Refused \/ UNCHANGED vars
  BY <1>3 DEF Refused, vars, clientVars, ReplyInv
<1>4. CASE PerformCrashes
  BY <1>4 DEF PerformCrashes, ReplyInv
<1> QED
  BY <1>1, <1>2, <1>3, <1>4, Steps

\* The beginning of a call disturbs no object.
LEMMA CallingKeeps ==
  ASSUME Calling
  PROVE  /\ stage = "idle" /\ stage' = "perform"
         /\ UNCHANGED <<cache, status, appliance, doubt, result>>
  BY DEF Calling, get_devices, get_device_status, get_device_profile, update_status,
         SetSetting, Begin, deviceVars

\* An object stores the status of its own device.
LEMMA NextStatus ==
  ASSUME HandleInv, ReplyInv, StatusInv, [Next]_vars
  PROVE  StatusInv'
<1>1. CASE Return
  <2>1. CASE call.op = "update_status" /\ Code = "Success"
    <3>1. status' = [status EXCEPT ![call.device] = reply.type]
      BY <1>1, <2>1 DEF Return, StoreReply
    <3>2. reply.type \in {TypeOf[call.device], "Unknown"} /\ reply.type \in ReportedType
      BY <1>1, <2>1 DEF Return, ReplyInv
    <3> QED
      BY <3>1, <3>2 DEF StatusInv, StatusIsOwn
  <2>2. CASE ~(call.op = "update_status" /\ Code = "Success")
    <3>1. status' = status
      BY <1>1, <2>2 DEF Return, StoreReply
    <3> QED
      BY <3>1 DEF StatusInv, StatusIsOwn
  <2> QED
    BY <2>1, <2>2
<1>2. CASE ~Return
  <2>1. status' = status
    BY <1>2, Steps, Answers, CallingKeeps
    DEF Refused, PerformCrashes, vars, deviceVars
  <2> QED
    BY <2>1 DEF StatusInv, StatusIsOwn
<1> QED
  BY <1>1, <1>2

\* Both hold initially.
LEMMA InitStatus == Init => ReplyInv /\ StatusInv
  BY DEF Init, ReplyInv, StatusInv, StatusIsOwn, NoReply, Kind, ReportedType

\* All objects poll through one handle, and each is told about its own device.
THEOREM StatusIsAlwaysOwn == Spec => []StatusIsOwn
<1>1. HandleInv /\ ReplyInv /\ StatusInv /\ [Next]_vars
        => HandleInv' /\ ReplyInv' /\ StatusInv'
  BY NextHandle, NextReply, NextStatus
<1>2. StatusInv => StatusIsOwn
  BY DEF StatusInv
<1> QED
  BY <1>1, <1>2, InitHandle, InitStatus, PTL DEF Spec
-----------------------------------------------------------------------------
(***************************************************************************)
(* The objects and the appliances.                                         *)
(***************************************************************************)
\* No setting is called "none".
LEMMA SettingsNamed ==
  ASSUME NEW d \in DeviceId, NEW s \in Settings[d]
  PROVE  /\ s # "none"
         /\ s \in TemperatureSetting \cup {"power_on_", "mode_", "state_"}
  BY DEF SettingsOfType, TemperatureSetting

ObjectsShaped ==
  /\ DOMAIN cache = DeviceId /\ DOMAIN appliance = DeviceId
  /\ \A d \in DeviceId : DOMAIN cache[d] = Settings[d]

Agree(d, s) ==
  IF s \in DOMAIN appliance[d]
    THEN Sent(s, cache[d][s]) = appliance[d][s]
    ELSE cache[d][s] = InitialValue[s]

\* A command that is acknowledged has been carried out, and one that is rejected
\* has not, so that the object agrees with the appliance after the first by storing
\* the value, and after the second without.
CacheInv ==
  \A d \in DeviceId : \A s \in Settings[d] :
    /\ InFlight(d, s) /\ reply.kind = "ok" =>
         s \in DOMAIN appliance[d] /\ appliance[d][s] = Sent(s, call.value)
    /\ <<d, s>> \notin doubt /\ (InFlight(d, s) => reply.kind \in Rejection) => Agree(d, s)

\* How the answer to a command is classified.
LEMMA CodeOfCommand ==
  ASSUME call.op = "set"
  PROVE  /\ reply.kind = "ok" <=> Code = "Success"
         /\ reply.kind \in {"lost", "garbled"} => Code \in {"NetworkError", "ParseError"}
         /\ reply.kind \in Rejection => Code \notin {"Success", "NetworkError", "ParseError"}
  BY DEF Code, Rejection, GetOp

\* The cloud carries out a command for the device and the setting of the call.
LEMMA ApplyEffect ==
  ASSUME HandleInv, ObjectsShaped, stage = "perform", Apply
  PROVE  /\ DOMAIN appliance' = DeviceId
         /\ call.op # "set" => appliance' = appliance
         /\ call.op = "set" =>
              /\ appliance'[call.device] =
                   Store(appliance[call.device], call.setting, Sent(call.setting, call.value))
              /\ \A d \in DeviceId : d # call.device => appliance'[d] = appliance[d]
<1>1. CASE call.op # "set"
  BY <1>1 DEF Apply, ObjectsShaped
<1>2. CASE call.op = "set"
  <2>1. handle.method = "POST" /\ handle.body = "live" /\ handle.url[1] = call.device
    BY <1>2 DEF HandleInv, RequestPrepared, PostOp
  <2>2. call.device \in DeviceId
    BY <1>2 DEF HandleInv, CallOK
  <2> QED
    BY <1>2, <2>1, <2>2 DEF Apply, ObjectsShaped
<1> QED
  BY <1>1, <1>2

\* Between the request and the return.
LEMMA PerformCache ==
  ASSUME HandleInv, ObjectsShaped, CacheInv, Perform
  PROVE  ObjectsShaped' /\ CacheInv'
<1>1. ObjectsShaped'
  BY Answers, ApplyEffect DEF ObjectsShaped
<1>2. stage = "perform" /\ stage' = "return" /\ UNCHANGED <<call, cache, doubt>>
  BY Answers
<1>3. SUFFICES ASSUME NEW d \in DeviceId, NEW s \in Settings[d]
               PROVE  /\ InFlight(d, s)' /\ reply'.kind = "ok" =>
                           s \in DOMAIN appliance'[d] /\ appliance'[d][s] = Sent(s, call.value)
                      /\ <<d, s>> \notin doubt
                            /\ (InFlight(d, s)' => reply'.kind \in Rejection) => Agree(d, s)'
  BY <1>1, <1>2 DEF CacheInv
<1>4. <<d, s>> \notin doubt => Agree(d, s)
  BY <1>2 DEF CacheInv, InFlight
<1>5. CASE call.device = d /\ call.setting = s
  <2>1. call.op = "set"
    BY <1>5, SettingsNamed DEF HandleInv, CallOK
  <2>2. InFlight(d, s)'
    BY <1>2, <1>5 DEF InFlight
  <2>3. ASSUME reply'.kind = "ok"
        PROVE  s \in DOMAIN appliance'[d] /\ appliance'[d][s] = Sent(s, call.value)
    <3>1. appliance'[d] = Store(appliance[d], s, Sent(s, call.value))
      BY <1>2, <1>5, <2>1, <2>3, Answers, ApplyEffect
    <3> QED
      BY <3>1 DEF Store
  <2>4. reply'.kind \in Rejection => appliance' = appliance
    BY Answers
  <2> QED
    BY <1>2, <1>4, <2>2, <2>3, <2>4 DEF Agree
<1>6. CASE ~(call.device = d /\ call.setting = s)
  <2>1. /\ s \in DOMAIN appliance'[d] <=> s \in DOMAIN appliance[d]
        /\ s \in DOMAIN appliance[d] => appliance'[d][s] = appliance[d][s]
    <3>1. CASE appliance' = appliance
      BY <3>1
    <3>2. CASE Apply
      BY <1>2, <1>6, <3>2, ApplyEffect DEF Store
    <3> QED
      BY <3>1, <3>2, Answers
  <2>2. Agree(d, s)' <=> Agree(d, s)
    BY <1>2, <2>1 DEF Agree
  <2>3. ~InFlight(d, s)'
    BY <1>2, <1>6 DEF InFlight
  <2> QED
    BY <1>4, <2>2, <2>3
<1> QED
  BY <1>5, <1>6

\* The objects store what was acknowledged.
LEMMA ReturnCache ==
  ASSUME HandleInv, ReplyInv, reply.kind # "none", ObjectsShaped, CacheInv, Return
  PROVE  ObjectsShaped' /\ CacheInv'
<1>1. stage = "return" /\ stage' = "idle" /\ appliance' = appliance
  BY DEF Return
<1>2. CASE call.op # "set"
  <2>1. UNCHANGED <<cache, doubt>>
    BY <1>2 DEF Return, StoreReply, NoteDoubt
  <2>2. \A d \in DeviceId : \A s \in Settings[d] : ~InFlight(d, s)
    BY <1>2, SettingsNamed DEF InFlight, HandleInv, CallOK
  <2> QED
    BY <1>1, <2>1, <2>2 DEF CacheInv, ObjectsShaped, InFlight, Agree
<1>3. CASE call.op = "set"
  <2>1. call.device \in DeviceId /\ call.setting \in Settings[call.device]
    BY <1>3 DEF HandleInv, CallOK
  <2>2. /\ Code = "Success" => cache' = [cache EXCEPT ![call.device] =
                                            Store(@, call.setting, call.value)]
        /\ Code # "Success" => cache' = cache
    BY <1>3 DEF Return, StoreReply
  <2>3. ObjectsShaped'
    BY <1>1, <2>1, <2>2 DEF ObjectsShaped, Store
  <2>4. /\ \A x : x # <<call.device, call.setting>> => (x \in doubt' <=> x \in doubt)
        /\ Code \in {"NetworkError", "ParseError"} => <<call.device, call.setting>> \in doubt'
        /\ Code \notin {"Success", "NetworkError", "ParseError"} => doubt' = doubt
    BY <1>3 DEF Return, NoteDoubt
  <2>5. ASSUME NEW d \in DeviceId, NEW s \in Settings[d], <<d, s>> \notin doubt'
        PROVE  Agree(d, s)'
    <3>1. CASE d = call.device /\ s = call.setting
      <4>1. InFlight(d, s)
        BY <1>1, <3>1 DEF InFlight
      <4>2. CASE reply.kind = "ok"
        <5>1. s \in DOMAIN appliance[d] /\ appliance[d][s] = Sent(s, call.value)
          BY <4>1, <4>2 DEF CacheInv
        <5>2. cache'[d][s] = call.value
          BY <1>3, <2>1, <2>2, <3>1, <4>2, CodeOfCommand DEF ObjectsShaped, Store
        <5> QED
          BY <1>1, <5>1, <5>2 DEF Agree
      <4>3. CASE reply.kind \in Rejection
        <5>1. cache' = cache /\ doubt' = doubt
          BY <1>3, <2>2, <2>4, <4>3, CodeOfCommand
        <5> QED
          BY <1>1, <2>5, <4>3, <5>1 DEF CacheInv, Agree
      <4>4. CASE reply.kind \in {"lost", "garbled"}
        BY <1>3, <2>4, <2>5, <3>1, <4>4, CodeOfCommand
      <4> QED
        BY <4>2, <4>3, <4>4 DEF ReplyInv, Kind
    <3>2. CASE ~(d = call.device /\ s = call.setting)
      <4>1. Agree(d, s)
        BY <2>4, <2>5, <3>2 DEF CacheInv, InFlight
      <4>2. cache'[d][s] = cache[d][s]
        BY <2>1, <2>2, <3>2 DEF ObjectsShaped, Store
      <4> QED
        BY <1>1, <4>1, <4>2 DEF Agree
    <3> QED
      BY <3>1, <3>2
  <2> QED
    BY <1>1, <2>3, <2>5 DEF CacheInv, InFlight
<1> QED
  BY <1>2, <1>3

\* A reply that is returned is there.
ReplyThere == stage = "return" => reply.kind # "none"

\* A call that is about to return has a reply.
LEMMA NextReplyThere ==
  ASSUME HandleInv, ReplyThere, [Next]_vars
  PROVE  ReplyThere'
<1>1. CASE Perform
  BY <1>1, Answers DEF ReplyThere
<1>2. CASE Calling \/ PerformCrashes \/ Return
  BY <1>2, CallingKeeps DEF ReplyThere, PerformCrashes, Return
<1>3. CASE Refused \/ UNCHANGED vars
  BY <1>3 DEF Refused, vars, clientVars, ReplyThere
<1> QED
  BY <1>1, <1>2, <1>3, Steps

\* The objects follow their appliances at every step.
LEMMA NextCache ==
  ASSUME HandleInv, ReplyInv, ReplyThere, ObjectsShaped, CacheInv, [Next]_vars
  PROVE  ObjectsShaped' /\ CacheInv'
<1>1. CASE Perform
  BY <1>1, PerformCache
<1>2. CASE Return
  BY <1>2, ReturnCache DEF ReplyThere, Return
<1>3. CASE Calling \/ PerformCrashes
  <2>1. stage # "return" /\ stage' # "return" /\ UNCHANGED <<cache, appliance, doubt>>
    BY <1>3, CallingKeeps DEF PerformCrashes, deviceVars
  <2> QED
    BY <2>1 DEF ObjectsShaped, CacheInv, InFlight, Agree
<1>4. CASE Refused \/ UNCHANGED vars
  BY <1>4
  DEF Refused, vars, clientVars, deviceVars, ObjectsShaped, CacheInv, InFlight, Agree
<1> QED
  BY <1>1, <1>2, <1>3, <1>4, Steps

\* They do so initially.
LEMMA InitCache == Init => ReplyThere /\ ObjectsShaped /\ CacheInv
  BY DEF Init, ReplyThere, ObjectsShaped, CacheInv, InFlight, Agree, EmptyMap

ClientInv ==
  HandleInv /\ ReplyInv /\ StatusInv /\ ReplyThere /\ ObjectsShaped /\ CacheInv

\* The inductive invariant of the client.
LEMMA ClientInvHolds == Spec => []ClientInv
<1>1. Init => ClientInv
  BY InitHandle, InitStatus, InitCache DEF ClientInv
<1>2. ClientInv /\ [Next]_vars => ClientInv'
  BY NextHandle, NextReply, NextStatus, NextReplyThere, NextCache DEF ClientInv
<1> QED
  BY <1>1, <1>2, PTL DEF Spec

\* Whatever is lost, refused or garbled, an object agrees with its appliance on every
\* setting whose last command was answered.
THEOREM CacheAlwaysFollows == Spec => []CacheFollowsAppliance
<1>1. ClientInv => CacheFollowsAppliance
  BY DEF ClientInv, CacheInv, CacheFollowsAppliance, Settled, Agree
<1> QED
  BY <1>1, ClientInvHolds, PTL
-----------------------------------------------------------------------------
(***************************************************************************)
(* The types of what is stored.                                            *)
(***************************************************************************)
ValuesTyped ==
  \A d \in DeviceId :
    /\ DOMAIN appliance[d] \subseteq Settings[d]
    /\ \A s \in Settings[d] : cache[d][s] \in ValuesOf(s) \cup {InitialValue[s]}
    /\ \A s \in DOMAIN appliance[d] : appliance[d][s] \in {Sent(s, v) : v \in ValuesOf(s)}

DoubtTyped == \A x \in doubt : x[1] \in DeviceId /\ x[2] \in Settings[x[1]]

ResultTyped ==
  /\ result.op \in GetOp \cup PostOp \cup {"none"}
  /\ result.device \in DeviceId \cup {"none"}
  /\ result.code \in ErrorCode

\* Every reply is turned into a code of the code's own list.
LEMMA CodeTyped == Code \in ErrorCode
  BY DEF Code, ErrorCode

\* The settings and what the appliances hold keep their types.
LEMMA NextValues ==
  ASSUME HandleInv, ObjectsShaped, ValuesTyped, [Next]_vars
  PROVE  ValuesTyped'
<1>1. CASE Perform /\ appliance' # appliance
  <2>1. Apply /\ stage = "perform" /\ cache' = cache /\ call.op = "set"
    BY <1>1, Answers, ApplyEffect
  <2>2. /\ call.device \in DeviceId /\ call.setting \in Settings[call.device]
        /\ call.value \in ValuesOf(call.setting)
    BY <2>1 DEF HandleInv, CallOK
  <2>3. \A d \in DeviceId : d # call.device => appliance'[d] = appliance[d]
    BY <2>1, ApplyEffect
  <2>4. appliance'[call.device] =
          Store(appliance[call.device], call.setting, Sent(call.setting, call.value))
    BY <2>1, ApplyEffect
  <2>5. DOMAIN appliance'[call.device] \subseteq Settings[call.device]
    BY <2>2, <2>4 DEF ValuesTyped, Store
  <2>6. \A s \in DOMAIN appliance'[call.device] :
           appliance'[call.device][s] \in {Sent(s, v) : v \in ValuesOf(s)}
    BY <2>2, <2>4 DEF ValuesTyped, Store
  <2> QED
    BY <2>1, <2>3, <2>5, <2>6 DEF ValuesTyped
<1>2. CASE Return
  <2>1. appliance' = appliance
    BY <1>2 DEF Return
  <2>2. CASE call.op = "set" /\ Code = "Success"
    <3>1. /\ call.device \in DeviceId /\ call.setting \in Settings[call.device]
          /\ call.value \in ValuesOf(call.setting)
      BY <2>2 DEF HandleInv, CallOK
    <3>2. cache' = [cache EXCEPT ![call.device] = Store(@, call.setting, call.value)]
      BY <1>2, <2>2 DEF Return, StoreReply
    <3>3. \A d \in DeviceId : \A s \in Settings[d] :
             cache'[d][s] \in ValuesOf(s) \cup {InitialValue[s]}
      BY <3>1, <3>2 DEF ObjectsShaped, ValuesTyped, Store
    <3> QED
      BY <2>1, <3>3 DEF ValuesTyped
  <2>3. CASE ~(call.op = "set" /\ Code = "Success")
    BY <1>2, <2>1, <2>3 DEF Return, StoreReply, ValuesTyped
  <2> QED
    BY <2>2, <2>3
<1>3. CASE ~Return /\ appliance' = appliance
  <2>1. cache' = cache
    BY <1>3, Steps, Answers, CallingKeeps
    DEF Refused, PerformCrashes, vars, deviceVars
  <2> QED
    BY <1>3, <2>1 DEF ValuesTyped
<1>4. ~Perform /\ ~Return => appliance' = appliance
  BY Steps, CallingKeeps DEF Refused, PerformCrashes, vars
<1> QED
  BY <1>1, <1>2, <1>3, <1>4

\* So does what the last call returned.
LEMMA NextResult ==
  ASSUME HandleInv, ResultTyped, DoubtTyped, [Next]_vars
  PROVE  ResultTyped' /\ DoubtTyped'
<1>1. CASE Return
  <2>1. /\ result'.op = call.op /\ result'.device = call.device /\ result'.code = Code
    BY <1>1 DEF Return
  <2>2. ResultTyped'
    BY <2>1, CodeTyped DEF ResultTyped, HandleInv, CallOK
  <2>3. \A x \in doubt' : x \in doubt \/ (call.op = "set" /\ x = <<call.device, call.setting>>)
    BY <1>1 DEF Return, NoteDoubt
  <2>4. call.op = "set" => call.device \in DeviceId /\ call.setting \in Settings[call.device]
    BY DEF HandleInv, CallOK
  <2> QED
    BY <2>2, <2>3, <2>4 DEF DoubtTyped
<1>2. CASE Refused
  BY <1>2 DEF Refused, ResultTyped, DoubtTyped, PostOp, ErrorCode
<1>3. CASE ~Return /\ ~Refused
  <2>1. UNCHANGED <<result, doubt>>
    BY <1>3, Steps, Answers, CallingKeeps DEF PerformCrashes, vars
  <2> QED
    BY <2>1 DEF ResultTyped, DoubtTyped
<1> QED
  BY <1>1, <1>2, <1>3

\* The types hold: an object has a value its setters take for each of its settings,
\* and an appliance one that a command carries.
THEOREM ClientTypeCorrect == Spec => []ClientTypeOK
<1> DEFINE Typed == ValuesTyped /\ ResultTyped /\ DoubtTyped
<1>1. Init => Typed
  BY DEF Init, ValuesTyped, ResultTyped, DoubtTyped, EmptyMap, ErrorCode
<1>2. ClientInv /\ Typed /\ [Next]_vars => Typed'
  BY NextValues, NextResult DEF ClientInv
<1>3. ClientInv /\ Typed => ClientTypeOK
  <2> SUFFICES ASSUME ClientInv, Typed PROVE ClientTypeOK
    OBVIOUS
  <2>1. /\ handle.method \in {"GET", "POST"} /\ handle.url \in Url \cup {<<>>}
        /\ {handle.body, handle.headers, handle.response} \subseteq Borrowed
    BY DEF ClientInv, HandleInv, HandleOK
  <2>2. /\ stage \in {"idle", "perform", "return", "crashed"}
        /\ call.op \in GetOp \cup PostOp \cup {"none"}
        /\ call.device \in DeviceId \cup {"none"}
    BY DEF ClientInv, HandleInv, CallOK
  <2>3. /\ reply.kind \in Rejection \cup {"none", "ok", "garbled", "lost"}
        /\ reply.type \in DOMAIN SettingsOfType \cup {"Unknown"}
        /\ status \in [DeviceId -> DOMAIN SettingsOfType \cup {"Unknown"}]
    BY DEF ClientInv, ReplyInv, StatusInv, Kind, ReportedType
  <2>4. \A d \in DeviceId :
          /\ DOMAIN cache[d] = Settings[d]
          /\ DOMAIN appliance[d] \subseteq Settings[d]
          /\ \A s \in DOMAIN cache[d] : cache[d][s] \in ValuesOf(s) \cup {InitialValue[s]}
          /\ \A s \in DOMAIN appliance[d] :
                appliance[d][s] \in {Sent(s, v) : v \in ValuesOf(s)}
    BY DEF ClientInv, ObjectsShaped, ValuesTyped
  <2> QED
    BY <2>1, <2>2, <2>3, <2>4 DEF ClientTypeOK, ResultTyped, DoubtTyped
<1> QED
  BY <1>1, <1>2, <1>3, ClientInvHolds, PTL DEF Spec
=============================================================================
