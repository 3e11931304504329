------------------------------ MODULE ApiCalls ------------------------------
(***************************************************************************)
(* What a call of the client reads and writes, from its arguments to its   *)
(* result: the discovery of the devices, and then the polls and commands   *)
(* of the object of one of them.  (ThinQClient has the handle that the     *)
(* calls share, and the failures of the transport.)                        *)
(***************************************************************************)
EXTENDS CommandText, MessageId, DeviceReplies

CONSTANTS
  ListReply,     \* the replies to get_devices
  StatusReply    \* the replies to get_device_status and send_command

ASSUME OneFormat ==
  \A b \in ListReply : b # NotJson => ~({"response", "result"} \subseteq DOMAIN b)

\* A list is an array, and "online" a boolean, or they are ill-typed.
ASSUME ReplyTypes ==
  /\ \A b \in ListReply \ {NotJson} : \A list \in {Current(b), Legacy(b)} \ {IllTyped} :
       list \in Seq(Range(list))
  /\ \A b \in StatusReply \ {NotJson} :
       Current(b) # IllTyped => Member(Current(b), "online", TRUE) \in BOOLEAN \cup {IllTyped}

VARIABLES
  stage,   \* "idle", "escape", "headers", "ready", "read", "listing" or "discovered"
  op,      \* the call in progress
  body,    \* the reply
  todo,    \* the entries the listing has yet to come to
  listed,  \* the devices listed so far
  object,  \* the device object, with the entry it was made from
  result   \* what the last call returned

callVars == <<body, todo, listed, object, result>>
vars == <<stage, op, callVars, idVars, textVars>>

NoObject == [none |-> TRUE]

Init ==
  /\ stage = "idle" /\ op = "none" /\ body = <<>> /\ todo = <<>> /\ listed = <<>>
  /\ object = NoObject /\ result = "none"
  /\ IdInit /\ TextInit
-----------------------------------------------------------------------------
(***************************************************************************)
(* Mutated definitions.                                                    *)
(***************************************************************************)
\* ListFaithful: the listing ends at an entry that has no id.
ListThenBreak ==
  /\ stage = "listing" /\ todo # <<>>
  /\ IF Str(Head(todo), "deviceId") = ""
       THEN todo' = <<>> /\ UNCHANGED listed
       ELSE todo' = Tail(todo) /\ listed' = Append(listed, ToDeviceInfo(Head(todo)))
  /\ UNCHANGED <<stage, op, body, object, result, idVars, textVars>>

\* ApiTypeOK: a refused body is reported by a code the callers do not know.
RefusalTimeout == "Timeout"
-----------------------------------------------------------------------------
(***************************************************************************)
(* The request.                                                            *)
(***************************************************************************)
\* A call begins with the headers, which hold a new message id.
Begin(name, first) ==
  /\ stage = "idle"
  /\ stage' = first
  /\ op' = name
  /\ result' = "none"
  /\ bytes' = <<>> /\ buffer' = 0 /\ bits' = 0 /\ out' = <<>>
  /\ UNCHANGED <<body, todo, listed, object>>

\* main discovers the devices before it makes objects of them.
get_devices ==
  /\ object = NoObject
  /\ Begin("get_devices", "headers")
  /\ UNCHANGED textVars

update_status ==
  /\ object # NoObject
  /\ Begin("get_device_status", "headers")
  /\ UNCHANGED textVars

send_command(v) ==
  /\ object # NoObject
  /\ Begin("send_command", "escape")
  /\ TakeValue(v)

Escape ==
  /\ stage = "escape"
  /\ IF Escaped THEN stage' = "headers" /\ UNCHANGED textVars
                ELSE EscapeNext /\ UNCHANGED stage
  /\ UNCHANGED <<op, callVars, idVars>>

make_common_headers ==
  /\ stage = "headers"
  /\ \/ (\E b \in Byte : EncodeByte(b)) /\ UNCHANGED stage
     \/ EncodeRest /\ stage' = "ready"
  /\ UNCHANGED <<op, callVars, textVars>>

\* The call returns, and its locals are gone.
Return(code) ==
  /\ stage' = "idle" /\ op' = "none" /\ result' = code
  /\ body' = <<>> /\ todo' = <<>> /\ listed' = <<>>
  /\ bytes' = <<>> /\ buffer' = 0 /\ bits' = 0 /\ out' = <<>>
  /\ value' = <<>> /\ escaped_value' = <<>> /\ pos' = 1

Refusal == "InvalidRequest"

\* A body that is not JSON is not sent.
CheckBody ==
  /\ stage = "ready" /\ op = "send_command" /\ ~BodyIsJson
  /\ Return(Refusal)
  /\ UNCHANGED object

\* http_get and http_post, as far as they succeed.
Request ==
  /\ stage = "ready" /\ (op = "send_command" => BodyIsJson)
  /\ stage' = "read"
  /\ body' \in IF op = "get_devices" THEN ListReply ELSE StatusReply
  /\ bytes' = <<>> /\ buffer' = 0 /\ bits' = 0 /\ out' = <<>>
  /\ UNCHANGED <<op, todo, listed, object, result, textVars>>
-----------------------------------------------------------------------------
(***************************************************************************)
(* The reply.                                                              *)
(***************************************************************************)
\* Every call needs JSON, and get_devices a list it can read.
Parses == IF op = "get_devices" THEN ListParses(body) ELSE body # NotJson

ParseError ==
  /\ stage = "read" /\ ~Parses
  /\ Return("ParseError")
  /\ UNCHANGED object

StoreStatus ==
  /\ stage = "read" /\ op = "get_device_status" /\ Parses
  /\ object' = [object EXCEPT !.status = ToStatus(body)]
  /\ Return("Success")

CommandDone ==
  /\ stage = "read" /\ op = "send_command" /\ Parses
  /\ Return("Success")
  /\ UNCHANGED object

ReadList ==
  /\ stage = "read" /\ op = "get_devices" /\ Parses
  /\ stage' = "listing"
  /\ todo' = Entries(body)
  /\ UNCHANGED <<op, body, listed, object, result, idVars, textVars>>

\* An entry without an id is passed over.
ListNext ==
  /\ stage = "listing" /\ todo # <<>>
  /\ todo' = Tail(todo)
  /\ listed' = IF Str(Head(todo), "deviceId") = "" THEN listed
               ELSE Append(listed, ToDeviceInfo(Head(todo)))
  /\ UNCHANGED <<stage, op, body, object, result, idVars, textVars>>

Listed ==
  /\ stage = "listing" /\ todo = <<>>
  /\ stage' = "discovered"
  /\ UNCHANGED <<op, callVars, idVars, textVars>>

\* The places of the entries that are listed.
Named(entries) == {i \in DOMAIN entries : Str(entries[i], "deviceId") # ""}

\* create_device: the type of the status is known, and the device is not online.
create_device ==
  /\ stage = "discovered"
  /\ \/ listed = <<>> /\ UNCHANGED object
     \/ \E i \in DOMAIN listed : \E j \in Named(Entries(body)) :
          /\ Rank(Named(Entries(body)), j) = i
          /\ object' = [entry |-> Entries(body)[j], info |-> listed[i],
                        status |-> [type |-> listed[i].type, online |-> FALSE]]
  /\ Return("Success")
-----------------------------------------------------------------------------
Next ==
  \/ get_devices
  \/ update_status
  \/ \E v \in Value : send_command(v)
  \/ Escape
  \/ make_common_headers
  \/ CheckBody
  \/ Request
  \/ ParseError
  \/ StoreStatus
  \/ CommandDone
  \/ ReadList
  \/ ListNext
  \/ Listed
  \/ create_device

Spec == Init /\ [][Next]_vars
-----------------------------------------------------------------------------
(***************************************************************************)
(* Properties.                                                             *)
(***************************************************************************)
Stage == {"idle", "escape", "headers", "ready", "read", "listing", "discovered"}
Operation == {"none", "get_devices", "get_device_status", "send_command"}
Listing == stage \in {"listing", "discovered"}
IsStatus(s) == s.type \in DeviceType /\ s.online \in BOOLEAN

\* The type of every variable of a call and of the device object.
ApiTypeOK ==
  /\ IdTypeOK
  /\ stage \in Stage /\ op \in Operation
  /\ stage = "read" => body \in IF op = "get_devices" THEN ListReply ELSE StatusReply
  /\ Listing => body \in ListReply
  /\ \A i \in DOMAIN listed :
        /\ listed[i].device_id # "" /\ listed[i].device_name # ""
        /\ listed[i].type \in DeviceType /\ listed[i].reportable \in BOOLEAN
  /\ object # NoObject => IsStatus(object.status)
  /\ result \in {"none", "Success", "ParseError", "InvalidRequest"}

\* What the cloud sent, in either format.
Sent == IF "response" \in DOMAIN body THEN Current(body) ELSE Legacy(body)

\* The devices of the first n entries that have an id are listed, in their order,
\* and the other entries are to come.
ListedUpTo(entries, n) ==
  /\ todo = SubSeq(entries, n + 1, Len(entries))
  /\ Len(listed) = Rank(Named(entries), n)
  /\ \A j \in Named(entries) :
        j <= n => listed[Rank(Named(entries), j)] = ToDeviceInfo(entries[j])

\* The listing never gives a part of what was sent: at every turn there are the
\* devices of the entries it has passed, and none of them is lost, listed twice or
\* out of its order, unless the list is of the legacy format or a value in it is
\* ill-typed: then there are none, and none to come.
ListFaithful ==
  Listing =>
    IF "response" \in DOMAIN body /\ ListReadable(Current(body))
      THEN \E n \in 0 .. Len(Sent) : ListedUpTo(Sent, n)
      ELSE listed = <<>> /\ todo = <<>>

TypeTexts(o) == {Str(o, "deviceType"), Str(Info(o), "deviceType")} \ {""}

\* The entry at place j is listed, and its only type text is the name of t.
ListedByName(j, t) ==
  /\ Rank(Named(Entries(body)), j) \in DOMAIN listed
  /\ TypeTexts(Entries(body)[j]) = {TypeName[t]}

TypeListed(j) == listed[Rank(Named(Entries(body)), j)].type

\* The name of any type but the dishwasher's, wherever an entry has it, is read back
\* as that type: no keyword that is looked for earlier takes it.
TypesReadBack ==
  Listing =>
    \A j \in Named(Entries(body)) : \A t \in DeviceType \ {"Dishwasher"} :
      ListedByName(j, t) => TypeListed(j) = t

\* So is the dishwasher's ("return DeviceType::Dishwasher").
DishwasherReadBack ==
  Listing =>
    \A j \in Named(Entries(body)) :
      ListedByName(j, "Dishwasher") => TypeListed(j) = "Dishwasher"

\* Both readers see the same text: one has it in the object itself or, where the
\* object has no deviceType at all, in the one inside.
OneTypeText(o) ==
  \/ "deviceType" \notin DOMAIN o /\ Str(Info(o), "deviceType") # ""
  \/ Str(o, "deviceType") # ""
     /\ Str(Info(o), "deviceType") \in {"", Str(o, "deviceType")}

\* A poll answered with the entry a device was discovered by leaves the device's
\* type as it was, although the two are read by different functions that prefer
\* different fields; it need not where the entry has more than one type text.
PollKeepsType ==
  [][object # NoObject /\ object' # object /\ OneTypeText(object.entry)
        /\ Current(body) = object.entry
      => object'.status.type = object.info.type]_vars

\* A value without a backslash that is sent is read by the cloud as it is, with any
\* number of quotes in any place; and it is refused only for a control character.
ParameterArrives ==
  op = "send_command" /\ stage \in {"headers", "ready"}
      /\ (\A i \in DOMAIN value : value[i] # "backslash") =>
    /\ BodyIsJson => ReadString(escaped_value).text = value
    /\ (\A i \in DOMAIN value : value[i] # "control") => BodyIsJson

\* A discovery that succeeds lists every device that was sent ("Get list of all
\* devices", "List of device information or error").
AllDevicesListed ==
  stage = "discovered" /\ Sent # IllTyped =>
    \A o \in Range(Sent) \ {IllTyped} :
      Str(o, "deviceId") # "" => \E j \in DOMAIN listed : listed[j].device_id = o.deviceId
=============================================================================
