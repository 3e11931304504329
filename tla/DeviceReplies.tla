--------------------------- MODULE DeviceReplies ---------------------------
(***************************************************************************)
(* What the client reads out of the cloud's replies                        *)
(* (src/thinq/api_client.cpp): a list of devices, in the current or in the *)
(* legacy format, and the status of one device.                            *)
(*                                                                         *)
(* A JSON object is a function from the keys it has to their values, an    *)
(* array is a sequence, and IllTyped is a value of a type that the reader  *)
(* of its key does not expect.  glaze ignores unknown keys, leaves what    *)
(* has no key at its default, and fails on a value of the wrong type.      *)
(***************************************************************************)
EXTENDS Sequences, FiniteSetsExt

CONSTANTS
  IllTyped,
  NotJson,     \* a reply that is not a JSON object
  KeywordsIn   \* KeywordsIn[text]: the keywords that are found in a type text

DeviceType == {"AirConditioner", "Washer", "Dryer", "Refrigerator", "AirPurifier",
               "Dishwasher", "Oven", "RobotCleaner", "WaterPurifier", "Unknown"}

\* to_string(DeviceType)
TypeName ==
  [AirConditioner |-> "AIR_CONDITIONER", Washer |-> "WASHER", Dryer |-> "DRYER",
   Refrigerator |-> "REFRIGERATOR", AirPurifier |-> "AIR_PURIFIER",
   Dishwasher |-> "DISHWASHER", Oven |-> "OVEN", RobotCleaner |-> "ROBOT_CLEANER",
   WaterPurifier |-> "WATER_PURIFIER", Unknown |-> "UNKNOWN"]

\* No name contains another one, but DISHWASHER contains WASHER; and an object
\* without keys is not ill-typed.
ASSUME RepliesAssumption ==
  /\ IllTyped # <<>>
  /\ \A t \in DeviceType \ {"Unknown", "Dishwasher"} : KeywordsIn[TypeName[t]] = {TypeName[t]}
  /\ KeywordsIn["DISHWASHER"] = {"WASHER", "DISHWASHER"}
  /\ KeywordsIn[""] = {} /\ KeywordsIn["UNKNOWN"] = {}
-----------------------------------------------------------------------------
(***************************************************************************)
(* Type texts.                                                             *)
(***************************************************************************)
\* Mutant for TypesReadBack: a keyword is forgotten.
KeywordsWithoutDryer ==
  <<"AirConditioner", "Washer", "Refrigerator", "AirPurifier", "Dishwasher", "Oven",
    "RobotCleaner", "WaterPurifier">>

\* The order in which parse_device_type looks for the types' keywords.
KeywordOrder ==
  <<"AirConditioner", "Washer", "Dryer", "Refrigerator", "AirPurifier", "Dishwasher",
    "Oven", "RobotCleaner", "WaterPurifier">>

parse_device_type(text) ==
  LET Found == {i \in DOMAIN KeywordOrder : TypeName[KeywordOrder[i]] \in KeywordsIn[text]}
  IN  IF Found = {} THEN "Unknown" ELSE KeywordOrder[Min(Found)]
-----------------------------------------------------------------------------
(***************************************************************************)
(* Reading objects.                                                        *)
(***************************************************************************)
Member(o, k, default) == IF k \in DOMAIN o THEN o[k] ELSE default

Str(o, k) == Member(o, k, "")
Info(o) == Member(o, "deviceInfo", <<>>)

InfoKey == {"alias", "modelName", "deviceType", "deviceTypeCode", "reportable"}

WellTyped(o, keys) == \A k \in keys \cap DOMAIN o : o[k] # IllTyped

\* ThinQDevicePayload, and the ThinQDeviceInfoPayload in it.
ItemReadable(o) ==
  /\ o # IllTyped
  /\ WellTyped(o, InfoKey \cup {"deviceId", "deviceInfo"})
  /\ WellTyped(Info(o), InfoKey)

ListReadable(v) == v # IllTyped /\ \A i \in DOMAIN v : ItemReadable(v[i])

\* ThinQDevicesResponse, and ThinQLegacyDevicesResponse.
Current(body) == Member(body, "response", <<>>)
Legacy(body) == Member(Member(body, "result", <<>>), "devices", <<>>)

\* The entries get_devices reads: the legacy format is tried only if the current
\* one fails, and a list that is missing is an empty list in both.
ListParses(body) == body # NotJson /\ (ListReadable(Current(body)) \/ ListReadable(Legacy(body)))

Entries(body) == IF ListReadable(Current(body)) THEN Current(body) ELSE Legacy(body)
-----------------------------------------------------------------------------
(***************************************************************************)
(* What is made of them.                                                   *)
(***************************************************************************)
\* Mutant for PollKeepsType: only the outer object is looked at.
ExtractOuter(o) ==
  IF o = IllTyped THEN "Unknown" ELSE parse_device_type(Str(o, "deviceType"))

first_non_empty(values) ==
  LET Full == {i \in DOMAIN values : values[i] # ""}
  IN  IF Full = {} THEN "" ELSE values[Min(Full)]

\* One turn of the loop of to_device_infos.
ToDeviceInfo(o) ==
  LET id == Str(o, "deviceId")
      alias == first_non_empty(<<Str(Info(o), "alias"), Str(o, "alias")>>)
      model == first_non_empty(<<Str(Info(o), "modelName"), Str(o, "modelName")>>)
      text == first_non_empty(<<Str(Info(o), "deviceType"), Str(o, "deviceType"),
                                Str(Info(o), "deviceTypeCode"), Str(o, "deviceTypeCode")>>)
  IN  [device_id |-> id,
       device_name |-> first_non_empty(<<alias, model, id>>),
       type |-> parse_device_type(text),
       reportable |-> Member(Info(o), "reportable", TRUE) \/ Member(o, "reportable", TRUE)]

\* The first of the object and the one inside that has a deviceType that is a
\* string, an empty one included.
extract_device_type(o) ==
  LET HasType(p) == p # IllTyped /\ Member(p, "deviceType", IllTyped) # IllTyped
  IN  CASE HasType(o) -> parse_device_type(o.deviceType)
        [] o # IllTyped /\ ~HasType(o) /\ HasType(Info(o)) ->
             parse_device_type(Info(o).deviceType)
        [] OTHER -> "Unknown"

\* The status get_device_status returns: online, unless the reply says otherwise.
ToStatus(body) ==
  LET payload == Member(body, "response", IllTyped)
      online == IF payload = IllTyped THEN TRUE ELSE Member(payload, "online", TRUE)
  IN  [type |-> extract_device_type(payload),
       online |-> IF online = IllTyped THEN TRUE ELSE online]
=============================================================================
