--------------------------- MODULE ApiCallsProofs ---------------------------
(***************************************************************************)
(* The properties of ApiCalls, proved for lists and values of any length,  *)
(* ids of any number of bytes, and whatever the cloud replies.  The        *)
(* invariant has one part for the id, one for the value of a command, one  *)
(* for the call in progress, one for the listing and one for the object.   *)
(***************************************************************************)
EXTENDS ApiCalls, CallTextProofs

(***************************************************************************)
(* What is read of an object.                                              *)
(***************************************************************************)
\* The place found first is the first one.
LEMMA FirstFound ==
  ASSUME NEW S, NEW n \in Nat, S \subseteq 1 .. n, NEW i \in S, \A j \in 1 .. n : j < i => j \notin S
  PROVE  S # {} /\ Min(S) = i
<1>1. S \in SUBSET Nat /\ S # {} /\ i \in Nat
  OBVIOUS
<1>2. Min(S) \in S /\ Min(S) <= i
  BY <1>1, MinIsFirst
<1>3. Min(S) \in 1 .. n /\ ~(Min(S) < i)
  BY <1>2
<1> QED
  BY <1>1, <1>2, <1>3

\* Every text is taken for a type,
LEMMA ParsedType ==
  ASSUME NEW text
  PROVE  parse_device_type(text) \in DeviceType
<1> DEFINE Found == {i \in DOMAIN KeywordOrder : TypeName[KeywordOrder[i]] \in KeywordsIn[text]}
<1>1. \A i \in 1 .. 9 : KeywordOrder[i] \in DeviceType
  <2> SUFFICES ASSUME NEW i \in 1 .. 9 PROVE KeywordOrder[i] \in DeviceType
    OBVIOUS
  <2>1. i = 1 \/ i = 2 \/ i = 3 \/ i = 4 \/ i = 5 \/ i = 6 \/ i = 7 \/ i = 8 \/ i = 9
    OBVIOUS
  <2> QED
    BY <2>1 DEF KeywordOrder, DeviceType
<1>2. DOMAIN KeywordOrder = 1 .. 9
  BY DEF KeywordOrder
<1>3. Found # {} => Min(Found) \in 1 .. 9
  <2>1. Found \in SUBSET Nat /\ Found \subseteq 1 .. 9
    BY <1>2
  <2> HIDE DEF Found
  <2> QED
    BY <2>1, MinIsFirst
<1>4. parse_device_type(text) = IF Found = {} THEN "Unknown" ELSE KeywordOrder[Min(Found)]
  BY DEF parse_device_type
<1> HIDE DEF Found
<1> QED
  BY <1>1, <1>3, <1>4 DEF DeviceType

\* and a type's name for that type, the dishwasher's excepted.
LEMMA ParsedName ==
  ASSUME NEW t \in DeviceType
  PROVE  parse_device_type(TypeName[t]) = IF t = "Dishwasher" THEN "Washer" ELSE t
<1> DEFINE Found == {i \in DOMAIN KeywordOrder :
                       TypeName[KeywordOrder[i]] \in KeywordsIn[TypeName[t]]}
           p == parse_device_type(TypeName[t])
<1>1. p = IF Found = {} THEN "Unknown" ELSE KeywordOrder[Min(Found)]
  BY DEF parse_device_type
<1>2. Found \subseteq 1 .. 9
  BY DEF KeywordOrder
<1>3. \A i \in 1 .. 9 : i \in Found <=> TypeName[KeywordOrder[i]] \in KeywordsIn[TypeName[t]]
  BY DEF KeywordOrder
<1> HIDE DEF Found, p
<1>4. ASSUME NEW k \in 1 .. 9, k \in Found, \A j \in 1 .. 9 : j < k => j \notin Found
      PROVE  p = KeywordOrder[k]
  BY <1>1, <1>2, <1>4, FirstFound
<1>5. /\ KeywordOrder[1] = "AirConditioner" /\ KeywordOrder[2] = "Washer"
      /\ KeywordOrder[3] = "Dryer" /\ KeywordOrder[4] = "Refrigerator"
      /\ KeywordOrder[5] = "AirPurifier" /\ KeywordOrder[6] = "Dishwasher"
      /\ KeywordOrder[7] = "Oven" /\ KeywordOrder[8] = "RobotCleaner"
      /\ KeywordOrder[9] = "WaterPurifier"
  BY DEF KeywordOrder
<1>6. \A i \in 1 .. 9 : i = 1 \/ i = 2 \/ i = 3 \/ i = 4 \/ i = 5 \/ i = 6 \/ i = 7 \/ i = 8 \/ i = 9
  OBVIOUS
<1>7. CASE t = "Unknown"
  <2>1. \A i \in 1 .. 9 : i \notin Found
    BY <1>3, <1>7, RepliesAssumption DEF TypeName
  <2> QED
    BY <1>1, <1>2, <1>7, <2>1 DEF p
<1>8. CASE t = "Dishwasher"
  <2>1. KeywordsIn[TypeName[t]] = {"WASHER", "DISHWASHER"}
    BY <1>8, RepliesAssumption DEF TypeName
  <2>2. 2 \in Found /\ 1 \notin Found
    BY <1>3, <1>5, <2>1 DEF TypeName
  <2>3. \A j \in 1 .. 9 : j < 2 => j \notin Found
    BY <2>2
  <2> QED
    BY <1>4, <1>5, <1>8, <2>2, <2>3 DEF p
<1>9. CASE t \notin {"Unknown", "Dishwasher"}
  <2>1. KeywordsIn[TypeName[t]] = {TypeName[t]}
    BY <1>9, RepliesAssumption
  <2>2. \A i \in 1 .. 9 : i \in Found <=> TypeName[KeywordOrder[i]] = TypeName[t]
    BY <1>3, <2>1
  <2>3. \A i \in 1 .. 9 : i \in Found <=> KeywordOrder[i] = t
    <3>1. \A s \in DeviceType : TypeName[s] = TypeName[t] <=> s = t
      BY DEF TypeName, DeviceType
    <3>2. \A i \in 1 .. 9 : KeywordOrder[i] \in DeviceType
      BY <1>5, <1>6 DEF DeviceType
    <3> QED
      BY <2>2, <3>1, <3>2
  <2>4. \E k \in 1 .. 9 : KeywordOrder[k] = t
    BY <1>5, <1>9 DEF DeviceType
  <2>5. PICK k \in 1 .. 9 : KeywordOrder[k] = t
    BY <2>4
  <2>6. \A j \in 1 .. 9 : j < k => KeywordOrder[j] # KeywordOrder[k]
    BY <1>5, <1>6
  <2> QED
    BY <1>4, <1>9, <2>3, <2>5, <2>6 DEF p
<1> QED
  BY <1>7, <1>8, <1>9 DEF p

\* The first text that is not empty, of two, of three and of four.
LEMMA FirstNonEmpty ==
  /\ \A a, b : first_non_empty(<<a, b>>) = IF a # "" THEN a ELSE b
  /\ \A a, b, c :
       first_non_empty(<<a, b, c>>) = IF a # "" THEN a ELSE IF b # "" THEN b ELSE c
  /\ \A a, b, c, d :
       first_non_empty(<<a, b, c, d>>) =
         IF a # "" THEN a ELSE IF b # "" THEN b ELSE IF c # "" THEN c ELSE d
<1>1. ASSUME NEW n \in Nat, NEW s, DOMAIN s = 1 .. n
      PROVE  /\ (\A i \in 1 .. n : s[i] = "") => first_non_empty(s) = ""
             /\ \A i \in 1 .. n :
                  s[i] # "" /\ (\A j \in 1 .. n : j < i => s[j] = "") => first_non_empty(s) = s[i]
  <2> DEFINE Full == {i \in DOMAIN s : s[i] # ""}
  <2>1. first_non_empty(s) = IF Full = {} THEN "" ELSE s[Min(Full)]
    BY DEF first_non_empty
  <2>2. Full \subseteq 1 .. n /\ \A i \in 1 .. n : i \in Full <=> s[i] # ""
    BY <1>1
  <2> HIDE DEF Full
  <2>3. (\A i \in 1 .. n : s[i] = "") => first_non_empty(s) = ""
    BY <2>1, <2>2
  <2>4. ASSUME NEW i \in 1 .. n, s[i] # "", \A j \in 1 .. n : j < i => s[j] = ""
        PROVE  first_non_empty(s) = s[i]
    <3>1. i \in Full /\ \A j \in 1 .. n : j < i => j \notin Full
      BY <2>2, <2>4
    <3>2. Full # {} /\ Min(Full) = i
      BY <2>2, <3>1, FirstFound
    <3> QED
      BY <2>1, <3>2
  <2> QED
    BY <2>3, <2>4
<1>2. ASSUME NEW a, NEW b
      PROVE  first_non_empty(<<a, b>>) = IF a # "" THEN a ELSE b
  <2> DEFINE s == <<a, b>>
  <2>1. DOMAIN s = 1 .. 2 /\ s[1] = a /\ s[2] = b
    OBVIOUS
  <2> HIDE DEF s
  <2>2. /\ (\A i \in 1 .. 2 : s[i] = "") => first_non_empty(s) = ""
        /\ \A i \in 1 .. 2 :
             s[i] # "" /\ (\A j \in 1 .. 2 : j < i => s[j] = "") => first_non_empty(s) = s[i]
    BY <1>1, <2>1
  <2>3. first_non_empty(s) = IF a # "" THEN a ELSE b
    <3>1. CASE a # ""
      <4>1. 1 \in 1 .. 2 /\ \A j \in 1 .. 2 : ~(j < 1)
        OBVIOUS
      <4> QED
        BY <2>1, <2>2, <3>1, <4>1
    <3>2. CASE a = "" /\ b # ""
      <4>1. 2 \in 1 .. 2 /\ \A j \in 1 .. 2 : j < 2 => j = 1
        OBVIOUS
      <4> QED
        BY <2>1, <2>2, <3>2, <4>1
    <3>3. CASE a = "" /\ b = ""
      <4>1. \A i \in 1 .. 2 : i = 1 \/ i = 2
        OBVIOUS
      <4> QED
        BY <2>1, <2>2, <3>3, <4>1
    <3> QED
      BY <3>1, <3>2, <3>3
  <2> QED
    BY <2>3 DEF s
<1>3. ASSUME NEW a, NEW b, NEW c
      PROVE  first_non_empty(<<a, b, c>>) = IF a # "" THEN a ELSE IF b # "" THEN b ELSE c
  <2> DEFINE s == <<a, b, c>>
  <2>1. DOMAIN s = 1 .. 3 /\ s[1] = a /\ s[2] = b /\ s[3] = c
    OBVIOUS
  <2> HIDE DEF s
  <2>2. /\ (\A i \in 1 .. 3 : s[i] = "") => first_non_empty(s) = ""
        /\ \A i \in 1 .. 3 :
             s[i] # "" /\ (\A j \in 1 .. 3 : j < i => s[j] = "") => first_non_empty(s) = s[i]
    BY <1>1, <2>1
  <2>3. first_non_empty(s) = IF a # "" THEN a ELSE IF b # "" THEN b ELSE c
    <3>1. CASE a # ""
      <4>1. 1 \in 1 .. 3 /\ \A j \in 1 .. 3 : ~(j < 1)
        OBVIOUS
      <4> QED
        BY <2>1, <2>2, <3>1, <4>1
    <3>2. CASE a = "" /\ b # ""
      <4>1. 2 \in 1 .. 3 /\ \A j \in 1 .. 3 : j < 2 => j = 1
        OBVIOUS
      <4> QED
        BY <2>1, <2>2, <3>2, <4>1
    <3>3. CASE a = "" /\ b = "" /\ c # ""
      <4>1. 3 \in 1 .. 3 /\ \A j \in 1 .. 3 : j < 3 => j = 1 \/ j = 2
        OBVIOUS
      <4> QED
        BY <2>1, <2>2, <3>3, <4>1
    <3>4. CASE a = "" /\ b = "" /\ c = ""
      <4>1. \A i \in 1 .. 3 : i = 1 \/ i = 2 \/ i = 3
        OBVIOUS
      <4> QED
        BY <2>1, <2>2, <3>4, <4>1
    <3> QED
      BY <3>1, <3>2, <3>3, <3>4
  <2> QED
    BY <2>3 DEF s
<1>4. ASSUME NEW a, NEW b, NEW c, NEW d
      PROVE  first_non_empty(<<a, b, c, d>>) = IF a # "" THEN a ELSE IF b # "" THEN b ELSE IF c # "" THEN c ELSE d
  <2> DEFINE s == <<a, b, c, d>>
  <2>1. DOMAIN s = 1 .. 4 /\ s[1] = a /\ s[2] = b /\ s[3] = c /\ s[4] = d
    OBVIOUS
  <2> HIDE DEF s
  <2>2. /\ (\A i \in 1 .. 4 : s[i] = "") => first_non_empty(s) = ""
        /\ \A i \in 1 .. 4 :
             s[i] # "" /\ (\A j \in 1 .. 4 : j < i => s[j] = "") => first_non_empty(s) = s[i]
    BY <1>1, <2>1
  <2>3. first_non_empty(s) = IF a # "" THEN a ELSE IF b # "" THEN b ELSE IF c # "" THEN c ELSE d
    <3>1. CASE a # ""
      <4>1. 1 \in 1 .. 4 /\ \A j \in 1 .. 4 : ~(j < 1)
        OBVIOUS
      <4> QED
        BY <2>1, <2>2, <3>1, <4>1
    <3>2. CASE a = "" /\ b # ""
      <4>1. 2 \in 1 .. 4 /\ \A j \in 1 .. 4 : j < 2 => j = 1
        OBVIOUS
      <4> QED
        BY <2>1, <2>2, <3>2, <4>1
    <3>3. CASE a = "" /\ b = "" /\ c # ""
      <4>1. 3 \in 1 .. 4 /\ \A j \in 1 .. 4 : j < 3 => j = 1 \/ j = 2
        OBVIOUS
      <4> QED
        BY <2>1, <2>2, <3>3, <4>1
    <3>4. CASE a = "" /\ b = "" /\ c = "" /\ d # ""
      <4>1. 4 \in 1 .. 4 /\ \A j \in 1 .. 4 : j < 4 => j = 1 \/ j = 2 \/ j = 3
        OBVIOUS
      <4> QED
        BY <2>1, <2>2, <3>4, <4>1
    <3>5. CASE a = "" /\ b = "" /\ c = "" /\ d = ""
      <4>1. \A i \in 1 .. 4 : i = 1 \/ i = 2 \/ i = 3 \/ i = 4
        OBVIOUS
      <4> QED
        BY <2>1, <2>2, <3>5, <4>1
    <3> QED
      BY <3>1, <3>2, <3>3, <3>4, <3>5
  <2> QED
    BY <2>3 DEF s
<1> QED
  BY <1>2, <1>3, <1>4

\* What is made of an entry that has an id.
LEMMA MadeOfEntry ==
  ASSUME NEW o, Str(o, "deviceId") # ""
  PROVE  LET i == ToDeviceInfo(o)
         IN  /\ i.device_id # "" /\ i.device_name # ""
             /\ i.type \in DeviceType /\ i.reportable \in BOOLEAN
<1> DEFINE i == ToDeviceInfo(o)
<1>1. i.device_id = Str(o, "deviceId")
  BY DEF ToDeviceInfo
<1>2. i.device_name # ""
  <2>1. PICK x, y : i.device_name = first_non_empty(<<x, y, Str(o, "deviceId")>>)
    BY DEF ToDeviceInfo
  <2>2. \A a, b, c :
          first_non_empty(<<a, b, c>>) = IF a # "" THEN a ELSE IF b # "" THEN b ELSE c
    BY FirstNonEmpty, Zenon
  <2>3. first_non_empty(<<x, y, Str(o, "deviceId")>>) =
          IF x # "" THEN x ELSE IF y # "" THEN y ELSE Str(o, "deviceId")
    BY <2>2, Zenon
  <2>4. first_non_empty(<<x, y, Str(o, "deviceId")>>) # ""
    BY <2>3
  <2> QED
    BY <2>1, <2>4, Zenon
<1>3. PICK x : i.type = parse_device_type(x)
  BY DEF ToDeviceInfo
<1>4. i.reportable \in BOOLEAN
  BY DEF ToDeviceInfo
<1> QED
  BY <1>1, <1>2, <1>3, <1>4, ParsedType

\* The one type text that an entry has is the one that is parsed.
LEMMA TypeOfEntry ==
  ASSUME NEW o
  PROVE  LET inside == Str(Info(o), "deviceType")
             outside == Str(o, "deviceType")
         IN  /\ inside # "" => ToDeviceInfo(o).type = parse_device_type(inside)
             /\ inside = "" /\ outside # "" =>
                  ToDeviceInfo(o).type = parse_device_type(outside)
<1> DEFINE inside == Str(Info(o), "deviceType")
           outside == Str(o, "deviceType")
<1>1. PICK x, y : ToDeviceInfo(o).type =
                    parse_device_type(first_non_empty(<<inside, outside, x, y>>))
  BY DEF ToDeviceInfo
<1> HIDE DEF inside, outside
<1>2. \A a, b, c, d : first_non_empty(<<a, b, c, d>>) =
        IF a # "" THEN a ELSE IF b # "" THEN b ELSE IF c # "" THEN c ELSE d
  BY FirstNonEmpty, Zenon
<1>3. first_non_empty(<<inside, outside, x, y>>) =
        IF inside # "" THEN inside ELSE IF outside # "" THEN outside ELSE IF x # "" THEN x ELSE y
  BY ONLY <1>2, ZenonT(60)
<1>4. /\ inside # "" => first_non_empty(<<inside, outside, x, y>>) = inside
      /\ inside = "" /\ outside # "" => first_non_empty(<<inside, outside, x, y>>) = outside
  BY <1>3
<1> QED
  BY <1>1, <1>4, Zenon DEF inside, outside

\* The name of a type that an entry has and no other text is read back.
LEMMA NameReadBack ==
  ASSUME NEW o, NEW t \in DeviceType \ {"Dishwasher"}, TypeTexts(o) = {TypeName[t]}
  PROVE  ToDeviceInfo(o).type = t
<1> DEFINE inside == Str(Info(o), "deviceType")
           outside == Str(o, "deviceType")
<1>1. \A x \in {outside, inside} \ {""} : x = TypeName[t]
  BY DEF TypeTexts
<1>2. inside # "" \/ outside # ""
  BY DEF TypeTexts
<1>3. inside # "" => inside = TypeName[t]
  BY <1>1
<1>4. outside # "" => outside = TypeName[t]
  BY <1>1
<1> HIDE DEF inside, outside
<1>5. /\ inside # "" => ToDeviceInfo(o).type = parse_device_type(inside)
      /\ inside = "" /\ outside # "" => ToDeviceInfo(o).type = parse_device_type(outside)
  BY TypeOfEntry DEF inside, outside
<1>6. ToDeviceInfo(o).type = parse_device_type(TypeName[t])
  BY <1>2, <1>3, <1>4, <1>5
<1> QED
  BY <1>6, ParsedName

\* The reader of a status takes the same type from such an entry as the reader of a list.
LEMMA SameTypeText ==
  ASSUME NEW o, ItemReadable(o), OneTypeText(o)
  PROVE  extract_device_type(o) = ToDeviceInfo(o).type
<1> DEFINE inside == Str(Info(o), "deviceType")
           outside == Str(o, "deviceType")
           HasType(p) == p # IllTyped /\ Member(p, "deviceType", IllTyped) # IllTyped
<1>1. o # IllTyped /\ ("deviceType" \in DOMAIN o => o["deviceType"] # IllTyped)
      /\ ("deviceInfo" \in DOMAIN o => o["deviceInfo"] # IllTyped)
      /\ ("deviceType" \in DOMAIN Info(o) => Info(o)["deviceType"] # IllTyped)
  BY DEF ItemReadable, WellTyped, InfoKey
<1>2. Info(o) # IllTyped
  BY <1>1, RepliesAssumption DEF Info, Member
<1>3. /\ inside # "" => ToDeviceInfo(o).type = parse_device_type(inside)
      /\ inside = "" /\ outside # "" => ToDeviceInfo(o).type = parse_device_type(outside)
  BY TypeOfEntry
<1>4. extract_device_type(o) =
        IF HasType(o) THEN parse_device_type(o["deviceType"])
        ELSE IF o # IllTyped /\ HasType(Info(o)) THEN parse_device_type(Info(o)["deviceType"])
        ELSE "Unknown"
  BY DEF extract_device_type
<1>5. CASE "deviceType" \notin DOMAIN o /\ inside # ""
  <2>1. "deviceType" \in DOMAIN Info(o) /\ inside = Info(o)["deviceType"]
    BY <1>5 DEF Str, Member
  <2>2. ~HasType(o) /\ HasType(Info(o))
    BY <1>1, <1>2, <1>5, <2>1 DEF Member
  <2> QED
    BY <1>1, <1>3, <1>4, <1>5, <2>1, <2>2
<1>6. CASE outside # "" /\ inside \in {"", outside}
  <2>1. "deviceType" \in DOMAIN o /\ outside = o["deviceType"]
    BY <1>6 DEF Str, Member
  <2>2. HasType(o)
    BY <1>1, <2>1 DEF Member
  <2> QED
    BY <1>3, <1>4, <1>6, <2>1, <2>2
<1> QED
  BY <1>5, <1>6 DEF OneTypeText

\* A status has a type and a boolean.
LEMMA StatusTyped ==
  ASSUME NEW b \in StatusReply \ {NotJson}
  PROVE  IsStatus(ToStatus(b))
<1> DEFINE payload == Member(b, "response", IllTyped)
           online == IF payload = IllTyped THEN TRUE ELSE Member(payload, "online", TRUE)
<1>1. /\ ToStatus(b).type = extract_device_type(payload)
      /\ ToStatus(b).online = IF online = IllTyped THEN TRUE ELSE online
  BY DEF ToStatus
<1>2. extract_device_type(payload) \in DeviceType
  <2>1. extract_device_type(payload) = "Unknown"
        \/ \E x : extract_device_type(payload) = parse_device_type(x)
    BY DEF extract_device_type
  <2> QED
    BY <2>1, ParsedType DEF DeviceType
<1>3. payload # IllTyped => online \in BOOLEAN \cup {IllTyped}
  <2>1. payload # IllTyped => Current(b) = payload
    BY DEF Current, Member
  <2> HIDE DEF payload
  <2> QED
    BY <2>1, ReplyTypes
<1>4. online = IllTyped \/ online \in BOOLEAN
  BY <1>3
<1> HIDE DEF online, payload
<1> QED
  BY <1>1, <1>2, <1>4 DEF IsStatus
-----------------------------------------------------------------------------
(***************************************************************************)
(* The inductive invariant, one part for each part of a call.              *)
(***************************************************************************)
\* The letters are behind the bytes by the bits held, until the last one is written.
IdPart == IdTypeOK /\ MessageIdFaithful /\ (stage # "ready" => Held)

\* The value of a command is escaped by the time the headers are made.
TextPart == TextInv /\ (op = "send_command" /\ stage # "escape" => Escaped)

\* Devices are listed before there is an object, and only an object makes the
\* other calls.
OpPart ==
  /\ stage \in Stage /\ op \in Operation
  /\ Listing => op = "get_devices"
  /\ op = "get_devices" => object = NoObject
  /\ op \in {"get_device_status", "send_command"} => object # NoObject
  /\ result \in {"none", "Success", "ParseError", "InvalidRequest"}

\* What is listed was made of entries with ids, from the first to some place.
Made(entries) == {ToDeviceInfo(entries[j]) : j \in Named(entries)}

ListPart ==
  /\ stage = "read" => body \in IF op = "get_devices" THEN ListReply ELSE StatusReply
  /\ ~Listing => listed = <<>>
  /\ Listing =>
       /\ body \in ListReply /\ ListParses(body)
       /\ listed \in Seq(Made(Entries(body)))
       /\ \E n \in 0 .. Len(Entries(body)) : ListedUpTo(Entries(body), n)

\* An object keeps what it was made of.
ObjectPart ==
  object # NoObject =>
    /\ object = [entry |-> object.entry, info |-> object.info, status |-> object.status]
    /\ object.info = ToDeviceInfo(object.entry)
    /\ ItemReadable(object.entry) /\ Str(object.entry, "deviceId") # ""
    /\ IsStatus(object.status)

CallInv == IdPart /\ TextPart /\ OpPart /\ ListPart /\ ObjectPart
-----------------------------------------------------------------------------
(***************************************************************************)
(* Ids and texts.                                                          *)
(***************************************************************************)
\* Nothing is encoded at first.
LEMMA NoIdYet ==
  ASSUME bytes = <<>>, buffer = 0, bits = 0, out = <<>>
  PROVE  IdInv
<1>1. Len(bytes) = 0 /\ Len(out) = 0 /\ DOMAIN out = {} /\ 0 \in 0 .. BufferModulus - 1
  BY IdAssumption
<1>2. bytes \in Seq(0 .. 255) /\ out \in Seq(0 .. 63)
  OBVIOUS
<1> QED
  BY <1>1, <1>2 DEF IdInv, IdTypeOK, MessageIdFaithful, Held

\* The same, in the next state.
LEMMA NoIdNext ==
  ASSUME bytes' = <<>>, buffer' = 0, bits' = 0, out' = <<>>
  PROVE  IdInv'
<1>1. Len(bytes') = 0 /\ Len(out') = 0 /\ DOMAIN out' = {} /\ 0 \in 0 .. BufferModulus - 1
  BY IdAssumption
<1>2. bytes' \in Seq(0 .. 255) /\ out' \in Seq(0 .. 63)
  OBVIOUS
<1> QED
  BY <1>1, <1>2 DEF IdInv, IdTypeOK, MessageIdFaithful, Held

\* What no step touches stays faithful.
LEMMA IdSame ==
  ASSUME UNCHANGED idVars
  PROVE  /\ IdTypeOK => IdTypeOK'
         /\ MessageIdFaithful => MessageIdFaithful'
         /\ Held => Held'
BY DEF idVars, IdTypeOK, MessageIdFaithful, Held

\* A call makes one id, byte by byte, and drops it when the request is sent.
LEMMA IdStep ==
  ASSUME IdPart, [Next]_vars
  PROVE  IdPart'
<1> USE DEF IdPart
<1>1. ASSUME IdInv' PROVE IdPart'
  BY <1>1 DEF IdInv
<1>2. ASSUME NEW name, NEW first, Begin(name, first) PROVE IdPart'
  BY <1>1, <1>2, NoIdNext DEF Begin
<1>3. ASSUME NEW code, Return(code) PROVE IdPart'
  BY <1>1, <1>3, NoIdNext DEF Return
<1>4. ASSUME UNCHANGED idVars, stage' # "ready", stage # "ready" PROVE IdPart'
  BY <1>4, IdSame
<1>5. CASE get_devices
  BY <1>2, <1>5 DEF get_devices
<1>6. CASE update_status
  BY <1>2, <1>6 DEF update_status
<1>7. CASE \E v \in Value : send_command(v)
  BY <1>2, <1>7 DEF send_command
<1>8. CASE Escape
  BY <1>4, <1>8 DEF Escape
<1>9. CASE make_common_headers
  <2>1. IdInv
    BY <1>9 DEF make_common_headers, IdInv
  <2>2. CASE \E b \in Byte : EncodeByte(b)
    BY <1>1, <2>1, <2>2, EncodeByteKeeps
  <2>3. CASE EncodeRest /\ stage' = "ready"
    BY <2>1, <2>3, EncodeRestKeeps
  <2> QED
    BY <1>9, <2>2, <2>3 DEF make_common_headers
<1>10. CASE CheckBody
  BY <1>3, <1>10 DEF CheckBody
<1>11. CASE Request
  BY <1>1, <1>11, NoIdNext DEF Request
<1>12. CASE ParseError
  BY <1>3, <1>12 DEF ParseError
<1>13. CASE StoreStatus
  BY <1>3, <1>13 DEF StoreStatus
<1>14. CASE CommandDone
  BY <1>3, <1>14 DEF CommandDone
<1>15. CASE ReadList
  BY <1>4, <1>15 DEF ReadList
<1>16. CASE ListNext
  BY <1>4, <1>16 DEF ListNext
<1>17. CASE Listed
  BY <1>4, <1>17 DEF Listed
<1>18. CASE create_device
  BY <1>3, <1>18 DEF create_device
<1>19. CASE UNCHANGED vars
  BY <1>19, IdSame DEF vars
<1> QED
  BY <1>5, <1>6, <1>7, <1>8, <1>9, <1>10, <1>11, <1>12, <1>13, <1>14, <1>15, <1>16, <1>17,
     <1>18, <1>19 DEF Next

\* What no step touches stays escaped as far as it was.
LEMMA TextSame ==
  ASSUME UNCHANGED textVars
  PROVE  (TextInv => TextInv') /\ (Escaped => Escaped')
<1>1. value' = value /\ escaped_value' = escaped_value /\ pos' = pos
  BY DEF textVars
<1>2. Quotes' = Quotes /\ QuotesLeft' = QuotesLeft
  BY <1>1 DEF Quotes, QuotesLeft
<1>3. \A n : EscapedUpTo(n) = EscapedUpTo(n)' /\ Place(n) = Place(n)'
  BY <1>1, <1>2 DEF EscapedUpTo, Place
<1>4. EscapedSoFar => EscapedSoFar'
  BY <1>1, <1>3 DEF EscapedSoFar
<1> QED
  BY <1>1, <1>2, <1>4 DEF TextInv, TextTypeOK, Escaped

\* Nothing is escaped in a text that begins.
LEMMA TextBegins ==
  ASSUME value' \in Seq(Symbol), escaped_value' = value', pos' = 1
  PROVE  TextInv'
<1>1. \A p \in Quotes' : p \in Nat \ {0}
  BY DEF Quotes
<1>2. Rank(Quotes', 0) = 0
  BY <1>1, RankZero
<1>3. /\ Len(value') \in Nat /\ Len(value') = Len(value') + 0
      /\ \A i \in 1 .. 0 : FALSE
      /\ \A i \in 0 + 1 .. Len(value') : i + 0 = i
  BY LenProperties
<1>4. EscapedUpTo(0)'
  BY <1>2, <1>3, Zenon DEF EscapedUpTo
<1>5. 0 \in (0 .. Len(value))' /\ (pos = Place(0) + 1)'
  BY <1>2, <1>3 DEF Place
<1> QED
  BY <1>4, <1>5 DEF TextInv, TextTypeOK, EscapedSoFar

\* A command escapes its value before it makes the headers.
LEMMA TextStep ==
  ASSUME TextPart, OpPart, [Next]_vars
  PROVE  TextPart'
<1> USE DEF TextPart
<1>1. ASSUME UNCHANGED textVars, op' = op, stage # "escape" \/ stage' = stage PROVE TextPart'
  BY <1>1, TextSame
<1>2. ASSUME UNCHANGED textVars, op' # "send_command" PROVE TextPart'
  BY <1>2, TextSame
<1>3. ASSUME NEW code, Return(code) PROVE TextPart'
  <2>1. value' = <<>> /\ escaped_value' = <<>> /\ pos' = 1 /\ op' = "none"
    BY <1>3 DEF Return
  <2>2. <<>> \in Seq(Symbol)
    OBVIOUS
  <2> QED
    BY <2>1, <2>2, TextBegins
<1>4. CASE get_devices
  BY <1>2, <1>4 DEF get_devices, Begin
<1>5. CASE update_status
  BY <1>2, <1>5 DEF update_status, Begin
<1>6. ASSUME NEW v \in Value, send_command(v) PROVE TextPart'
  <2>1. v \in Seq(Symbol)
    BY ValueAssumption
  <2>2. TextInv'
    BY <1>6, <2>1, TextBegins DEF send_command, TakeValue
  <2> QED
    BY <1>6, <2>2 DEF send_command, Begin
<1>7. CASE Escape
  <2>1. CASE Escaped
    BY <1>7, <2>1, TextSame DEF Escape
  <2>2. CASE ~Escaped
    BY <1>7, <2>2, EscapeNextKeeps DEF Escape
  <2> QED
    BY <2>1, <2>2
<1>8. CASE make_common_headers
  BY <1>1, <1>8 DEF make_common_headers
<1>9. CASE CheckBody
  BY <1>3, <1>9 DEF CheckBody
<1>10. CASE Request
  BY <1>1, <1>10 DEF Request
<1>11. CASE ParseError
  BY <1>3, <1>11 DEF ParseError
<1>12. CASE StoreStatus
  BY <1>3, <1>12 DEF StoreStatus
<1>13. CASE CommandDone
  BY <1>3, <1>13 DEF CommandDone
<1>14. CASE ReadList
  BY <1>1, <1>14 DEF ReadList
<1>15. CASE ListNext
  BY <1>1, <1>15 DEF ListNext
<1>16. CASE Listed
  BY <1>1, <1>16 DEF Listed
<1>17. CASE create_device
  BY <1>3, <1>17 DEF create_device
<1>18. CASE UNCHANGED vars
  BY <1>1, <1>18 DEF vars
<1> QED
  BY <1>4, <1>5, <1>6, <1>7, <1>8, <1>9, <1>10, <1>11, <1>12, <1>13, <1>14, <1>15, <1>16,
     <1>17, <1>18 DEF Next
-----------------------------------------------------------------------------
(***************************************************************************)
(* The call in progress, and the listing.                                  *)
(***************************************************************************)
\* Only get_devices lists, and only before there is an object.
LEMMA OpStep ==
  ASSUME OpPart, [Next]_vars
  PROVE  OpPart'
<1> USE DEF OpPart, Stage, Operation, Listing
<1>1. CASE get_devices
  BY <1>1 DEF get_devices, Begin
<1>2. CASE update_status
  BY <1>2 DEF update_status, Begin
<1>3. ASSUME NEW v \in Value, send_command(v) PROVE OpPart'
  BY <1>3 DEF send_command, Begin
<1>4. CASE Escape
  BY <1>4 DEF Escape, callVars
<1>5. CASE make_common_headers
  BY <1>5 DEF make_common_headers, callVars
<1>6. ASSUME NEW code \in {"Success", "ParseError", "InvalidRequest"}, Return(code) PROVE OpPart'
  BY <1>6 DEF Return
<1>7. CASE CheckBody
  BY <1>6, <1>7 DEF CheckBody, Refusal
<1>8. CASE Request
  BY <1>8 DEF Request
<1>9. CASE ParseError
  BY <1>6, <1>9 DEF ParseError
<1>10. CASE StoreStatus
  BY <1>6, <1>10 DEF StoreStatus
<1>11. CASE CommandDone
  BY <1>6, <1>11 DEF CommandDone
<1>12. CASE ReadList
  BY <1>12 DEF ReadList
<1>13. CASE ListNext
  BY <1>13 DEF ListNext
<1>14. CASE Listed
  BY <1>14 DEF Listed, callVars
<1>15. CASE create_device
  BY <1>6, <1>15 DEF create_device
<1>16. CASE UNCHANGED vars
  BY <1>16 DEF vars, callVars
<1> QED
  BY <1>1, <1>2, <1>3, <1>4, <1>5, <1>7, <1>8, <1>9, <1>10, <1>11, <1>12, <1>13, <1>14,
     <1>15, <1>16 DEF Next

\* A list that parses is a sequence.
LEMMA EntriesList ==
  ASSUME NEW b \in ListReply, ListParses(b)
  PROVE  \E S : Entries(b) \in Seq(S)
<1>1. b # NotJson /\ Entries(b) \in {Current(b), Legacy(b)} /\ Entries(b) # IllTyped
  BY DEF ListParses, Entries, ListReadable
<1>2. Entries(b) \in Seq(Range(Entries(b)))
  BY <1>1, ReplyTypes
<1> QED
  BY <1>2

\* The places of entries with ids are places.
LEMMA NamedPlaces ==
  ASSUME NEW S, NEW entries \in Seq(S)
  PROVE  /\ \A p \in Named(entries) : p \in Nat \ {0} /\ p \in 1 .. Len(entries)
         /\ Rank(Named(entries), 0) = 0
<1>1. \A p \in Named(entries) : p \in 1 .. Len(entries)
  BY LenProperties DEF Named
<1>2. \A p \in 1 .. Len(entries) : p \in Nat \ {0}
  OBVIOUS
<1>3. \A p \in Named(entries) : p \in Nat \ {0}
  BY <1>1, <1>2
<1> QED
  BY <1>1, <1>3, RankZero

\* Before its first turn the listing has all the entries to come.
LEMMA ListingBegins ==
  ASSUME NEW S, NEW entries \in Seq(S), todo' = entries, listed' = <<>>
  PROVE  ListedUpTo(entries, 0)'
<1>1. /\ \A p \in Named(entries) : p \in Nat \ {0} /\ p \in 1 .. Len(entries)
      /\ Rank(Named(entries), 0) = 0
  BY NamedPlaces
<1>2. SubSeq(entries, 0 + 1, Len(entries)) = entries
  BY SubSeqFull
<1>3. \A j \in Named(entries) : ~(j <= 0)
  BY <1>1
<1> QED
  BY <1>1, <1>2, <1>3 DEF ListedUpTo

\* A turn of the listing takes the next entry.
LEMMA ListingGoesOn ==
  ASSUME NEW S, NEW entries \in Seq(S), NEW n \in 0 .. Len(entries),
         listed \in Seq(Made(entries)), ListedUpTo(entries, n), ListNext
  PROVE  /\ n + 1 \in 0 .. Len(entries) /\ ListedUpTo(entries, n + 1)'
         /\ listed' \in Seq(Made(entries))
<1> DEFINE N == Named(entries)
           r(k) == Rank(N, k)
           m == n + 1
<1>1. Len(entries) \in Nat /\ n \in Nat /\ n <= Len(entries) /\ m \in Nat
  BY LenProperties
<1>2. todo = SubSeq(entries, m, Len(entries)) /\ Len(listed) = r(n)
      /\ \A j \in N : j <= n => listed[r(j)] = ToDeviceInfo(entries[j])
  BY DEF ListedUpTo
<1>3. m <= Len(entries)
  <2> SUFFICES ASSUME ~(m <= Len(entries)) PROVE FALSE
    OBVIOUS
  <2>1. m > Len(entries) /\ m \in 1 .. Len(entries) + 1
    BY <1>1
  <2>2. SubSeq(entries, m, Len(entries)) = <<>>
    BY <1>1, <2>1, SubSeqEmpty
  <2> QED
    BY <1>2, <2>2 DEF ListNext
<1>4. Head(todo) = entries[m] /\ todo' = SubSeq(entries, m + 1, Len(entries))
  <2>1. m \in 1 .. Len(entries) + 1 /\ m \in 1 .. Len(entries) /\ Len(entries) \in m .. Len(entries)
    BY <1>1, <1>3
  <2> QED
    BY <1>1, <1>2, <2>1, HeadTailOfSubSeq DEF ListNext
<1>5. \A p \in N : p \in Nat \ {0}
  BY NamedPlaces
<1>6. m \in N <=> Str(Head(todo), "deviceId") # ""
  <2>1. m \in DOMAIN entries
    BY <1>1, <1>3
  <2> QED
    BY <1>4, <2>1 DEF Named
<1> HIDE DEF N
<1>7. r(n) \in Nat /\ \A j \in N : j <= n => r(j) \in 1 .. r(n)
  <2>1. r(n) \in Nat
    BY <1>1, <1>5, PlacesUpTo
  <2>2. ASSUME NEW j \in N, j <= n PROVE r(j) \in 1 .. r(n)
    <3>1. j \in Nat /\ 0 \in Nat /\ 0 < j /\ 0 <= j
      BY <1>5
    <3>2. r(j) <= r(n) /\ r(j) \in Nat /\ r(0) < r(j) /\ r(0) = 0
      BY <1>1, <1>5, <2>2, <3>1, RankGrows, RankZero, PlacesUpTo
    <3> QED
      BY <2>1, <3>2
  <2> QED
    BY <2>1, <2>2
<1>8. CASE m \notin N
  <2>1. r(m) = r(n)
    <3>1. \A k \in N : ~(n < k /\ k <= m)
      BY <1>1, <1>5, <1>8
    <3> QED
      BY <1>1, <1>5, <3>1, RankSame
  <2>2. listed' = listed
    BY <1>6, <1>8 DEF ListNext
  <2>3. \A j \in N : j <= m => j <= n
    BY <1>1, <1>5, <1>8
  <2>4. ListedUpTo(entries, m)'
    BY <1>2, <1>4, <2>1, <2>2, <2>3 DEF ListedUpTo, N
  <2> QED
    BY <1>1, <1>3, <2>2, <2>4
<1>9. CASE m \in N
  <2> DEFINE d == ToDeviceInfo(entries[m])
  <2>1. r(m) = r(n) + 1
    <3>1. m - 1 = n
      BY <1>1
    <3> QED
      BY <1>5, <1>9, <3>1, RankNext
  <2>2. listed' = Append(listed, d)
    BY <1>4, <1>6, <1>9 DEF ListNext
  <2>3. d \in Made(entries)
    BY <1>9 DEF Made, N
  <2> HIDE DEF d
  <2>4. listed' \in Seq(Made(entries)) /\ Len(listed') = r(n) + 1 /\ listed'[r(n) + 1] = d
        /\ \A i \in 1 .. r(n) : listed'[i] = listed[i]
    BY <1>2, <2>2, <2>3, AppendProperties
  <2>5. ASSUME NEW j \in N, j <= m PROVE listed'[r(j)] = ToDeviceInfo(entries[j])
    <3>1. CASE j <= n
      BY <1>2, <1>7, <2>4, <3>1
    <3>2. CASE j = m
      BY <2>1, <2>4, <3>2 DEF d
    <3> QED
      BY <1>1, <1>5, <2>5, <3>1, <3>2
  <2>6. ListedUpTo(entries, m)'
    BY <1>4, <2>1, <2>4, <2>5 DEF ListedUpTo, N
  <2> QED
    BY <1>1, <1>3, <2>4, <2>6
<1> QED
  BY <1>8, <1>9
-----------------------------------------------------------------------------
\* The listing goes from its first entry to its last.
LEMMA ListStep ==
  ASSUME OpPart, ListPart, [Next]_vars
  PROVE  ListPart'
<1>1. ASSUME ~Listing', stage' # "read", listed' = <<>> PROVE ListPart'
  BY <1>1 DEF ListPart
<1>2. ~Listing => listed = <<>>
  BY DEF ListPart
<1>3. ASSUME ~Listing, listed' = listed, stage' \in {"idle", "escape", "headers", "ready"}
      PROVE  ListPart'
  BY <1>1, <1>2, <1>3 DEF Listing
<1>4. ASSUME NEW code, Return(code) PROVE ListPart'
  BY <1>1, <1>4 DEF Return, Listing
<1>5. CASE get_devices
  BY <1>3, <1>5 DEF get_devices, Begin, Listing
<1>6. CASE update_status
  BY <1>3, <1>6 DEF update_status, Begin, Listing
<1>7. ASSUME NEW v \in Value, send_command(v) PROVE ListPart'
  BY <1>3, <1>7 DEF send_command, Begin, Listing
<1>8. CASE Escape
  BY <1>3, <1>8 DEF Escape, callVars, Listing
<1>9. CASE make_common_headers
  BY <1>3, <1>9 DEF make_common_headers, callVars, Listing
<1>10. CASE CheckBody
  BY <1>4, <1>10 DEF CheckBody
<1>11. CASE Request
  BY <1>2, <1>11 DEF Request, ListPart, Listing
<1>12. CASE ParseError
  BY <1>4, <1>12 DEF ParseError
<1>13. CASE StoreStatus
  BY <1>4, <1>13 DEF StoreStatus
<1>14. CASE CommandDone
  BY <1>4, <1>14 DEF CommandDone
<1>15. CASE ReadList
  <2>1. /\ body \in ListReply /\ ListParses(body) /\ listed = <<>>
        /\ body' = body /\ listed' = listed /\ stage' = "listing"
    BY <1>2, <1>15 DEF ReadList, Parses, ListPart, Listing
  <2>2. PICK e : e = Entries(body)
    OBVIOUS
  <2>3. PICK S : e \in Seq(S)
    BY <2>1, <2>2, EntriesList
  <2>4. todo' = e /\ listed' = <<>>
    BY <1>15, <2>1, <2>2 DEF ReadList
  <2>5. ListedUpTo(e, 0)'
    BY <2>3, <2>4, ListingBegins
  <2>6. 0 \in 0 .. Len(e) /\ <<>> \in Seq(Made(e))
    BY <2>3, LenProperties
  <2> QED
    BY <2>1, <2>2, <2>4, <2>5, <2>6 DEF ListPart, Listing
<1>16. CASE ListNext
  <2>1. Listing /\ body' = body /\ stage' = "listing"
    BY <1>16 DEF ListNext, Listing
  <2>2. PICK e : e = Entries(body)
    OBVIOUS
  <2>3. PICK n \in 0 .. Len(e) : ListedUpTo(e, n)
    BY <2>1, <2>2 DEF ListPart
  <2>4. body \in ListReply /\ ListParses(body) /\ listed \in Seq(Made(e))
    BY <2>1, <2>2 DEF ListPart
  <2>5. PICK S : e \in Seq(S)
    BY <2>2, <2>4, EntriesList
  <2>6. /\ n + 1 \in 0 .. Len(e) /\ ListedUpTo(e, n + 1)'
        /\ listed' \in Seq(Made(e))
    BY <1>16, <2>3, <2>4, <2>5, ListingGoesOn
  <2> QED
    BY <2>1, <2>2, <2>4, <2>6 DEF ListPart, Listing
<1>17. ASSUME UNCHANGED <<op, callVars>>, stage' = stage \/ (Listing /\ stage' = "discovered")
       PROVE  ListPart'
  BY <1>17 DEF callVars, ListPart, Listing, ListedUpTo
<1>18. CASE Listed
  BY <1>17, <1>18 DEF Listed, Listing
<1>19. CASE create_device
  BY <1>4, <1>19 DEF create_device
<1>20. CASE UNCHANGED vars
  BY <1>17, <1>20 DEF vars
<1> QED
  BY <1>5, <1>6, <1>7, <1>8, <1>9, <1>10, <1>11, <1>12, <1>13, <1>14, <1>15, <1>16, <1>18,
     <1>19, <1>20 DEF Next

\* What is listed in a place was made of the entry that has this place among those
\* with an id.
LEMMA ListedIsMade ==
  ASSUME ListPart, Listing, NEW j \in Named(Entries(body)),
         Rank(Named(Entries(body)), j) \in DOMAIN listed
  PROVE  listed[Rank(Named(Entries(body)), j)] = ToDeviceInfo(Entries(body)[j])
<1> DEFINE e == Entries(body)
           N == Named(e)
           r(k) == Rank(N, k)
<1>1. body \in ListReply /\ ListParses(body) /\ listed \in Seq(Made(e))
  BY DEF ListPart
<1>2. PICK n \in 0 .. Len(e) : ListedUpTo(e, n)
  BY DEF ListPart
<1>3. PICK S : e \in Seq(S)
  BY <1>1, EntriesList
<1>4. \A p \in N : p \in Nat \ {0}
  BY <1>3, NamedPlaces
<1>5. Len(listed) = r(n) /\ \A k \in N : k <= n => listed[r(k)] = ToDeviceInfo(e[k])
  BY <1>2 DEF ListedUpTo
<1> HIDE DEF e
<1>6. n \in Nat /\ j \in Nat
  BY <1>2, <1>3, <1>4, LenProperties DEF e
<1>7. r(j) <= r(n)
  BY <1>1, <1>5, LenProperties DEF e
<1>8. ASSUME n < j PROVE FALSE
  <2>1. r(n) \in Nat /\ r(j) \in Nat
    BY <1>4, <1>6, PlacesUpTo
  <2>2. n <= j /\ j \in N
    BY <1>6, <1>8 DEF e
  <2>3. r(n) < r(j)
    BY <1>4, <1>6, <1>8, <2>2, RankGrows
  <2> QED
    BY <1>7, <2>1, <2>3
<1>9. j <= n
  BY <1>6, <1>8
<1> QED
  BY <1>5, <1>9 DEF e

\* The entries of a list that parses are readable.
LEMMA EntryReadable ==
  ASSUME NEW b, ListParses(b), NEW j \in DOMAIN Entries(b)
  PROVE  ItemReadable(Entries(b)[j])
BY DEF ListParses, Entries, ListReadable
-----------------------------------------------------------------------------
(***************************************************************************)
(* The object.                                                             *)
(***************************************************************************)
\* A poll changes no more of an object than its status.
LEMMA ObjectStep ==
  ASSUME OpPart, ListPart, ObjectPart, [Next]_vars
  PROVE  ObjectPart'
<1>1. ASSUME object' = object PROVE ObjectPart'
  BY <1>1 DEF ObjectPart
<1>2. CASE get_devices
  BY <1>1, <1>2 DEF get_devices, Begin
<1>3. CASE update_status
  BY <1>1, <1>3 DEF update_status, Begin
<1>4. ASSUME NEW v \in Value, send_command(v) PROVE ObjectPart'
  BY <1>1, <1>4 DEF send_command, Begin
<1>5. CASE Escape
  BY <1>1, <1>5 DEF Escape, callVars
<1>6. CASE make_common_headers
  BY <1>1, <1>6 DEF make_common_headers, callVars
<1>7. CASE CheckBody
  BY <1>1, <1>7 DEF CheckBody
<1>8. CASE Request
  BY <1>1, <1>8 DEF Request
<1>9. CASE ParseError
  BY <1>1, <1>9 DEF ParseError
<1>10. CASE StoreStatus
  <2> DEFINE s == ToStatus(body)
  <2>1. object # NoObject /\ body \in StatusReply \ {NotJson}
    BY <1>10 DEF StoreStatus, OpPart, ListPart, Parses
  <2>2. IsStatus(s)
    BY <2>1, StatusTyped
  <2>3. object' = [object EXCEPT !.status = s]
    BY <1>10 DEF StoreStatus
  <2> HIDE DEF s
  <2>4. object = [entry |-> object.entry, info |-> object.info, status |-> object.status]
    BY <2>1 DEF ObjectPart
  <2>5. object' = [entry |-> object.entry, info |-> object.info, status |-> s]
    BY <2>3, <2>4
  <2>6. object'.entry = object.entry /\ object'.info = object.info /\ object'.status = s
    BY <2>5
  <2> QED
    BY <2>1, <2>2, <2>5, <2>6 DEF ObjectPart
<1>11. CASE CommandDone
  BY <1>1, <1>11 DEF CommandDone
<1>12. CASE ReadList
  BY <1>1, <1>12 DEF ReadList
<1>13. CASE ListNext
  BY <1>1, <1>13 DEF ListNext
<1>14. CASE Listed
  BY <1>1, <1>14 DEF Listed, callVars
<1>15. CASE create_device
  <2> DEFINE e == Entries(body)
  <2>1. Listing
    BY <1>15 DEF create_device, Listing
  <2>2. CASE object' = object
    BY <1>1, <2>2
  <2>3. ASSUME NEW i \in DOMAIN listed, NEW j \in Named(e), Rank(Named(e), j) = i,
               object' = [entry |-> e[j], info |-> listed[i],
                          status |-> [type |-> listed[i].type, online |-> FALSE]]
        PROVE  ObjectPart'
    <3>1. listed[i] = ToDeviceInfo(e[j])
      BY <2>1, <2>3, ListedIsMade
    <3>2. j \in DOMAIN e /\ Str(e[j], "deviceId") # ""
      BY DEF Named
    <3>3. ItemReadable(e[j])
      BY <2>1, <3>2, EntryReadable DEF ListPart
    <3>4. listed[i].type \in DeviceType
      BY <3>1, <3>2, MadeOfEntry
    <3>5. IsStatus([type |-> listed[i].type, online |-> FALSE])
      BY <3>4 DEF IsStatus
    <3> HIDE DEF e
    <3>6. /\ object'.entry = e[j] /\ object'.info = listed[i]
          /\ object'.status = [type |-> listed[i].type, online |-> FALSE]
      BY <2>3
    <3> QED
      BY <2>3, <3>1, <3>2, <3>3, <3>5, <3>6 DEF ObjectPart
  <2> QED
    BY <1>15, <2>2, <2>3 DEF create_device
<1>16. CASE UNCHANGED vars
  BY <1>1, <1>16 DEF vars, callVars
<1> QED
  BY <1>2, <1>3, <1>4, <1>5, <1>6, <1>7, <1>8, <1>9, <1>10, <1>11, <1>12, <1>13, <1>14, <1>15,
     <1>16 DEF Next
-----------------------------------------------------------------------------
(***************************************************************************)
(* Theorems.                                                               *)
(***************************************************************************)
\* The parts hold of the program: before the first call nothing is encoded, escaped,
\* listed or made, and every step of a call keeps them.
THEOREM Invariance == Spec => []CallInv
<1>1. Init => CallInv
  <2> SUFFICES ASSUME Init PROVE CallInv
    OBVIOUS
  <2>1. IdPart
    BY NoIdYet DEF Init, IdInit, IdPart, IdInv
  <2>2. TextPart
    <3>1. value = <<>> /\ escaped_value = <<>> /\ pos = 1 /\ op = "none"
      BY DEF Init, TextInit
    <3>2. <<>> \in Seq(Symbol)
      OBVIOUS
    <3> QED
      BY <3>1, <3>2, Unescaped DEF TextPart
  <2>3. OpPart
    BY DEF Init, OpPart, Stage, Operation, Listing
  <2>4. ListPart
    BY DEF Init, ListPart, Listing
  <2>5. ObjectPart
    BY DEF Init, ObjectPart
  <2> QED
    BY <2>1, <2>2, <2>3, <2>4, <2>5 DEF CallInv
<1>2. CallInv /\ [Next]_vars => CallInv'
  BY IdStep, TextStep, OpStep, ListStep, ObjectStep DEF CallInv
<1> QED
  BY <1>1, <1>2, PTL DEF Spec

\* Every variable has its type: in particular every device that is listed has an id,
\* a name and a known type, whichever of its texts the cloud left out.
THEOREM TypeCorrectness == Spec => []ApiTypeOK
<1>1. CallInv => ApiTypeOK
  <2> SUFFICES ASSUME CallInv PROVE ApiTypeOK
    OBVIOUS
  <2>1. IdTypeOK /\ stage \in Stage /\ op \in Operation
        /\ result \in {"none", "Success", "ParseError", "InvalidRequest"}
    BY DEF CallInv, IdPart, OpPart
  <2>2. /\ stage = "read" => body \in IF op = "get_devices" THEN ListReply ELSE StatusReply
        /\ Listing => body \in ListReply
        /\ object # NoObject => IsStatus(object.status)
    BY DEF CallInv, ListPart, ObjectPart
  <2>3. ASSUME NEW i \in DOMAIN listed
        PROVE  /\ listed[i].device_id # "" /\ listed[i].device_name # ""
               /\ listed[i].type \in DeviceType /\ listed[i].reportable \in BOOLEAN
    <3>1. Listing /\ listed \in Seq(Made(Entries(body)))
      BY <2>3 DEF CallInv, ListPart
    <3>2. listed[i] \in Made(Entries(body))
      BY <3>1, LenProperties, ElementOfSeq
    <3>3. PICK j \in Named(Entries(body)) : listed[i] = ToDeviceInfo(Entries(body)[j])
      BY <3>2 DEF Made
    <3>4. Str(Entries(body)[j], "deviceId") # ""
      BY DEF Named
    <3> QED
      BY <3>3, <3>4, MadeOfEntry
  <2> QED
    BY <2>1, <2>2, <2>3 DEF ApiTypeOK
<1> QED
  BY Invariance, <1>1, PTL

\* A message id holds the bits of its bytes, whatever is drawn and however long it is.
THEOREM Faithful == Spec => []MessageIdFaithful
<1>1. CallInv => MessageIdFaithful
  BY DEF CallInv, IdPart
<1> QED
  BY Invariance, <1>1, PTL

\* The loop escapes every quote of a value once and leaves the rest as it is.
THEOREM Escaping == Spec => []EscapedSoFar
<1>1. CallInv => EscapedSoFar
  BY DEF CallInv, TextPart, TextInv
<1> QED
  BY Invariance, <1>1, PTL

\* A value without a backslash is read as it is or, if there is a control character in
\* it, refused, however long it is and wherever its quotes are.
THEOREM Arrival == Spec => []ParameterArrives
<1>1. CallInv => ParameterArrives
  BY EscapedIsRead DEF CallInv, TextPart, ParameterArrives
<1> QED
  BY Invariance, <1>1, PTL

\* A listing has the devices of the entries it has passed, in their order.
THEOREM Listings == Spec => []ListFaithful
<1>1. CallInv => ListFaithful
  <2> SUFFICES ASSUME CallInv, Listing
               PROVE  IF "response" \in DOMAIN body /\ ListReadable(Current(body))
                        THEN \E n \in 0 .. Len(Sent) : ListedUpTo(Sent, n)
                        ELSE listed = <<>> /\ todo = <<>>
    BY DEF ListFaithful
  <2>1. /\ body \in ListReply /\ ListParses(body) /\ listed \in Seq(Made(Entries(body)))
        /\ \E n \in 0 .. Len(Entries(body)) : ListedUpTo(Entries(body), n)
    BY DEF CallInv, ListPart
  <2>2. CASE "response" \in DOMAIN body /\ ListReadable(Current(body))
    <3>1. Sent = Entries(body)
      BY <2>2 DEF Sent, Entries
    <3> QED
      BY <2>1, <2>2, <3>1
  <2>3. CASE ~("response" \in DOMAIN body /\ ListReadable(Current(body)))
    <3>1. Entries(body) = <<>>
      <4>1. ListReadable(<<>>)
        <5>1. \A i \in DOMAIN <<>> : FALSE
          OBVIOUS
        <5> QED
          BY <5>1, RepliesAssumption, Zenon DEF ListReadable
      <4>2. CASE "response" \notin DOMAIN body
        BY <4>1, <4>2 DEF Entries, Current, Member
      <4>3. CASE "response" \in DOMAIN body /\ ~ListReadable(Current(body))
        <5>1. "result" \notin DOMAIN body
          BY <2>1, <4>3, OneFormat DEF ListParses
        <5>2. Legacy(body) = <<>>
          BY <5>1 DEF Legacy, Member
        <5> QED
          BY <4>3, <5>2 DEF Entries
      <4> QED
        BY <2>3, <4>2, <4>3
    <3>2. PICK n \in 0 .. 0 : ListedUpTo(<<>>, n)
      BY <2>1, <3>1
    <3>3. todo = <<>> /\ Len(listed) = Rank(Named(<<>>), 0)
      <4>1. n = 0 /\ SubSeq(<<>>, 0 + 1, 0) = <<>>
        OBVIOUS
      <4> QED
        BY <3>2, <4>1 DEF ListedUpTo
    <3>4. Rank(Named(<<>>), 0) = 0
      BY <<>> \in Seq({}), NamedPlaces
    <3>5. listed = <<>>
      BY <2>1, <3>3, <3>4, EmptySeq
    <3> QED
      BY <2>3, <3>3, <3>5
  <2> QED
    BY <2>2, <2>3
<1> QED
  BY Invariance, <1>1, PTL

\* A type is read back from its name, wherever an entry has it, but for the dishwasher.
THEOREM ReadBack == Spec => []TypesReadBack
<1>1. CallInv => TypesReadBack
  BY ListedIsMade, NameReadBack DEF CallInv, TypesReadBack, ListedByName, TypeListed
<1> QED
  BY Invariance, <1>1, PTL

\* A poll answered with the entry that a device was discovered by keeps its type.
THEOREM PollsKeepType == Spec => PollKeepsType
<1> DEFINE Poll == object # NoObject /\ object' # object /\ OneTypeText(object.entry)
                     /\ Current(body) = object.entry => object'.status.type = object.info.type
<1>1. CallInv /\ [Next]_vars => [Poll]_vars
  <2> SUFFICES ASSUME CallInv, Next, object # NoObject, object' # object,
                      OneTypeText(object.entry), Current(body) = object.entry
               PROVE  object'.status.type = object.info.type
    BY DEF vars, callVars
  <2>1. StoreStatus
    <3>1. ~create_device
      BY DEF CallInv, OpPart, create_device, Listing
    <3> QED
      BY <3>1 DEF Next, get_devices, update_status, send_command, Begin, Escape,
        make_common_headers, CheckBody, Request, ParseError, CommandDone, ReadList, ListNext,
        Listed, callVars
  <2> DEFINE payload == Member(body, "response", IllTyped)
  <2>2. payload = object.entry
    <3>1. Str(object.entry, "deviceId") # ""
      BY DEF CallInv, ObjectPart
    <3>2. object.entry # <<>>
      <4>1. Str(<<>>, "deviceId") = ""
        BY DEF Str, Member
      <4> QED
        BY <3>1, <4>1
    <3> QED
      BY <3>2 DEF Current, Member
  <2>3. object'.status.type = extract_device_type(object.entry)
    <3>1. object = [entry |-> object.entry, info |-> object.info, status |-> object.status]
      BY DEF CallInv, ObjectPart
    <3>2. object'.status = ToStatus(body)
      BY <2>1, <3>1 DEF StoreStatus
    <3>3. ToStatus(body).type = extract_device_type(payload)
      BY DEF ToStatus
    <3> QED
      BY <2>2, <3>2, <3>3
  <2> QED
    BY <2>3, SameTypeText DEF CallInv, ObjectPart
<1> QED
  BY Invariance, <1>1, PTL DEF Spec, PollKeepsType
=============================================================================
