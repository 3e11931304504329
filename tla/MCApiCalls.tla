----------------------------- MODULE MCApiCalls -----------------------------
(***************************************************************************)
(* Values for ApiCalls' constants: entries that differ in where they have  *)
(* their type, lists of at most two of them, and short values of commands. *)
(***************************************************************************)
EXTENDS ApiCalls

Names == {TypeName[t] : t \in DeviceType}

\* The other texts: in lower case, with a prefix, with two keywords, and a code.
MCKeywordsIn ==
  [text \in Names |-> IF text = "DISHWASHER" THEN {"WASHER", "DISHWASHER"}
                      ELSE {text} \ {"UNKNOWN"}]
    @@ ("" :> {}) @@ ("DEVICE_washer" :> {"WASHER"})
    @@ ("WASHER_DRYER" :> {"WASHER", "DRYER"}) @@ ("201" :> {})

Id == "deviceId" :> "d1"
Id2 == "deviceId" :> "d2"
OfType(text) == "deviceType" :> text
Inside(o) == "deviceInfo" :> o

MCEntry ==
  {Id @@ OfType(text) : text \in DOMAIN MCKeywordsIn}
    \cup {Id2 @@ Inside(OfType(text)) : text \in {"DRYER", "OVEN", "DISHWASHER", ""}}
    \cup {Id2 @@ OfType("OVEN") @@ Inside(OfType("WASHER")),
          Id @@ OfType("") @@ Inside(OfType("DRYER") @@ ("alias" :> "a")),
          Id2 @@ ("deviceTypeCode" :> "DRYER") @@ ("modelName" :> "m"),
          Id2 @@ ("reportable" :> FALSE) @@ Inside("reportable" :> FALSE),
          "deviceId" :> "", OfType("DRYER"),
          IllTyped, Id2 @@ ("reportable" :> IllTyped), Id2 @@ Inside(IllTyped),
          Id2 @@ Inside("alias" :> IllTyped)}

MCList == {<<>>} \cup {<<e>> : e \in MCEntry} \cup (MCEntry \X MCEntry)

MCListReply ==
  {NotJson, <<>>, "response" :> IllTyped} \cup {"response" :> l : l \in MCList}
    \cup {"result" :> ("devices" :> <<e>>) : e \in MCEntry}

MCStatusReply ==
  {NotJson, <<>>, "response" :> IllTyped, "response" :> (Id @@ ("online" :> FALSE)),
   "response" :> ("online" :> IllTyped)} \cup {"response" :> e : e \in MCEntry}

Words(n, symbols) == [1 .. n -> symbols]
MCValue ==
  UNION {Words(n, Symbol) : n \in 0 .. 2}
    \cup Words(3, {"quote", "other"}) \cup Words(4, {"quote"})
=============================================================================
