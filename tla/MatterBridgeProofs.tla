------------------------- MODULE MatterBridgeProofs -------------------------
(***************************************************************************)
(* Theorems about MatterBridge, for every set of devices, every width of   *)
(* the endpoint ids and every number of calls.                             *)
(***************************************************************************)
EXTENDS MatterBridge, MapLemmas, TLAPS

USE BridgeAssumption

\* A method's result has the type of result.
LEMMA ReturnType ==
  ASSUME NEW op \in Method, NEW code \in ErrorCode, Return(op, code)
  PROVE  result' \in [op : Method, code : ErrorCode]
  BY DEF Return

\* An early return keeps the types.
LEMMA RefuseType ==
  ASSUME BridgeTypeOK, NEW op \in Method, NEW code \in ErrorCode, Refuse(op, code)
  PROVE  BridgeTypeOK'
<1>1. result' \in [op : Method, code : ErrorCode]
  BY ReturnType DEF Refuse
<1> QED
  BY <1>1 DEF BridgeTypeOK, Refuse, lifecycleVars, endpointVars, syncVars
-----------------------------------------------------------------------------
\* The types hold initially.
LEMMA InitType == BridgeInit => BridgeTypeOK
<1> SUFFICES ASSUME BridgeInit PROVE BridgeTypeOK
  OBVIOUS
<1>1. /\ IsMap(devices_, DeviceId, Device)
      /\ IsMap(device_endpoints_, DeviceId, 0 .. EndpointModulus - 1)
      /\ IsMap(polled, DeviceId, Outcome)
  BY EmptyIsMap DEF BridgeInit
<1>2. next_endpoint_id_ \in 0 .. EndpointModulus - 1 /\ adds \in 0 .. MaxAdds
  BY DEF BridgeInit
<1>3. result \in [op : Method, code : ErrorCode]
  BY DEF BridgeInit, Method, ErrorCode
<1>4. /\ alive \in BOOLEAN /\ initialized \in BOOLEAN /\ running_ \in BOOLEAN
      /\ inSync \in BOOLEAN /\ pending \subseteq DeviceId
  BY DEF BridgeInit
<1> QED
  BY <1>1, <1>2, <1>3, <1>4 DEF BridgeTypeOK

\* Every call keeps the types.
LEMMA NextType ==
  ASSUME BridgeTypeOK, [BridgeNext]_bridgeVars
  PROVE  BridgeTypeOK'
<1> USE DEF lifecycleVars, endpointVars, syncVars
<1>a. /\ Method = Method \cup {"initialize", "add_device", "remove_device", "start",
                               "stop", "sync_state"}
      /\ ErrorCode = ErrorCode \cup {"Success", "MatterError", "InvalidRequest",
                                     "DeviceNotFound"}
  BY DEF Method, ErrorCode
<1>1. CASE initialize
  <2>1. CASE Refuse("initialize", "MatterError")
    BY <1>a, <2>1, RefuseType
  <2>2. CASE Return("initialize", "Success") /\ ~initialized
    <3>1. result' \in [op : Method, code : ErrorCode]
      BY <1>a, <2>2, ReturnType
    <3> QED
      BY <1>1, <2>2, <3>1 DEF BridgeTypeOK, initialize, Refuse
  <2> QED
    BY <1>1, <2>1, <2>2 DEF initialize
<1>2. ASSUME NEW d \in Device \cup {NullDevice}, add_device(d)
      PROVE  BridgeTypeOK'
  <2>1. CASE \E code \in ErrorCode : Refuse("add_device", code)
    BY <1>a, <2>1, RefuseType
  <2>2. CASE Register(d) /\ d \in Device
    <3>1. IsMap(devices_', DeviceId, Device)
      BY <2>2, StoreIsMap DEF Register, BridgeTypeOK
    <3>2. IsMap(device_endpoints_', DeviceId, 0 .. EndpointModulus - 1)
      BY <2>2, StoreIsMap DEF Register, BridgeTypeOK
    <3>3. /\ next_endpoint_id_' \in 0 .. EndpointModulus - 1
          /\ adds' \in 0 .. MaxAdds
      BY <2>2 DEF Register, IncrementEndpoint, BridgeTypeOK
    <3>4. result' \in [op : Method, code : ErrorCode]
      BY <1>a, <2>2, ReturnType DEF Register
    <3> QED
      BY <2>2, <3>1, <3>2, <3>3, <3>4 DEF Register, BridgeTypeOK
  <2> QED
    BY <1>a, <1>2, <2>1, <2>2 DEF add_device
<1>3. ASSUME NEW id \in DeviceId, remove_device(id)
      PROVE  BridgeTypeOK'
  <2>1. CASE Refuse("remove_device", "DeviceNotFound")
    BY <1>a, <2>1, RefuseType
  <2>2. CASE id \in DOMAIN devices_
    <3>1. /\ IsMap(devices_', DeviceId, Device)
          /\ IsMap(device_endpoints_', DeviceId, 0 .. EndpointModulus - 1)
      BY <1>3, <2>2, EraseIsMap DEF remove_device, BridgeTypeOK
    <3>2. result' \in [op : Method, code : ErrorCode]
      BY <1>a, <1>3, <2>2, ReturnType DEF remove_device
    <3> QED
      BY <1>3, <2>2, <3>1, <3>2 DEF remove_device, BridgeTypeOK
  <2> QED
    BY <1>3, <2>1, <2>2 DEF remove_device
<1>4. CASE start
  <2>1. CASE Refuse("start", "MatterError")
    BY <1>a, <2>1, RefuseType
  <2>2. CASE Return("start", "Success") /\ initialized /\ ~running_
    <3>1. result' \in [op : Method, code : ErrorCode]
      BY <1>a, <2>2, ReturnType
    <3> QED
      BY <1>4, <2>2, <3>1 DEF BridgeTypeOK, start
  <2> QED
    BY <1>4, <2>1, <2>2 DEF start
<1>5. CASE stop
  <2>1. result' \in [op : Method, code : ErrorCode]
    BY <1>a, <1>5, ReturnType DEF stop
  <2> QED
    BY <1>5, <2>1 DEF stop, BridgeTypeOK
<1>6. CASE SyncBegin
  <2>1. CASE Refuse("sync_state", "MatterError")
    BY <1>a, <2>1, RefuseType
  <2>2. CASE running_
    <3>1. IsMap(polled', DeviceId, Outcome) /\ pending' \subseteq DeviceId
      BY <1>6, <2>2, EmptyIsMap DEF SyncBegin, BridgeTypeOK, IsMap
    <3> QED
      BY <1>6, <2>2, <3>1 DEF SyncBegin, BridgeTypeOK
  <2> QED
    BY <1>6, <2>1, <2>2 DEF SyncBegin
<1>7. ASSUME NEW id \in pending, SyncPoll(id)
      PROVE  BridgeTypeOK'
  <2>1. IsMap(polled', DeviceId, Outcome)
    BY <1>7, StoreIsMap DEF SyncPoll, BridgeTypeOK
  <2> QED
    BY <1>7, <2>1 DEF SyncPoll, BridgeTypeOK
<1>8. CASE SyncReturn
  <2>1. result' \in [op : Method, code : ErrorCode]
    BY <1>a, <1>8, ReturnType DEF SyncReturn
  <2> QED
    BY <1>8, <2>1 DEF SyncReturn, BridgeTypeOK
<1>9. CASE Destroy
  BY <1>9 DEF Destroy, BridgeTypeOK
<1>10. CASE UNCHANGED bridgeVars
  BY <1>10 DEF bridgeVars, BridgeTypeOK
<1> QED
  BY <1>1, <1>2, <1>3, <1>4, <1>5, <1>6, <1>7, <1>8, <1>9, <1>10 DEF BridgeNext, sync_state

\* Whatever methods are called in whatever order, every variable keeps its type:
\* in particular the uint16_t counter and the stored endpoints stay in their range.
THEOREM TypeCorrect == BridgeSpec => []BridgeTypeOK
  BY InitType, NextType, PTL DEF BridgeSpec
-----------------------------------------------------------------------------
\* A step that changes nothing but the result, and reports no success: a call
\* that was refused, or no call at all.
Quiet ==
  /\ UNCHANGED <<alive, initialized, running_>>
  /\ UNCHANGED <<devices_, device_endpoints_, next_endpoint_id_, adds>>
  /\ UNCHANGED <<inSync, pending, polled>>
  /\ \/ UNCHANGED result
     \/ \E op \in Method, code \in ErrorCode \ {"Success"} :
           result' = [op |-> op, code |-> code]

\* Every early return with an error is a quiet step.
LEMMA RefuseQuiet ==
  ASSUME NEW op \in Method, NEW code \in ErrorCode \ {"Success"}, Refuse(op, code)
  PROVE  Quiet
  BY DEF Refuse, Return, Quiet, lifecycleVars, endpointVars, syncVars

\* What each method does when it is not refused.
LEMMA StepEffect ==
  ASSUME [BridgeNext]_bridgeVars
  PROVE  \/ Quiet
         \/ initialize /\ ~initialized
         \/ \E d \in Device : Callable /\ initialized /\ IdOf[d] \notin DOMAIN devices_ /\ Register(d)
         \/ \E id \in DeviceId : id \in DOMAIN devices_ /\ remove_device(id)
         \/ start /\ initialized /\ ~running_
         \/ stop
         \/ SyncBegin /\ running_
         \/ \E id \in pending : SyncPoll(id)
         \/ SyncReturn
         \/ Destroy
<1>1. CASE initialize
  BY <1>1, RefuseQuiet DEF initialize, Method, ErrorCode
<1>2. CASE \E d \in Device \cup {NullDevice} : add_device(d)
  BY <1>2, RefuseQuiet DEF add_device, Method, ErrorCode
<1>3. CASE \E id \in DeviceId : remove_device(id)
  BY <1>3, RefuseQuiet DEF remove_device, Method, ErrorCode
<1>4. CASE start
  BY <1>4, RefuseQuiet DEF start, Method, ErrorCode
<1>5. CASE sync_state
  BY <1>5, RefuseQuiet DEF sync_state, SyncBegin, Method, ErrorCode
<1>6. CASE UNCHANGED bridgeVars
  BY <1>6 DEF Quiet, bridgeVars, lifecycleVars, endpointVars, syncVars
<1> QED
  BY <1>1, <1>2, <1>3, <1>4, <1>5, <1>6 DEF BridgeNext
-----------------------------------------------------------------------------
\* MapsAgree is inductive: a device enters and leaves both maps under its own id.
LEMMA NextMaps ==
  ASSUME MapsAgree, [BridgeNext]_bridgeVars
  PROVE  MapsAgree'
<1>1. CASE UNCHANGED <<devices_, device_endpoints_>>
  BY <1>1 DEF MapsAgree
<1>2. ASSUME NEW d \in Device, Register(d)
      PROVE  MapsAgree'
  <2> DEFINE k == IdOf[d]
  <2>1. /\ devices_' = Store(devices_, k, d)
        /\ device_endpoints_' = Store(device_endpoints_, k, next_endpoint_id_)
    BY <1>2 DEF Register
  <2> HIDE DEF k
  <2>2. /\ DOMAIN devices_' = DOMAIN devices_ \cup {k}
        /\ devices_'[k] = d
        /\ \A id \in DOMAIN devices_ : id # k => devices_'[id] = devices_[id]
    BY <2>1 DEF Store
  <2>3. DOMAIN device_endpoints_' = DOMAIN device_endpoints_ \cup {k}
    BY <2>1, StoreEntries, Zenon
  <2>4. IdOf[d] = k
    BY DEF k
  <2> QED
    BY <2>2, <2>3, <2>4 DEF MapsAgree
<1>3. ASSUME NEW id \in DOMAIN devices_, remove_device(id)
      PROVE  MapsAgree'
  <2>1. /\ devices_' = Erase(devices_, id)
        /\ device_endpoints_' = Erase(device_endpoints_, id)
    BY <1>3 DEF remove_device
  <2>2. /\ DOMAIN devices_' = DOMAIN devices_ \ {id}
        /\ \A x \in DOMAIN devices_ : x # id => devices_'[x] = devices_[x]
        /\ DOMAIN device_endpoints_' = DOMAIN device_endpoints_ \ {id}
    BY <2>1, EraseEntries, Zenon
  <2> QED
    BY <2>2 DEF MapsAgree
<1>4. \/ UNCHANGED <<devices_, device_endpoints_>>
      \/ \E d \in Device : Register(d)
      \/ \E id \in DOMAIN devices_ : remove_device(id)
  BY StepEffect
  DEF Quiet, initialize, start, stop, SyncBegin, SyncPoll, SyncReturn, Destroy, Refuse,
      endpointVars
<1> QED
  BY <1>1, <1>2, <1>3, <1>4

\* The two maps of the bridge always hold the same ids, each with its own device.
THEOREM MapsAlwaysAgree == BridgeSpec => []MapsAgree
<1>1. BridgeInit => MapsAgree
  BY EmptyIsMap DEF BridgeInit, MapsAgree
<1> QED
  BY <1>1, NextMaps, PTL DEF BridgeSpec
-----------------------------------------------------------------------------
\* LifecycleOrder is inductive.
LEMMA NextLifecycle ==
  ASSUME LifecycleOrder, [BridgeNext]_bridgeVars
  PROVE  LifecycleOrder'
<1> USE DEF LifecycleOrder, Callable, lifecycleVars, endpointVars, syncVars
<1>1. CASE Quiet
  BY <1>1 DEF Quiet
<1>2. CASE initialize /\ ~initialized
  <2>1. /\ initialized'
        /\ UNCHANGED <<alive, running_, devices_, inSync, pending>>
    BY <1>2 DEF initialize
  <2> QED
    BY <2>1
<1>3. ASSUME NEW d \in Device, Callable, initialized, Register(d)
      PROVE  LifecycleOrder'
  BY <1>3 DEF Register
<1>4. ASSUME NEW id \in DOMAIN devices_, remove_device(id)
      PROVE  LifecycleOrder'
  <2>1. initialized
    BY EmptyIsMap
  <2>2. ~inSync /\ UNCHANGED <<alive, initialized, running_, inSync>>
    BY <1>4 DEF remove_device
  <2> QED
    BY <2>1, <2>2
<1>5. CASE start /\ initialized /\ ~running_
  <2>1. /\ alive /\ ~inSync
        /\ UNCHANGED <<alive, initialized, devices_, inSync>>
    BY <1>5 DEF start
  <2> QED
    BY <1>5, <2>1
<1>6. CASE stop
  BY <1>6 DEF stop
<1>7. CASE SyncBegin /\ running_
  BY <1>7 DEF SyncBegin
<1>8. ASSUME NEW id \in pending, SyncPoll(id)
      PROVE  LifecycleOrder'
  BY <1>8 DEF SyncPoll
<1>9. CASE SyncReturn
  BY <1>9 DEF SyncReturn
<1>10. CASE Destroy
  BY <1>10 DEF Destroy
<1> QED
  BY <1>1, <1>2, <1>3, <1>4, <1>5, <1>6, <1>7, <1>8, <1>9, <1>10, StepEffect

\* No sequence of calls runs a bridge that was not initialized or was destroyed.
THEOREM LifecycleAlwaysOrdered == BridgeSpec => []LifecycleOrder
<1>1. BridgeInit => LifecycleOrder
  BY DEF BridgeInit, LifecycleOrder
<1> QED
  BY <1>1, NextLifecycle, PTL DEF BridgeSpec
-----------------------------------------------------------------------------
\* While sync_state loops, every bridged id was visited or is still to come.
LoopCovers == inSync => DOMAIN polled \cup pending = DOMAIN devices_

\* SyncReachesEveryDevice is inductive together with LoopCovers.
LEMMA NextSync ==
  ASSUME LoopCovers, SyncReachesEveryDevice, [BridgeNext]_bridgeVars
  PROVE  LoopCovers' /\ SyncReachesEveryDevice'
<1> DEFINE Synced == [op |-> "sync_state", code |-> "Success"]
<1>1. CASE Quiet
  <2>1. \A op, code : [op |-> op, code |-> code] = Synced => code = "Success"
    OBVIOUS
  <2>2. result' = Synced => result = Synced
    BY <1>1, <2>1, Zenon DEF Quiet
  <2> QED
    BY <1>1, <2>2 DEF Quiet, LoopCovers, SyncReachesEveryDevice
<1>2. CASE ~inSync /\ ~inSync' /\ result' # Synced
  BY <1>2 DEF LoopCovers, SyncReachesEveryDevice
<1>3. CASE SyncBegin /\ running_
  BY <1>3, EmptyIsMap
  DEF SyncBegin, endpointVars, LoopCovers, SyncReachesEveryDevice
<1>4. ASSUME NEW id \in pending, SyncPoll(id)
      PROVE  LoopCovers' /\ SyncReachesEveryDevice'
  <2>1. inSync /\ inSync' /\ pending' = pending \ {id} /\ devices_' = devices_
    BY <1>4 DEF SyncPoll, endpointVars
  <2>2. DOMAIN polled' = DOMAIN polled \cup {id}
    BY <1>4 DEF SyncPoll, Store
  <2> QED
    BY <2>1, <2>2 DEF LoopCovers, SyncReachesEveryDevice
<1>5. CASE SyncReturn
  BY <1>5 DEF SyncReturn, endpointVars, LoopCovers, SyncReachesEveryDevice
<1>6. CASE Destroy
  BY <1>6 DEF Destroy, endpointVars, syncVars, LoopCovers, SyncReachesEveryDevice
<1>7. ASSUME initialize, ~initialized
      PROVE  ~inSync /\ ~inSync' /\ result' # Synced
  <2>1. ~inSync /\ Return("initialize", "Success") /\ inSync' = inSync
    BY <1>7 DEF initialize, Callable, syncVars
  <2> QED
    BY <2>1 DEF Return
<1>8. \A d \in Device : Callable /\ Register(d) => ~inSync /\ ~inSync' /\ result' # Synced
  BY DEF Register, Callable, Return, syncVars
<1>9. \A id \in DOMAIN devices_ : remove_device(id) => ~inSync /\ ~inSync' /\ result' # Synced
  BY DEF remove_device, Callable, Return, Refuse, syncVars
<1>10. start \/ stop => ~inSync /\ ~inSync' /\ result' # Synced
  BY DEF start, stop, Callable, Return, Refuse, syncVars
<1> QED
  BY <1>1, <1>2, <1>3, <1>4, <1>5, <1>6, <1>7, <1>8, <1>9, <1>10, StepEffect

\* A sync_state that returned success polled every bridged device, however many
\* of the polls failed and in whatever order the map gave them.
THEOREM SyncAlwaysReaches == BridgeSpec => []SyncReachesEveryDevice
<1>1. BridgeInit => LoopCovers /\ SyncReachesEveryDevice
  BY DEF BridgeInit, LoopCovers, SyncReachesEveryDevice
<1> QED
  BY <1>1, NextSync, PTL DEF BridgeSpec
-----------------------------------------------------------------------------
\* The counter is one more than the number of successful adds, up to wrapping;
\* while it has not wrapped, the devices are on distinct endpoints in 1 .. adds.
EndpointInv ==
  /\ next_endpoint_id_ = (adds + 1) % EndpointModulus
  /\ \A id \in DOMAIN device_endpoints_ : device_endpoints_[id] \in 1 .. adds
  /\ \A i, j \in DOMAIN device_endpoints_ :
        device_endpoints_[i] = device_endpoints_[j] => i = j

\* Until the counter wraps, Register issues the endpoint adds + 1.
LEMMA RegisterIssues ==
  ASSUME BridgeTypeOK, EndpointInv, MaxAdds < EndpointModulus, NEW d \in Device, Register(d)
  PROVE  /\ next_endpoint_id_ = adds + 1
         /\ adds + 1 \in 1 .. EndpointModulus - 1
         /\ device_endpoints_' = Store(device_endpoints_, IdOf[d], adds + 1)
         /\ adds' = adds + 1
         /\ next_endpoint_id_' = (adds' + 1) % EndpointModulus
<1>1. adds \in Nat /\ adds + 1 < EndpointModulus
  BY DEF Register, BridgeTypeOK
<1>2. next_endpoint_id_ = adds + 1
  BY <1>1 DEF EndpointInv
<1> QED
  BY <1>1, <1>2 DEF Register, IncrementEndpoint

\* EndpointInv is inductive until the counter wraps.
LEMMA NextEndpoints ==
  ASSUME MaxAdds < EndpointModulus, BridgeTypeOK, MapsAgree, EndpointInv,
         [BridgeNext]_bridgeVars
  PROVE  EndpointInv'
<1>1. CASE UNCHANGED <<device_endpoints_, next_endpoint_id_, adds>>
  BY <1>1 DEF EndpointInv
<1>2. ASSUME NEW d \in Device, IdOf[d] \notin DOMAIN devices_, Register(d)
      PROVE  EndpointInv'
  <2> DEFINE k == IdOf[d]
             E == device_endpoints_
  <2>1. E' = Store(E, k, adds + 1) /\ adds' = adds + 1
    BY <1>2, RegisterIssues
  <2>2. next_endpoint_id_' = (adds' + 1) % EndpointModulus
    BY <1>2, RegisterIssues
  <2>3. k \notin DOMAIN E
    BY <1>2 DEF MapsAgree
  <2>4. /\ DOMAIN E' = DOMAIN E \cup {k}
        /\ E'[k] = adds + 1
        /\ \A id \in DOMAIN E : E'[id] = E[id]
    BY <2>1, <2>3 DEF Store
  <2>5. adds \in Nat
    BY DEF BridgeTypeOK
  <2>6. \A id \in DOMAIN E : E[id] \in 1 .. adds /\ E[id] # adds + 1
    BY <2>5 DEF EndpointInv
  <2> HIDE DEF k
  <2>7. \A id \in DOMAIN E' : E'[id] \in 1 .. adds'
    BY <2>1, <2>4, <2>5, <2>6
  <2>8. ASSUME NEW i \in DOMAIN E', NEW j \in DOMAIN E', E'[i] = E'[j]
        PROVE  i = j
    BY <2>4, <2>6, <2>8 DEF EndpointInv
  <2> QED
    BY <2>2, <2>7, <2>8 DEF EndpointInv
<1>3. ASSUME NEW id \in DOMAIN devices_, remove_device(id)
      PROVE  EndpointInv'
  <2>1. /\ device_endpoints_' = Erase(device_endpoints_, id)
        /\ UNCHANGED <<next_endpoint_id_, adds>>
    BY <1>3 DEF remove_device
  <2>2. /\ DOMAIN device_endpoints_' \subseteq DOMAIN device_endpoints_
        /\ \A x \in DOMAIN device_endpoints_' : device_endpoints_'[x] = device_endpoints_[x]
    BY <2>1 DEF Erase
  <2> QED
    BY <2>1, <2>2 DEF EndpointInv
<1>4. \/ UNCHANGED <<device_endpoints_, next_endpoint_id_, adds>>
      \/ \E d \in Device : IdOf[d] \notin DOMAIN devices_ /\ Register(d)
      \/ \E id \in DOMAIN devices_ : remove_device(id)
  BY StepEffect
  DEF Quiet, initialize, start, stop, SyncBegin, SyncPoll, SyncReturn, Destroy, Refuse,
      endpointVars
<1> QED
  BY <1>1, <1>2, <1>3, <1>4

\* The strengthening the endpoint theorems share.
LEMMA EndpointsHold ==
  ASSUME MaxAdds < EndpointModulus
  PROVE  BridgeSpec => [](BridgeTypeOK /\ MapsAgree /\ EndpointInv)
<1>1. BridgeInit => EndpointInv
  BY EmptyIsMap DEF BridgeInit, EndpointInv
<1> QED
  BY <1>1, NextEndpoints, TypeCorrect, MapsAlwaysAgree, PTL DEF BridgeSpec

\* With fewer than 2^16 adds over the life of a bridge, no device is ever on the
\* bridge's own endpoint 0.  The bound is needed: see the run endpoint_wrap.
THEOREM EndpointZeroReserved ==
  ASSUME MaxAdds < EndpointModulus
  PROVE  BridgeSpec => []BridgeEndpointReserved
<1>1. BridgeTypeOK /\ EndpointInv => BridgeEndpointReserved
  BY DEF BridgeTypeOK, EndpointInv, BridgeEndpointReserved
<1> QED
  BY <1>1, EndpointsHold, PTL

\* With the same bound, no two bridged devices ever share an endpoint.
THEOREM EndpointsNeverShared ==
  ASSUME MaxAdds < EndpointModulus
  PROVE  BridgeSpec => []Registry!EndpointsDistinct
<1>1. EndpointInv => Registry!EndpointsDistinct
  BY DEF EndpointInv, Registry!EndpointsDistinct
<1> QED
  BY <1>1, EndpointsHold, PTL
-----------------------------------------------------------------------------
\* A step of the bridge is a step of the registry, or leaves the registry alone.
LEMMA StepRefines ==
  ASSUME MaxAdds < EndpointModulus, BridgeTypeOK, MapsAgree, EndpointInv,
         [BridgeNext]_bridgeVars
  PROVE  [Registry!Next]_(Registry!registryVars)
<1>1. CASE UNCHANGED <<device_endpoints_, adds>>
  BY <1>1 DEF Registry!registryVars
<1>2. ASSUME NEW d \in Device, IdOf[d] \notin DOMAIN devices_, Register(d)
      PROVE  Registry!Next
  <2>1. /\ adds + 1 \in 1 .. EndpointModulus - 1
        /\ device_endpoints_' = Store(device_endpoints_, IdOf[d], adds + 1)
        /\ adds' = adds + 1
    BY <1>2, RegisterIssues
  <2>2. IdOf[d] \in DeviceId /\ IdOf[d] \notin DOMAIN device_endpoints_
    BY <1>2 DEF MapsAgree
  <2>3. /\ adds + 1 \notin 1 .. adds
        /\ 1 .. adds' = (1 .. adds) \cup {adds + 1}
    BY <2>1 DEF BridgeTypeOK
  <2>4. Registry!Bridge(IdOf[d], adds + 1)
    BY <2>1, <2>2, <2>3 DEF Registry!Bridge, Registry!Store, Store
  <2> QED
    BY <2>1, <2>2, <2>4 DEF Registry!Next
<1>3. ASSUME NEW id \in DeviceId, id \in DOMAIN devices_, remove_device(id)
      PROVE  Registry!Next
  <2>1. device_endpoints_' = Erase(device_endpoints_, id) /\ adds' = adds
    BY <1>3 DEF remove_device
  <2>2. Registry!Unbridge(id)
    BY <1>3, <2>1 DEF Registry!Unbridge, Registry!Erase, Erase, MapsAgree
  <2> QED
    BY <2>2 DEF Registry!Next
<1>4. \/ UNCHANGED <<device_endpoints_, adds>>
      \/ \E d \in Device : IdOf[d] \notin DOMAIN devices_ /\ Register(d)
      \/ \E id \in DeviceId : id \in DOMAIN devices_ /\ remove_device(id)
  BY StepEffect
  DEF Quiet, initialize, start, stop, SyncBegin, SyncPoll, SyncReturn, Destroy, Refuse,
      endpointVars
<1> QED
  BY <1>1, <1>2, <1>3, <1>4

\* With fewer than 2^16 adds, the bridge implements the endpoint registry: an
\* endpoint is kept while the device is bridged and is never issued twice.
THEOREM BridgeImplementsRegistry ==
  ASSUME MaxAdds < EndpointModulus
  PROVE  BridgeSpec => RegistrySpec
<1>1. BridgeInit => Registry!Init
  BY DEF BridgeInit, Registry!Init, Registry!EmptyMap, EmptyMap
<1> QED
  BY <1>1, StepRefines, EndpointsHold, PTL DEF BridgeSpec, RegistrySpec, Registry!Spec
=============================================================================
