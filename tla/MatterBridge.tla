---------------------------- MODULE MatterBridge ----------------------------
(***************************************************************************)
(* The class MatterBridge (src/matter/bridge.cpp): which devices are       *)
(* bridged and on which endpoint, the life of the bridge from initialize   *)
(* to the destructor, and the loop of sync_state over the bridged devices. *)
(*                                                                         *)
(* The class is used by one thread, so every method is one action, except  *)
(* sync_state: it waits for the network once per device, and the program   *)
(* around the bridge can be interrupted there (see ProxyMain), so each     *)
(* update_status of its loop is an action of its own.                      *)
(***************************************************************************)
EXTENDS Naturals, FiniteSets, Maps

CONSTANTS
  DeviceId,         \* ThinQ device ids
  Device,           \* Device objects; two of them may carry the same id
  IdOf,             \* IdOf[d] is info_.device_id of the object d
  NullDevice,       \* the null shared_ptr
  EndpointModulus,  \* 2^16: endpoint ids are uint16_t
  MaxAdds           \* bound of the model: successful add_device calls

ASSUME BridgeAssumption ==
  /\ IdOf \in [Device -> DeviceId]
  /\ NullDevice \notin Device
  /\ EndpointModulus \in Nat \ {0, 1}
  /\ MaxAdds \in Nat

VARIABLES
  alive,              \* the destructor has not run
  initialized,        \* pimpl_->initialized
  running_,
  devices_,           \* id -> Device object
  device_endpoints_,  \* id -> endpoint
  next_endpoint_id_,
  inSync,             \* sync_state is in its loop
  pending,            \* the ids the loop has yet to visit
  polled,             \* the ids the last loop visited, each with update_status's outcome
  result,             \* the last method that returned, and its error code
  adds                \* how many add_device calls succeeded so far

lifecycleVars == <<alive, initialized, running_>>
endpointVars == <<devices_, device_endpoints_, next_endpoint_id_, adds>>
syncVars == <<inSync, pending, polled>>
bridgeVars == <<lifecycleVars, endpointVars, syncVars, result>>

ErrorCode == {"Success", "MatterError", "InvalidRequest", "DeviceNotFound"}
Method == {"none", "initialize", "add_device", "remove_device", "start", "stop",
           "sync_state"}
Outcome == {"updated", "failed"}

BridgeInit ==
  /\ alive = TRUE
  /\ initialized = FALSE
  /\ running_ = FALSE
  /\ devices_ = EmptyMap
  /\ device_endpoints_ = EmptyMap
  /\ next_endpoint_id_ = 1
  /\ inSync = FALSE
  /\ pending = {}
  /\ polled = EmptyMap
  /\ result = [op |-> "none", code |-> "Success"]
  /\ adds = 0

\* No method of the bridge is active.
Callable == alive /\ ~inSync

Return(op, code) == result' = [op |-> op, code |-> code]

\* An early return with an error: nothing but the result changes.
Refuse(op, code) ==
  /\ Return(op, code)
  /\ UNCHANGED <<lifecycleVars, endpointVars, syncVars>>
-----------------------------------------------------------------------------
(***************************************************************************)
(* Mutated definitions: a plausible slip in the code for each property.    *)
(***************************************************************************)
\* MapsAgree: remove_device forgets device_endpoints_.
RemoveKeepsEndpoint(id) ==
  /\ Callable
  /\ id \in DOMAIN devices_
  /\ devices_' = Erase(devices_, id)
  /\ Return("remove_device", "Success")
  /\ UNCHANGED <<device_endpoints_, next_endpoint_id_, adds, lifecycleVars, syncVars>>

\* LifecycleOrder: start does not ask whether the bridge was initialized.
StartUninitialized ==
  /\ Callable
  /\ ~running_
  /\ running_' = TRUE
  /\ Return("start", "Success")
  /\ UNCHANGED <<alive, initialized, endpointVars, syncVars>>

\* SyncReachesEveryDevice: sync_state leaves its loop at the first failure.
PollThenBreak(id) ==
  /\ inSync
  /\ id \in pending
  /\ \E outcome \in Outcome :
        /\ polled' = Store(polled, id, outcome)
        /\ pending' = IF outcome = "failed" THEN {} ELSE pending \ {id}
  /\ UNCHANGED <<inSync, lifecycleVars, endpointVars, result>>

\* RegistrySpec: the next endpoint is the number of bridged devices plus one.
RegisterByCount(d) ==
  /\ adds < MaxAdds
  /\ devices_' = Store(devices_, IdOf[d], d)
  /\ device_endpoints_' =
        Store(device_endpoints_, IdOf[d], Cardinality(DOMAIN devices_) + 1)
  /\ adds' = adds + 1
  /\ Return("add_device", "Success")
  /\ UNCHANGED <<next_endpoint_id_, lifecycleVars, syncVars>>

\* BridgeTypeOK: the counter is wider than the endpoint ids it is stored in.
IncrementWide(e) == e + 1
-----------------------------------------------------------------------------
initialize ==
  /\ Callable
  /\ \/ /\ initialized
        /\ Refuse("initialize", "MatterError")
     \/ /\ ~initialized
        /\ initialized' = TRUE
        /\ Return("initialize", "Success")
        /\ UNCHANGED <<alive, running_, endpointVars, syncVars>>

\* next_endpoint_id_++ on a uint16_t.
IncrementEndpoint(e) == (e + 1) % EndpointModulus

\* The part of add_device after its checks.
Register(d) ==
  /\ adds < MaxAdds
  /\ next_endpoint_id_' = IncrementEndpoint(next_endpoint_id_)
  /\ devices_' = Store(devices_, IdOf[d], d)
  /\ device_endpoints_' = Store(device_endpoints_, IdOf[d], next_endpoint_id_)
  /\ adds' = adds + 1
  /\ Return("add_device", "Success")
  /\ UNCHANGED <<lifecycleVars, syncVars>>

add_device(d) ==
  /\ Callable
  /\ \/ /\ ~initialized
        /\ Refuse("add_device", "MatterError")
     \/ /\ initialized
        /\ d = NullDevice
        /\ Refuse("add_device", "InvalidRequest")
     \/ /\ initialized
        /\ d # NullDevice
        /\ IdOf[d] \in DOMAIN devices_
        /\ Refuse("add_device", "InvalidRequest")
     \/ /\ initialized
        /\ d # NullDevice
        /\ IdOf[d] \notin DOMAIN devices_
        /\ Register(d)

remove_device(id) ==
  /\ Callable
  /\ \/ /\ id \notin DOMAIN devices_
        /\ Refuse("remove_device", "DeviceNotFound")
     \/ /\ id \in DOMAIN devices_
        /\ device_endpoints_' = Erase(device_endpoints_, id)
        /\ devices_' = Erase(devices_, id)
        /\ Return("remove_device", "Success")
        /\ UNCHANGED <<next_endpoint_id_, adds, lifecycleVars, syncVars>>

start ==
  /\ Callable
  /\ \/ /\ ~initialized \/ running_
        /\ Refuse("start", "MatterError")
     \/ /\ initialized
        /\ ~running_
        /\ running_' = TRUE
        /\ Return("start", "Success")
        /\ UNCHANGED <<alive, initialized, endpointVars, syncVars>>

\* stop succeeds whether or not the bridge was running.
stop ==
  /\ Callable
  /\ running_' = FALSE
  /\ Return("stop", "Success")
  /\ UNCHANGED <<alive, initialized, endpointVars, syncVars>>

\* ~MatterBridge stops a bridge that still runs; nothing can be called afterwards.
Destroy ==
  /\ Callable
  /\ alive' = FALSE
  /\ running_' = FALSE
  /\ UNCHANGED <<initialized, endpointVars, syncVars, result>>
-----------------------------------------------------------------------------
SyncBegin ==
  /\ Callable
  /\ \/ /\ ~running_
        /\ Refuse("sync_state", "MatterError")
     \/ /\ running_
        /\ inSync' = TRUE
        /\ pending' = DOMAIN devices_
        /\ polled' = EmptyMap
        /\ UNCHANGED <<lifecycleVars, endpointVars, result>>

\* One turn of the loop: a failure is skipped, and the loop goes on.
SyncPoll(id) ==
  /\ inSync
  /\ id \in pending
  /\ \E outcome \in Outcome : polled' = Store(polled, id, outcome)
  /\ pending' = pending \ {id}
  /\ UNCHANGED <<inSync, lifecycleVars, endpointVars, result>>

SyncReturn ==
  /\ inSync
  /\ pending = {}
  /\ inSync' = FALSE
  /\ Return("sync_state", "Success")
  /\ UNCHANGED <<pending, polled, lifecycleVars, endpointVars>>

sync_state ==
  \/ SyncBegin
  \/ \E id \in pending : SyncPoll(id)
  \/ SyncReturn
-----------------------------------------------------------------------------
BridgeNext ==
  \/ initialize
  \/ \E d \in Device \cup {NullDevice} : add_device(d)
  \/ \E id \in DeviceId : remove_device(id)
  \/ start
  \/ stop
  \/ sync_state
  \/ Destroy

BridgeSpec == BridgeInit /\ [][BridgeNext]_bridgeVars
-----------------------------------------------------------------------------
(***************************************************************************)
(* Properties.                                                             *)
(***************************************************************************)
\* The type of every variable of the bridge.
BridgeTypeOK ==
  /\ alive \in BOOLEAN
  /\ initialized \in BOOLEAN
  /\ running_ \in BOOLEAN
  /\ IsMap(devices_, DeviceId, Device)
  /\ IsMap(device_endpoints_, DeviceId, 0 .. EndpointModulus - 1)
  /\ next_endpoint_id_ \in 0 .. EndpointModulus - 1
  /\ inSync \in BOOLEAN
  /\ pending \subseteq DeviceId
  /\ IsMap(polled, DeviceId, Outcome)
  /\ result \in [op : Method, code : ErrorCode]
  /\ adds \in 0 .. MaxAdds

\* The two maps of the bridge are changed one after the other, in add_device and
\* in remove_device: they must always hold the same keys, and an object is
\* stored under its own id.
MapsAgree ==
  /\ DOMAIN devices_ = DOMAIN device_endpoints_
  /\ \A id \in DOMAIN devices_ : IdOf[devices_[id]] = id

\* No sequence of calls runs a bridge that was not initialized, bridges a
\* device before initialize, leaves the loop of sync_state to a stopped bridge,
\* or leaves a destroyed bridge running.
LifecycleOrder ==
  /\ running_ => initialized
  /\ devices_ # EmptyMap => initialized
  /\ inSync => running_ /\ pending \subseteq DOMAIN devices_
  /\ ~alive => ~running_

\* A sync_state that returned success called update_status on every bridged
\* device, whichever of them failed ("continue with other devices").
SyncReachesEveryDevice ==
  result = [op |-> "sync_state", code |-> "Success"] /\ ~inSync
    => DOMAIN polled = DOMAIN devices_

\* Until the counter wraps, the bridge keeps the promise of EndpointRegistry:
\* the endpoints issued so far are 1 .. adds.
Registry == INSTANCE EndpointRegistry WITH
  Endpoint <- 1 .. EndpointModulus - 1,
  endpointOf <- device_endpoints_,
  issued <- 1 .. adds

RegistrySpec == Registry!Spec

\* The bridge keeps endpoint 0 for itself, so no device is ever on it
\* ("Endpoint 0 is reserved for bridge device").
BridgeEndpointReserved ==
  \A id \in DOMAIN device_endpoints_ : device_endpoints_[id] # 0
=============================================================================
