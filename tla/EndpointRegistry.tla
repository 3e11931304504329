-------------------------- MODULE EndpointRegistry --------------------------
(***************************************************************************)
(* What the Matter bridge promises about endpoints, whatever data          *)
(* structures it keeps: a device that becomes bridged gets an endpoint     *)
(* that no device has had before, keeps it for as long as it stays         *)
(* bridged, and an endpoint once issued is never issued again.  A Matter   *)
(* controller relies on this, because it remembers a device by its         *)
(* endpoint.                                                               *)
(*                                                                         *)
(* The module is abstract: MatterBridge is shown to implement it.          *)
(***************************************************************************)
EXTENDS Naturals, Maps

CONSTANTS
  DeviceId,   \* the ids a device may have
  Endpoint    \* the endpoints a device may be given; the bridge's own is not among them

VARIABLES
  endpointOf, \* the bridged ids, each with its endpoint
  issued      \* every endpoint given out so far

registryVars == <<endpointOf, issued>>

Init ==
  /\ endpointOf = EmptyMap
  /\ issued = {}

Bridge(id, e) ==
  /\ id \notin DOMAIN endpointOf
  /\ e \notin issued
  /\ endpointOf' = Store(endpointOf, id, e)
  /\ issued' = issued \cup {e}

Unbridge(id) ==
  /\ id \in DOMAIN endpointOf
  /\ endpointOf' = Erase(endpointOf, id)
  /\ UNCHANGED issued

Next ==
  \/ \E id \in DeviceId, e \in Endpoint : Bridge(id, e)
  \/ \E id \in DeviceId : Unbridge(id)

Spec == Init /\ [][Next]_registryVars
-----------------------------------------------------------------------------
\* The endpoints in use were issued, and no two bridged devices share one.
EndpointsDistinct ==
  /\ \A id \in DOMAIN endpointOf : endpointOf[id] \in issued
  /\ \A i, j \in DOMAIN endpointOf : endpointOf[i] = endpointOf[j] => i = j
=============================================================================
