------------------------------ MODULE Service ------------------------------
(***************************************************************************)
(* What the program promises to those it serves, whatever it is made of:   *)
(* once it serves, it serves one set of devices until it ends; it polls    *)
(* them in cycles, each of which comes to every device; and it ends only   *)
(* when it is asked to, between two cycles, after at most one cycle more.  *)
(* It may give up before it serves.                                        *)
(*                                                                         *)
(* The module is abstract: ProxyMain is shown to implement it.             *)
(***************************************************************************)
CONSTANT Id  \* the ids a device may have

VARIABLES
  phase,      \* "starting", "serving" or "ended"
  served,     \* the devices that are served
  remaining,  \* those the current cycle has yet to come to
  requested,  \* the program was asked to end
  grace       \* no cycle has begun since

serviceVars == <<phase, served, remaining, requested, grace>>

Init ==
  /\ phase = "starting"
  /\ served = {}
  /\ remaining = {}
  /\ requested = FALSE
  /\ grace = TRUE

Serve(ids) ==
  /\ phase = "starting" /\ ids # {}
  /\ phase' = "serving" /\ served' = ids
  /\ UNCHANGED <<remaining, requested, grace>>

GiveUp ==
  /\ phase = "starting"
  /\ phase' = "ended"
  /\ UNCHANGED <<served, remaining, requested, grace>>

BeginCycle ==
  /\ phase = "serving" /\ remaining = {}
  /\ requested => grace
  /\ remaining' = served
  /\ grace' = (grace /\ ~requested)
  /\ UNCHANGED <<phase, served, requested>>

Poll(id) ==
  /\ id \in remaining
  /\ remaining' = remaining \ {id}
  /\ UNCHANGED <<phase, served, requested, grace>>

Request ==
  /\ ~requested
  /\ requested' = TRUE
  /\ UNCHANGED <<phase, served, remaining, grace>>

End ==
  /\ phase = "serving" /\ requested /\ remaining = {}
  /\ phase' = "ended" /\ served' = {}
  /\ UNCHANGED <<remaining, requested, grace>>

Next ==
  \/ \E ids \in SUBSET Id : Serve(ids)
  \/ GiveUp
  \/ BeginCycle
  \/ \E id \in Id : Poll(id)
  \/ Request
  \/ End

Spec == Init /\ [][Next]_serviceVars
=============================================================================
