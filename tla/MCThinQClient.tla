--------------------------- MODULE MCThinQClient ---------------------------
(***************************************************************************)
(* Values for ThinQClient's constants.  24.5 degrees is cut to 24, and     *)
(* -18.5 to -18.                                                           *)
(***************************************************************************)
EXTENDS ThinQClient, TLC

CONSTANTS ac, wm, rf

\* An air conditioner and a refrigerator: two kinds of temperature.
MCDeviceId == {ac, rf}
MCTypeOf == (ac :> "AirConditioner") @@ (rf :> "Refrigerator")
MCSettings == (ac :> {"target_temp_"}) @@ (rf :> {"freezer_temp_"})
MCTemperature == {49, -37}

\* A washer and the switches of an air conditioner.
SwitchDeviceId == {ac, wm}
SwitchTypeOf == (ac :> "AirConditioner") @@ (wm :> "Washer")
SwitchSettings == (ac :> {"power_on_"}) @@ (wm :> {"state_"})
=============================================================================
