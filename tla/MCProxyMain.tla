---------------------------- MODULE MCProxyMain ----------------------------
(***************************************************************************)
(* Values for ProxyMain's constants: the discovery may find nothing, one   *)
(* device, two devices, or the same device twice before another.           *)
(***************************************************************************)
EXTENDS ProxyMain, TLC

CONSTANTS i1, i2, d1, d2, d3

MCDeviceId == {i1, i2}
MCDevice == {d1, d2, d3}
MCIdOf == (d1 :> i1) @@ (d2 :> i2) @@ (d3 :> i1)
MCDeviceLists == {<<>>, <<d1>>, <<d1, d2>>, <<d1, d3, d2>>}
=============================================================================
