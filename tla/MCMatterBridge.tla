--------------------------- MODULE MCMatterBridge ---------------------------
(***************************************************************************)
(* Values for MatterBridge's constants: three Device objects over two ids, *)
(* so that two objects share an id.                                        *)
(***************************************************************************)
EXTENDS MatterBridge, TLC

CONSTANTS i1, i2, d1, d2, d3

MCDeviceId == {i1, i2}
MCDevice == {d1, d2, d3}
MCIdOf == (d1 :> i1) @@ (d2 :> i2) @@ (d3 :> i1)
=============================================================================
