-------------------------- MODULE MCDeviceServices --------------------------
(***************************************************************************)
(* DeviceServices for the safety run.  The workers of the router are       *)
(* interchangeable: no action and no property tells one from another.      *)
(***************************************************************************)
EXTENDS DeviceServices, TLC

WorkerSymmetry == Permutations(Workers)
=============================================================================
