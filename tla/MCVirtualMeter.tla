--------------------------- MODULE MCVirtualMeter ---------------------------
(***************************************************************************)
(* Small instance of VirtualMeter.                                         *)
(***************************************************************************)
EXTENDS VirtualMeter

MCHandlers == {"level", "connectivity"}
MCLevels == {0, 1}
MCModes == {[on |-> 1, off |-> 1], [on |-> 2, off |-> 1]}
=============================================================================
