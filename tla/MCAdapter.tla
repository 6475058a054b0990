------------------------------ MODULE MCAdapter ------------------------------
(***************************************************************************)
(* Small instances of Adapter: two things that are given addresses by the  *)
(* adapter, or one of those and one whose seed brings its own address.     *)
(***************************************************************************)
EXTENDS Adapter

MCIDs == {"lamp", "meter"}
AllAcquired == [i \in MCIDs |-> 0]
MeterCustom == [i \in MCIDs |-> IF i = "meter" THEN 9 ELSE 0]
=============================================================================
