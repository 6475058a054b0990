------------------------------- MODULE DevSys -------------------------------
(***************************************************************************)
(* The system of a device (adapter/service/devsys), which may be told to   *)
(* reboot.  Nothing is reported.                                           *)
(***************************************************************************)
EXTENDS ServiceCalls

CONSTANT Specification

Specifications == [controller : {{}, {"RebootController"}}]

rebootController == "RebootController" \in Specification.controller

Reboot == Given(rebootController, Change(Takes(Attribute("system", Empty), {"rebooting"})))

handleCmdThingReboot == <<Reboot>>

Values == Takes(Attribute("system", Empty), {"up", "rebooting"})

Commands == {handleCmdThingReboot}
=============================================================================
