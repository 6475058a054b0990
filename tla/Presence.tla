------------------------------ MODULE Presence ------------------------------
(***************************************************************************)
(* A presence sensor (adapter/service/presence).                           *)
(***************************************************************************)
EXTENDS ServiceCalls

PresenceReport == "evt.presence.report"

SendPresenceReport(force) == Report(PresenceReport, NoKey, OnChange, force)

HandleCmdPresenceGetReport == <<SendPresenceReport(TRUE)>>

handleReporting == <<SendPresenceReport(FALSE)>>

Values == Takes(Attribute(PresenceReport, Empty), BOOLEAN)

Commands == {HandleCmdPresenceGetReport}
=============================================================================
