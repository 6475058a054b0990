---------------------------- MODULE OutBinSwitch ----------------------------
(***************************************************************************)
(* A switch that is on or off (adapter/service/outbinswitch).              *)
(***************************************************************************)
EXTENDS ServiceCalls

BinaryReport == "evt.binary.report"

SendBinaryReport(force) == Report(BinaryReport, NoKey, OnChange, force)

SetBinaryState(state) == Set(Takes(Attribute(BinaryReport, Empty), {state}))

HandleCmdBinarySet(value) == <<SetBinaryState(value), SendBinaryReport(TRUE)>>

HandleCmdBinaryGetReport == <<SendBinaryReport(TRUE)>>

handleReporting == <<SendBinaryReport(FALSE)>>

Specifications == {[none |-> {}]}

Values == Takes(Attribute(BinaryReport, Empty), BOOLEAN)

Commands == {HandleCmdBinarySet(v) : v \in BOOLEAN} \cup {HandleCmdBinaryGetReport}
=============================================================================
