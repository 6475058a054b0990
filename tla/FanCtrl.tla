------------------------------ MODULE FanCtrl -------------------------------
(***************************************************************************)
(* A fan (adapter/service/fanctrl).  A mode the specification does not list *)
(* is neither set nor reported.                                            *)
(***************************************************************************)
EXTENDS ServiceCalls

CONSTANT Specification

ModeReport == "evt.mode.report"

Specifications == {[sup_modes |-> {"low", "high"}]}

SetMode(mode) ==
    Given(mode \in {Listed(m) : m \in Specification.sup_modes},
          Set(Takes(Attribute(ModeReport, Empty), {mode[1]})))

SendModeReport(force) ==
    Checked(Report(ModeReport, NoKey, OnChange, force), Specification.sup_modes)

HandleCmdModeSet(mode) == <<SetMode(mode), SendModeReport(TRUE)>>

HandleCmdModeGetReport == <<SendModeReport(TRUE)>>

handleReporting == <<SendModeReport(FALSE)>>

Values == Takes(Attribute(ModeReport, Empty), {"low", "high", "auto"})

\* What the specification lets a command set.
Limits == Takes(Attribute(ModeReport, Empty), Specification.sup_modes)

Commands ==
    {HandleCmdModeSet(m) : m \in Spelled({"low", "high", "auto"})}
    \cup {HandleCmdModeGetReport}
=============================================================================
