----------------------------- MODULE ColorCtrl ------------------------------
(***************************************************************************)
(* A lamp with a color (adapter/service/colorctrl): a map of components to *)
(* intensities, here of one component, so a pair.                          *)
(***************************************************************************)
EXTENDS ServiceCalls, Integers

CONSTANT Specification

ColorReport == "evt.color.report"

Specifications == {[sup_components |-> {"warm"}]}

\* The colors of messages: one is of a component that is not supported.
Colors == ({"warm"} \X {1, 2}) \cup {<<"cold", 1>>}

\* The components are not compared with those of the specification.
SetColor(color) == Set(Takes(Attribute(ColorReport, Empty), {color}))

SendColorReport(force) == Report(ColorReport, NoKey, OnChange, force)

HandleCmdColorSet(color) == <<SetColor(color), SendColorReport(TRUE)>>

HandleCmdColorGetReport == <<SendColorReport(TRUE)>>

handleReporting == <<SendColorReport(FALSE)>>

Values == Takes(Attribute(ColorReport, Empty), Colors)

Commands == {HandleCmdColorSet(c) : c \in Colors} \cup {HandleCmdColorGetReport}
=============================================================================
