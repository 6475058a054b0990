------------------------------ MODULE Battery -------------------------------
(***************************************************************************)
(* A battery (adapter/service/battery): its level, and an alarm for each of *)
(* some events.  A device without an alarm to report answers None.         *)
(***************************************************************************)
EXTENDS ServiceCalls

CONSTANT Specification

LevelReport == "evt.lvl.report"
AlarmReport == "evt.alarm.report"

Specifications == {[sup_events |-> <<"low_battery", "replace_now">>]}

normalizeEvent(event) ==
    IF event[1] \in Range(Specification.sup_events) THEN event[1] ELSE None

SendBatteryLevelReport(force) == Report(LevelReport, NoKey, OnChange, force)

\* Cached under the event that the alarm itself names.
SendBatteryAlarmReport(event, force) ==
    Given(normalizeEvent(event) # None,
          Report(AlarmReport, Listed(normalizeEvent(event)), OnChange, force))

handleCmdLevelGetReport == <<SendBatteryLevelReport(TRUE)>>

handleReporting ==
    <<SendBatteryLevelReport(FALSE)>>
    \o ForEach(Specification.sup_events, LAMBDA e : SendBatteryAlarmReport(e, FALSE))

Values ==
    [a \in {Attribute(LevelReport, Empty)}
           \cup {Attribute(AlarmReport, e) : e \in Range(Specification.sup_events)}
        |-> CASE a[1] = LevelReport -> {10, 90}
              [] a[1] = AlarmReport -> {"activ", "deactiv", None}]

Commands == {handleCmdLevelGetReport}
=============================================================================
