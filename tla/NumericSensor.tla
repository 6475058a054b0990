--------------------------- MODULE NumericSensor ----------------------------
(***************************************************************************)
(* A sensor that measures in some units (adapter/service/numericsensor).   *)
(***************************************************************************)
EXTENDS ServiceCalls

CONSTANT Specification

SensorReport == "evt.sensor.report"

Specifications == {[sup_units |-> <<"C", "F">>]}

normalizeUnit(unit) ==
    IF unit[1] \in Range(Specification.sup_units) THEN unit[1] ELSE None

\* Cached under the unit as it is listed.
SendSensorReport(unit, force) ==
    Given(normalizeUnit(unit) # None,
          Report(SensorReport, Listed(normalizeUnit(unit)), AtLeastEvery, force))

\* No unit, or an empty one, stands for all.
unitsToReport(unit) == unit = NoKey

HandleCmdSensorGetReport(unit) ==
    IF unitsToReport(unit)
    THEN ForEach(Specification.sup_units, LAMBDA u : SendSensorReport(u, TRUE))
    ELSE <<SendSensorReport(unit, TRUE)>>

handleReporting ==
    ForEach(Specification.sup_units, LAMBDA u : SendSensorReport(u, FALSE))

Values == [a \in {Attribute(SensorReport, u) : u \in Range(Specification.sup_units)} |-> {0, 1}]

Commands == {HandleCmdSensorGetReport(u) : u \in {NoKey} \cup Spelled({"C", "K"})}
=============================================================================
