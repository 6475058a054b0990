---------------------------- MODULE NumericMeter ----------------------------
(***************************************************************************)
(* A meter (adapter/service/numericmeter): imported and exported amounts   *)
(* per unit, and extended values that are reported together.               *)
(***************************************************************************)
EXTENDS ServiceCalls

CONSTANT Specification

MeterReport == "evt.meter.report"
MeterExportReport == "evt.meter_export.report"
MeterExtReport == "evt.meter_ext.report"

\* reporter: the optional interfaces that the reporter implements.
Specifications ==
    {[sup_units |-> <<"kWh", "W">>, sup_export_units |-> <<"kWh">>,
      sup_extended_vals |-> {}, reporter |-> {"ExportReporter", "ResettableReporter"}],
     [sup_units |-> <<"kWh">>, sup_export_units |-> <<>>,
      sup_extended_vals |-> {"p_import", "u1"}, reporter |-> {"ExtendedReporter"}]}

exportReporter ==
    "ExportReporter" \in Specification.reporter /\ Specification.sup_export_units # <<>>

extendedReporter ==
    "ExtendedReporter" \in Specification.reporter /\ Specification.sup_extended_vals # {}

resettableReporter == "ResettableReporter" \in Specification.reporter

normalizeUnit(unit, units) == IF unit[1] \in Range(units) THEN unit[1] ELSE None

\* None when one of the values is not supported.
normalizeExtendedValues(values) ==
    IF {v[1] : v \in values} \subseteq Specification.sup_extended_vals
    THEN {v[1] : v \in values} ELSE None

\* Cached under the unit as it is listed.
SendMeterReport(unit, force) ==
    LET u == normalizeUnit(unit, Specification.sup_units)
    IN  Given(u # None, Report(MeterReport, Listed(u), AtLeastEvery, force))

SendMeterExportReport(unit, force) ==
    LET u == normalizeUnit(unit, Specification.sup_export_units)
    IN  Given(exportReporter /\ u # None,
              Report(MeterExportReport, Listed(u), AtLeastEvery, force))

\* Sent when one of the values requires it (isExtendedReportRequired).
SendMeterExtendedReport(values, force) ==
    Given(extendedReporter /\ normalizeExtendedValues(values) # None,
          ReportAll(MeterExtReport, normalizeExtendedValues(values), AtLeastEvery, force))

\* No report follows a reset.
ResetMeter ==
    Given(resettableReporter,
          Change([a \in {Attribute(MeterReport, "kWh"), Attribute(MeterExportReport, "kWh")}
                      |-> {0}]))

\* No unit, or an empty one, stands for all.
handleCmdMeterGetReport(unit) ==
    IF unit = NoKey
    THEN ForEach(Specification.sup_units, LAMBDA u : SendMeterReport(u, TRUE))
    ELSE <<SendMeterReport(unit, TRUE)>>

handleCmdMeterExportGetReport(unit) ==
    IF unit = NoKey
    THEN ForEach(Specification.sup_export_units, LAMBDA u : SendMeterExportReport(u, TRUE))
    ELSE <<SendMeterExportReport(unit, TRUE)>>

handleCmdMeterExtGetReport(values) ==
    <<SendMeterExtendedReport(IF values = {} THEN {Listed(v) : v \in Specification.sup_extended_vals}
                                             ELSE values, TRUE)>>

handleCmdMeterReset == <<ResetMeter>>

handlePeriodicReporting ==
    IF extendedReporter
    THEN <<SendMeterExtendedReport({Listed(v) : v \in Specification.sup_extended_vals}, FALSE)>>
    ELSE ForEach(Specification.sup_units, LAMBDA u : SendMeterReport(u, FALSE))
         \o IF exportReporter
            THEN ForEach(Specification.sup_export_units,
                          LAMBDA u : SendMeterExportReport(u, FALSE))
            ELSE <<>>

Values ==
    [a \in {Attribute(MeterReport, u) : u \in Range(Specification.sup_units)}
           \cup {Attribute(MeterExportReport, u) : u \in Range(Specification.sup_export_units)}
           \cup {Attribute(MeterExtReport, v) : v \in Specification.sup_extended_vals}
        |-> {0, 1}]

Commands ==
    {handleCmdMeterGetReport(u) : u \in {NoKey} \cup Spelled({"kWh", "A"})}
    \cup {handleCmdMeterExportGetReport(u) : u \in {NoKey} \cup Spelled({"kWh", "A"})}
    \cup {handleCmdMeterExtGetReport(V) : V \in {{}} \cup {{v} : v \in Spelled({"u1", "u2"})}}
    \cup {handleCmdMeterReset}
=============================================================================
