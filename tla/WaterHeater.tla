---------------------------- MODULE WaterHeater -----------------------------
(***************************************************************************)
(* A water heater (adapter/service/waterheater): as a thermostat, but its  *)
(* setpoints are rounded to a step and kept to a range.                    *)
(***************************************************************************)
EXTENDS ServiceCalls, Integers

CONSTANT Specification

ModeReport == "evt.mode.report"
SetpointReport == "evt.setpoint.report"
StateReport == "evt.state.report"

\* The range of a mode in sup_ranges comes before sup_range; no step is 0.
Specifications ==
    {s \in [sup_modes : {{"off", "normal"}}, sup_setpoints : {<<"normal">>},
            sup_states : {{"idle", "heat"}}, sup_step : {0, 5},
            sup_ranges : {<<>>, [normal |-> [Min |-> 30, Max |-> 45]]},
            sup_range : {None, [Min |-> 30, Max |-> 49]}] :
        s.sup_step = 0 <=> s.sup_range = None}

Modes == {"off", "normal", "boost"}

normalizeMode(mode) == IF mode[1] \in Specification.sup_modes THEN mode[1] ELSE None

normalizeSetpoint(mode) ==
    IF mode[1] \in Range(Specification.sup_setpoints) THEN mode[1] ELSE None

SupportsSetpoint(setpoint) == normalizeSetpoint(setpoint) # None

\* The range is looked up under the mode as the caller spelled it.
supportedRange(mode) ==
    IF mode[2] = "listed" /\ mode[1] \in DOMAIN Specification.sup_ranges
    THEN Specification.sup_ranges[mode[1]]
    ELSE Specification.sup_range

RoundToStep(value) ==
    LET step == Specification.sup_step
    IN  IF step > 0 THEN ((2 * value + step) \div (2 * step)) * step ELSE value

\* As if the value is checked before it is rounded.
CheckedThenRounded(mode, value) ==
    LET range == supportedRange(mode)
    IN  IF range # None /\ (value < range.Min \/ value > range.Max)
        THEN None ELSE RoundToStep(value)

\* None when the rounded value is out of range.
normalizeValue(mode, value) ==
    LET range == supportedRange(mode)
        v == RoundToStep(value)
    IN  IF range # None /\ (v < range.Min \/ v > range.Max) THEN None ELSE v

SetMode(mode) ==
    Given(normalizeMode(mode) # None,
          Set(Takes(Attribute(ModeReport, Empty), {normalizeMode(mode)})))

SetSetpoint(mode, value) ==
    Given(SupportsSetpoint(mode) /\ normalizeValue(mode, value) # None,
          Set(Takes(Attribute(SetpointReport, normalizeSetpoint(mode)),
                    {normalizeValue(mode, value)})))

SendModeReport(force) == Report(ModeReport, NoKey, OnChange, force)

\* Cached under the mode as the caller spelled it.
SendSetpointReport(mode, force) ==
    Given(SupportsSetpoint(mode), Report(SetpointReport, mode, OnChange, force))

SendStateReport(force) == Report(StateReport, NoKey, OnChange, force)

HandleCmdModeSet(mode) ==
    <<SetMode(mode), SendModeReport(TRUE)>>
    \o When(SupportsSetpoint(mode), SendSetpointReport(mode, TRUE))

HandleCmdSetpointSet(mode, temp) ==
    <<SetSetpoint(mode, temp), SendSetpointReport(mode, TRUE)>>

HandleCmdModeGetReport == <<SendModeReport(TRUE)>>

HandleCmdSetpointGetReport(mode) == <<SendSetpointReport(mode, TRUE)>>

HandleCmdStateGetReport == <<SendStateReport(TRUE)>>

handleReporting ==
    When(Specification.sup_modes # {}, SendModeReport(FALSE))
    \o ForEach(Specification.sup_setpoints, LAMBDA mode : SendSetpointReport(mode, FALSE))
    \o When(Specification.sup_states # {}, SendStateReport(FALSE))

Requested == {38, 48}

Values ==
    [a \in {Attribute(ModeReport, Empty), Attribute(StateReport, Empty)}
           \cup {Attribute(SetpointReport, m) : m \in Range(Specification.sup_setpoints)}
        |-> CASE a[1] = ModeReport     -> Modes
              [] a[1] = SetpointReport -> {RoundToStep(t) : t \in Requested}
              [] a[1] = StateReport    -> {"idle", "heat"}]

\* What the specification lets a command set: a mode, and in a setpoint that has
\* a range, what is in it and on a step.
Limits ==
    [a \in {Attribute(ModeReport, Empty)}
           \cup {Attribute(SetpointReport, m) :
                    m \in {n \in Range(Specification.sup_setpoints) :
                             supportedRange(Listed(n)) # None}}
        |-> IF a[1] = ModeReport THEN Specification.sup_modes
            ELSE LET range == supportedRange(Listed(a[2]))
                     step == Specification.sup_step
                 IN  {v \in range.Min..range.Max : step > 0 => v % step = 0}]

Commands ==
    {HandleCmdModeSet(m) : m \in Spelled(Modes)}
    \cup {HandleCmdSetpointSet(m, t) : m \in Spelled(Modes), t \in Requested}
    \cup {HandleCmdSetpointGetReport(m) : m \in Spelled(Modes)}
    \cup {HandleCmdModeGetReport, HandleCmdStateGetReport}
=============================================================================
