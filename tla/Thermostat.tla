----------------------------- MODULE Thermostat -----------------------------
(***************************************************************************)
(* A thermostat (adapter/service/thermostat): a mode, a setpoint for each  *)
(* of some of the modes, and a state that can only be read.  Temperatures  *)
(* are in hundredths of a degree; a message carries tenths.                *)
(***************************************************************************)
EXTENDS ServiceCalls, Integers

CONSTANT Specification

ModeReport == "evt.mode.report"
SetpointReport == "evt.setpoint.report"
StateReport == "evt.state.report"

Specifications ==
    [sup_modes : {{"off", "heat"}}, sup_setpoints : {<<"heat">>},
     sup_states : {{}, {"idle", "heat"}}]

Modes == {"off", "heat", "dry"}
Temperatures == {2100, 2104, 2200}

normalizeMode(mode) == IF mode[1] \in Specification.sup_modes THEN mode[1] ELSE None

normalizeSetpoint(mode) ==
    IF mode[1] \in Range(Specification.sup_setpoints) THEN mode[1] ELSE None

SupportsSetpoint(setpoint) == normalizeSetpoint(setpoint) # None

\* The device may give another setpoint to the mode it enters.
SetMode(mode) ==
    Given(normalizeMode(mode) # None,
          Set(Takes(Attribute(ModeReport, Empty), {normalizeMode(mode)})))

SetSetpoint(mode, value) ==
    Given(SupportsSetpoint(mode),
          Set(Takes(Attribute(SetpointReport, normalizeSetpoint(mode)), {value})))

SendModeReport(force) == Report(ModeReport, NoKey, OnChange, force)

\* Cached under the mode as the caller spelled it.
SendSetpointReport(mode, force) ==
    Given(SupportsSetpoint(mode), Report(SetpointReport, mode, OnChange, force))

SendStateReport(force) == Report(StateReport, NoKey, OnChange, force)

\* A temperature in a message, 'f' with one digit.
StringMap(temp) == ((temp + 5) \div 10) * 10

HandleCmdModeSet(mode) ==
    <<SetMode(mode), SendModeReport(TRUE)>>
    \o When(SupportsSetpoint(mode), SendSetpointReport(mode, TRUE))

HandleCmdSetpointSet(mode, temp) ==
    <<SetSetpoint(mode, temp), SendSetpointReport(mode, TRUE)>>

HandleCmdModeGetReport == <<SendModeReport(TRUE)>>

HandleCmdSetpointGetReport(mode) == <<SendSetpointReport(mode, TRUE)>>

HandleCmdStateGetReport == <<SendStateReport(TRUE)>>

handleReporting ==
    When(Specification.sup_modes # {}, SendModeReport(FALSE))
    \o ForEach(Specification.sup_setpoints, LAMBDA mode : SendSetpointReport(mode, FALSE))
    \o When(Specification.sup_states # {}, SendStateReport(FALSE))

Values ==
    [a \in {Attribute(ModeReport, Empty), Attribute(StateReport, Empty)}
           \cup {Attribute(SetpointReport, m) : m \in Range(Specification.sup_setpoints)}
        |-> CASE a[1] = ModeReport     -> Modes
              [] a[1] = SetpointReport -> Temperatures
              [] a[1] = StateReport    -> {"idle", "heat"}]

\* What the specification lets a command set.
Limits == Takes(Attribute(ModeReport, Empty), Specification.sup_modes)

Commands ==
    {HandleCmdModeSet(m) : m \in Spelled(Modes)}
    \cup {HandleCmdSetpointSet(m, t) : m \in Spelled(Modes), t \in {2100, 2104}}
    \cup {HandleCmdSetpointGetReport(m) : m \in Spelled(Modes)}
    \cup {HandleCmdModeGetReport, HandleCmdStateGetReport}
=============================================================================
