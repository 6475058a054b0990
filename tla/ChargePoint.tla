---------------------------- MODULE ChargePoint -----------------------------
(***************************************************************************)
(* A charging station (adapter/service/chargepoint).  What it can do       *)
(* follows from its specification and from the optional interfaces that    *)
(* its controller implements.                                              *)
(***************************************************************************)
EXTENDS ServiceCalls, Integers

CONSTANT Specification

StateReport == "evt.state.report"
CurrentSessionReport == "evt.current_session.report"
CableLockReport == "evt.cable_lock.report"
MaxCurrentReport == "evt.max_current.report"
PhaseModeReport == "evt.phase_mode.report"

Interfaces == {"AdjustableMaxCurrent", "AdjustableOfferedCurrent", "AdjustablePhaseMode",
               "PhaseModeAware", "AdjustableCableLock", "CableLockAware"}

\* A station that can do everything, one that can only report, and one whose
\* specification does not list what its controller implements.
Specifications ==
    {[sup_states |-> {"charging", "finished"}, sup_max_current |-> 16,
      sup_phase_modes |-> {"NL1L2L3", "NL1"}, sup_charging_modes |-> {"slow"},
      controller |-> Interfaces],
     [sup_states |-> {}, sup_max_current |-> 16, sup_phase_modes |-> {"NL1"},
      sup_charging_modes |-> {}, controller |-> {"PhaseModeAware", "CableLockAware"}],
     [sup_states |-> {"charging", "finished"}, sup_max_current |-> None,
      sup_phase_modes |-> {}, sup_charging_modes |-> {}, controller |-> Interfaces]}

Implements(interface) == interface \in Specification.controller

adjustableMaxCurrentController ==
    Specification.sup_max_current # None /\ Implements("AdjustableMaxCurrent")

adjustableOfferedCurrentController ==
    Specification.sup_max_current # None /\ Implements("AdjustableOfferedCurrent")

phaseModeAwareController ==
    Specification.sup_phase_modes # {} /\ Implements("PhaseModeAware")

adjustablePhaseModeController ==
    phaseModeAwareController /\ Implements("AdjustablePhaseMode")

cableLockAwareController == Implements("CableLockAware")

adjustableCableLockController ==
    cableLockAwareController /\ Implements("AdjustableCableLock")

SupportsAdjustingMaxCurrent == adjustableMaxCurrentController

SupportsAdjustingPhaseModes == adjustablePhaseModeController

IsCableLockAware == cableLockAwareController

\* Any case is accepted; a station without modes takes every mode.
normalizeChargingMode(mode) ==
    \/ mode = NoKey
    \/ Specification.sup_charging_modes = {}
    \/ mode[1] \in Specification.sup_charging_modes

validateCurrent(current) ==
    6 <= current /\ current <= Specification.sup_max_current

validatePhaseMode(mode) == mode \in {Listed(m) : m \in Specification.sup_phase_modes}

\* A session is told apart by the current it is offered.
Sessions == {0, 16}

StateAndSession(states) ==
    [a \in {Attribute(StateReport, Empty), Attribute(CurrentSessionReport, Empty)}
        |-> IF a[1] = StateReport THEN states ELSE Sessions]

StartCharging(mode) ==
    Given(normalizeChargingMode(mode), Set(StateAndSession({"charging", "finished"})))

StopCharging == Set(StateAndSession({"finished"}))

SetCableLock(lock) ==
    Given(adjustableCableLockController, Set(Takes(Attribute(CableLockReport, Empty), {lock})))

SetOfferedCurrent(current) ==
    Given(adjustableOfferedCurrentController /\ validateCurrent(current),
          Set(Takes(Attribute(CurrentSessionReport, Empty), {current})))

SetMaxCurrent(current) ==
    Given(adjustableMaxCurrentController /\ validateCurrent(current),
          Set(Takes(Attribute(MaxCurrentReport, Empty), {current})))

SetPhaseMode(mode) ==
    Given(adjustablePhaseModeController /\ validatePhaseMode(mode),
          Set(Takes(Attribute(PhaseModeReport, Empty), {mode[1]})))

SendCurrentSessionReport(force) ==
    Report(CurrentSessionReport, NoKey, AtLeastEvery, force)

SendCableLockReport(force) ==
    Given(cableLockAwareController, Report(CableLockReport, NoKey, OnChange, force))

SendStateReport(force) == Report(StateReport, NoKey, OnChange, force)

SendMaxCurrentReport(force) ==
    Given(adjustableMaxCurrentController, Report(MaxCurrentReport, NoKey, OnChange, force))

SendPhaseModeReport(force) ==
    Given(phaseModeAwareController, Report(PhaseModeReport, NoKey, OnChange, force))

handleCmdChargeStart(mode) ==
    <<StartCharging(mode), SendStateReport(TRUE), SendCurrentSessionReport(TRUE)>>

handleCmdChargeStop ==
    <<StopCharging, SendStateReport(TRUE), SendCurrentSessionReport(TRUE)>>

handleCmdCableLockSet(value) == <<SetCableLock(value), SendCableLockReport(TRUE)>>

handleCmdStateGetReport == <<SendStateReport(TRUE)>>

handleCmdCableLockGetReport == <<SendCableLockReport(TRUE)>>

handleCmdCurrentSessionSetCurrent(current) ==
    <<SetOfferedCurrent(current), SendCurrentSessionReport(TRUE)>>

handleCmdCurrentSessionGetReport == <<SendCurrentSessionReport(TRUE)>>

\* As if the confirmation is left to the reporting strategy.
SetMaxCurrentUnforced(current) == <<SetMaxCurrent(current), SendMaxCurrentReport(FALSE)>>

handleCmdMaxCurrentSet(current) == <<SetMaxCurrent(current), SendMaxCurrentReport(TRUE)>>

handleCmdMaxCurrentGetReport == <<SendMaxCurrentReport(TRUE)>>

handleCmdPhaseModeSet(mode) == <<SetPhaseMode(mode), SendPhaseModeReport(TRUE)>>

handleCmdPhaseModeGetReport == <<SendPhaseModeReport(TRUE)>>

\* The phase mode of a station that cannot adjust it is not in the task.
sendChargepointReports ==
    <<SendCurrentSessionReport(FALSE)>>
    \o When(Specification.sup_states # {}, SendStateReport(FALSE))
    \o When(SupportsAdjustingMaxCurrent, SendMaxCurrentReport(FALSE))
    \o When(SupportsAdjustingPhaseModes, SendPhaseModeReport(FALSE))
    \o When(IsCableLockAware, SendCableLockReport(FALSE))

Values ==
    [a \in {Attribute(e, Empty) : e \in {StateReport, CurrentSessionReport, CableLockReport,
                                         MaxCurrentReport, PhaseModeReport}}
        |-> CASE a[1] = StateReport          -> {"charging", "finished"}
              [] a[1] = CurrentSessionReport -> Sessions \cup {17}
              [] a[1] = CableLockReport      -> BOOLEAN
              [] a[1] = MaxCurrentReport     -> {6, 16, 17}
              [] a[1] = PhaseModeReport      -> {"NL1L2L3", "NL1"}]

\* The currents that can be set: none if there is no maximum.
SupportedCurrents ==
    IF Specification.sup_max_current = None THEN {} ELSE 6..Specification.sup_max_current

\* What the specification lets a command set.  To start and to stop also sets the
\* session, to what the station offers, and without a maximum that is no matter of
\* the specification.
Limits ==
    [a \in {Attribute(e, Empty) : e \in {MaxCurrentReport, PhaseModeReport}
                                 \cup (IF SupportedCurrents = {} THEN {}
                                                                ELSE {CurrentSessionReport})}
        |-> CASE a[1] = MaxCurrentReport     -> SupportedCurrents
              [] a[1] = PhaseModeReport      -> Specification.sup_phase_modes
              [] a[1] = CurrentSessionReport -> {0} \cup SupportedCurrents]

Currents == {5, 6, 16, 17}

Commands ==
    {handleCmdChargeStart(m) : m \in Spelled({Empty, "slow", "fast"})}
    \cup {handleCmdCableLockSet(b) : b \in BOOLEAN}
    \cup {handleCmdCurrentSessionSetCurrent(c) : c \in Currents \ {6}}
    \cup {handleCmdMaxCurrentSet(c) : c \in Currents}
    \cup {handleCmdPhaseModeSet(m) : m \in Spelled({"NL1", "L1L2"})}
    \cup {handleCmdChargeStop, handleCmdStateGetReport, handleCmdCableLockGetReport,
          handleCmdCurrentSessionGetReport, handleCmdMaxCurrentGetReport,
          handleCmdPhaseModeGetReport}
=============================================================================
