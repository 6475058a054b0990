---------------------------- MODULE OutLvlSwitch ----------------------------
(***************************************************************************)
(* A dimmer or a blind (adapter/service/outlvlswitch).  A level is set at  *)
(* once or reached by a transition that the device makes on its own.       *)
(***************************************************************************)
EXTENDS ServiceCalls, Integers

CONSTANT Specification   \* the properties of the service, see Specifications

LvlReport == "evt.lvl.report"
Lvl == Attribute(LvlReport, Empty)

Specifications ==
    {s \in [min_lvl : {0}, max_lvl : {2}, transition : BOOLEAN, sup_start_lvl : BOOLEAN] :
        s.sup_start_lvl => s.transition}

Levels == Specification.min_lvl..Specification.max_lvl

\* The levels of messages: one of them is above the maximum.
Requested == Specification.min_lvl..Specification.max_lvl + 1

\* As if a forced report publishes no event.
AnnouncedByTaskOnly(force) ==
    IF force THEN Report(LvlReport, NoKey, OnChange, force)
             ELSE Announced(Report(LvlReport, NoKey, OnChange, force))

\* The level event is published whether the report is sent or not.
SendLevelReport(force) == Announced(Report(LvlReport, NoKey, OnChange, force))

\* The level is not compared with the minimum and the maximum.
SetLevel(value) == Set(Takes(Lvl, {value}))

SetBinaryState(value) == Set(Takes(Lvl, IF value THEN Levels \ {0} ELSE {0}))

validateStartLevelOption(startLvl) == startLvl = None \/ startLvl \in Levels

\* Where a transition that starts at a level may have come to.
Reached(direction, startLvl) ==
    CASE startLvl = None   -> Levels
      [] direction = "up"  -> {l \in Levels : l >= startLvl}
      [] OTHER             -> {l \in Levels : l <= startLvl}

StartLevelTransition(value, startLvl) ==
    Given(/\ Specification.transition
          /\ value \in {"up", "down"}
          /\ validateStartLevelOption(startLvl),
          Set(Takes(Lvl, Reached(value, IF Specification.sup_start_lvl THEN startLvl
                                                                       ELSE None))))

StopLevelTransition == Given(Specification.transition, Set(Takes(Lvl, Levels)))

HandleCmdLvlStart(direction, startLvl) ==
    <<StartLevelTransition(direction, startLvl), SendLevelReport(TRUE)>>

HandleCmdLvlStop == <<StopLevelTransition, SendLevelReport(TRUE)>>

HandleCmdLvlSet(lvl) == <<SetLevel(lvl), SendLevelReport(TRUE)>>

HandleCmdBinarySet(binary) == <<SetBinaryState(binary), SendLevelReport(TRUE)>>

HandleCmdLvlGetReport == <<SendLevelReport(TRUE)>>

handleReporting == <<SendLevelReport(FALSE)>>

Values == Takes(Lvl, Requested)

Commands ==
    {HandleCmdLvlStart(d, l) : d \in {"up", "down", "aside"}, l \in {None, 1, 3}}
    \cup {HandleCmdLvlSet(l) : l \in Requested}
    \cup {HandleCmdBinarySet(b) : b \in BOOLEAN}
    \cup {HandleCmdLvlStop, HandleCmdLvlGetReport}
=============================================================================
