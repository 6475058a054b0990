---------------------------- MODULE VirtualMeter ----------------------------
(***************************************************************************)
(* The virtual meter (adapter/service/virtualmeter): the energy of a level *)
(* switch is worked out from the power that the user enters for its modes  *)
(* and from the levels that the switch reports.  The manager hears of      *)
(* levels and of connectivity through the event bus, is asked by the meter *)
(* service that it adds to the thing, and keeps the device in a database.  *)
(*                                                                         *)
(* One thing with one level switch, hence one meter.  Every method of the  *)
(* manager holds its lock from its first to its last line and is one       *)
(* action.  A device in the database can be written or not.  A failed read *)
(* matters in the registration, which has changed the thing by then; every *)
(* other method reads first, so that a failed read returns with nothing    *)
(* changed and is not an action.  Energy is counted in watts times ticks   *)
(* of the clock, a level as it is reported: to divide it by the maximum    *)
(* level scales the energy.  The powers are taken to be non-negative and   *)
(* the clock never to go back; the code checks neither.  The unit is       *)
(* stored and never used.  The report of the modes follows the pattern     *)
(* that DeviceServices checks and is left out.                             *)
(***************************************************************************)
EXTENDS EventBus, FiniteSetsExt

CONSTANTS
    Modes,           \* the maps of mode to power that users send
    NoModes,         \* the nil map
    Levels,          \* of the switch
    RecalculationPeriod,
    GarbagePeriod,
    MaxTime,         \* bounds: of the clock,
    MaxChanges,      \* of the changes of the switch,
    MaxFaults        \* of the saves and reports that fail, of the exits of the process
                     \* and of the stops of the listener

\* The mode of a device that no level was reported for.
NoMode == ""

Device == [Modes : Modes \cup {NoModes}, CurrentMode : {"on", "off", NoMode},
           Level : Levels \cup {0}, AccumulatedEnergy : Nat, LastTimeUpdated : 0..MaxTime,
           Active : BOOLEAN]

ASSUME VirtualMeterAssumption ==
    /\ Handlers = {"level", "connectivity"}
    /\ Modes \subseteq [{"on", "off"} -> Nat] /\ IsFiniteSet(Modes) /\ Modes # {}
    /\ Levels \subseteq Nat /\ IsFiniteSet(Levels) /\ Levels # {}
    /\ NoModes \notin Modes /\ None \notin Device
    /\ RecalculationPeriod \in Nat /\ GarbagePeriod \in Nat
    /\ MaxTime \in Nat /\ MaxChanges \in Nat /\ MaxFaults \in Nat

VARIABLES
    stored,      \* the device in the database; None if there is no entry
    template,    \* virtualServices holds the meter service of the thing
    services,    \* the virtual services of the thing
    reading,     \* the last energy that was reported since it was last reset
    level,       \* of the switch
    now,         \* the clock
    since,       \* history: when the energy was last set to zero,
    drawn,       \* if watched, the energy since then at the level known and the
                 \* modes in force
    watched,     \* since then, the device was recalculated within two periods, and
                 \* changed its activity only with no energy to be charged
    changes, faults

manager == <<stored, template, services>>
world   == <<level, now, changes>>
history == <<since, drawn, watched>>
vars == <<bus, manager, reading, world, history, faults>>

EmptyDevice == [Modes |-> NoModes, CurrentMode |-> NoMode, Level |-> 0,
                AccumulatedEnergy |-> 0, LastTimeUpdated |-> now, Active |-> FALSE]

Initialised(d) == d.Modes # NoModes

\* reportPerUnit, in watts: an entry that the map does not have is zero.
Power(d) ==
    IF Initialised(d) /\ d.CurrentMode # NoMode THEN d.Modes[d.CurrentMode] * d.Level ELSE 0

Elapsed(d) == now - d.LastTimeUpdated

\* The energy of the time since the last update.
Pending(d) == Elapsed(d) * Power(d)

Due(force, d) == d.Active /\ (force \/ Elapsed(d) >= RecalculationPeriod)

\* As if a single period were the most that is charged.
RecalculatedForOnePeriod(force, d) ==
    IF Due(force, d)
    THEN [d EXCEPT !.AccumulatedEnergy = @ + Min({Elapsed(d), RecalculationPeriod}) * Power(d),
                   !.LastTimeUpdated = now]
    ELSE d

recalculateEnergy(force, d) ==
    IF Due(force, d)
    THEN [d EXCEPT !.AccumulatedEnergy = @ + Min({Elapsed(d), 2 * RecalculationPeriod}) * Power(d),
                   !.LastTimeUpdated = now]
    ELSE d

-----------------------------------------------------------------------------

\* A call succeeds, or fails while the bound allows it.
Outcome(ok) ==
    /\ ok \/ faults < MaxFaults
    /\ faults' = faults + IF ok THEN 0 ELSE 1

\* SetDevice with device d.
SetDevice(d, ok) == stored' = IF ok THEN d ELSE stored

Save(d, ok) == Outcome(ok) /\ SetDevice(d, ok)

\* If it is saved, the energy is zero and its history starts again.
Zeroed(ok) ==
    /\ since' = IF ok THEN now ELSE since
    /\ drawn' = IF ok THEN 0 ELSE drawn
    /\ watched' = (watched \/ ok)
    /\ reading' = IF ok THEN 0 ELSE reading

\* registerVirtualServices, for a thing that has just been created, adds the vms
\* service, reads the device and gives one with modes its meter; any other is
\* replaced by a new one.  A device that cannot be read leaves the thing with its
\* vms service alone, and no later call gets past it: the restarts bound how
\* often this happens.
RegisterThing ==
    /\ services = {}
    /\ \/ /\ stored # None /\ Initialised(stored)
          /\ services' = {"vms", "meter"} /\ template' = TRUE
          /\ UNCHANGED <<stored, faults, history, reading>>
       \/ /\ ~(stored # None /\ Initialised(stored))
          /\ \E ok \in BOOLEAN :
               /\ Save(EmptyDevice, ok) /\ Zeroed(ok)
               /\ services' = {"vms"} /\ template' = ok
       \/ /\ services' = {"vms"}
          /\ UNCHANGED <<stored, template, faults, history, reading>>
    /\ UNCHANGED <<bus, world>>

\* As if the thing were changed before the device is saved.
IncludedFirst(ok, needed, list) ==
    /\ services' = list
    /\ \E sent \in BOOLEAN : (sent \/ (ok /\ needed)) /\ Outcome(ok /\ sent)

\* thing.Update and SendInclusionReport, once the device is saved; a report that
\* fails ends the handler.
Included(ok, needed, list) ==
    /\ services' = IF ok THEN list ELSE services
    /\ \E sent \in BOOLEAN : (sent \/ (ok /\ needed)) /\ Outcome(ok /\ sent)

\* handleCmdMeterAdd, AddMeter and add, for modes that pass the checks of
\* AddMeter.  The device keeps its energy and its activity; only a meter that is
\* new changes the thing.
Add(modes) ==
    LET d == IF Initialised(stored) THEN recalculateEnergy(TRUE, stored) ELSE stored
        new == IF Initialised(stored) THEN {} ELSE {"meter"}
    IN  /\ "vms" \in services /\ template /\ stored # None
        /\ \E ok \in BOOLEAN :
             /\ SetDevice([d EXCEPT !.Modes = modes, !.LastTimeUpdated = now], ok)
             /\ Included(ok, new # {}, services \cup new)
        /\ UNCHANGED <<bus, template, reading, world, history>>

\* handleCmdMeterRemove, RemoveMeter, remove and CleanDevice: what is left is an
\* entry like that of a new device.
Remove ==
    /\ "vms" \in services /\ template
    /\ \E ok \in BOOLEAN :
         /\ SetDevice(EmptyDevice, ok) /\ Zeroed(ok)
         /\ Included(ok, TRUE, services \ {"meter"})
    /\ UNCHANGED <<bus, template, world>>

\* As if the energy were reported although it could not be saved.
ReportUnsaved ==
    /\ "meter" \in services /\ stored # None
    /\ \E ok \in BOOLEAN :
         /\ ok \/ Due(FALSE, stored)
         /\ Save(recalculateEnergy(FALSE, stored), ok)
         /\ reading' = recalculateEnergy(FALSE, stored).AccumulatedEnergy
    /\ UNCHANGED <<bus, template, services, world, history>>

\* MeterReport and report, for the energy.
Report ==
    /\ "meter" \in services /\ stored # None
    /\ \E ok \in BOOLEAN :
         /\ ok \/ Due(FALSE, stored)
         /\ Save(recalculateEnergy(FALSE, stored), ok)
         /\ reading' = IF ok THEN stored'.AccumulatedEnergy ELSE reading
    /\ UNCHANGED <<bus, template, services, world, history>>

\* As if the time of an inactive device were left alone.
ResetActiveTimeOnly ==
    /\ "meter" \in services /\ stored # None
    /\ \E ok \in BOOLEAN :
         /\ Save([stored EXCEPT !.AccumulatedEnergy = 0,
                                !.LastTimeUpdated = IF stored.Active THEN now ELSE @], ok)
         /\ Zeroed(ok)
    /\ UNCHANGED <<bus, template, services, world>>

\* MeterReset and reset.
Reset ==
    /\ "meter" \in services /\ stored # None
    /\ \E ok \in BOOLEAN :
         /\ Save([stored EXCEPT !.AccumulatedEnergy = 0, !.LastTimeUpdated = now], ok)
         /\ Zeroed(ok)
    /\ UNCHANGED <<bus, template, services, world>>

\* handleGarbageCleaning and deleteDeviceEntry.
Clean ==
    /\ "vms" \in services /\ stored # None
    /\ Elapsed(stored) > GarbagePeriod
    /\ \E ok \in BOOLEAN : Save(None, ok) /\ Zeroed(ok)
    /\ UNCHANGED <<bus, template, services, world>>

-----------------------------------------------------------------------------

\* SendLevelReport of the level switch, by handleStatePolling or by a command,
\* publishes the level whether it has changed or not, ...
PollLevel ==
    /\ services # {}
    /\ channel' = Published("level", level)
    /\ UNCHANGED <<running, closeCh, manager, reading, world, history, faults>>

\* ... and SendConnectivityReport of the thing the state of its connection, which
\* may be any.
PollConnectivity ==
    /\ services # {}
    /\ \E online \in BOOLEAN : channel' = Published("connectivity", online)
    /\ UNCHANGED <<running, closeCh, manager, reading, world, history, faults>>

ModeOf(l) == IF l = 0 THEN "off" ELSE "on"

\* levelEventProcessor.Process and update: nothing for a device without modes,
\* nothing for a level that is known.
Update ==
    LET l == Head(channel["level"])
        d == [recalculateEnergy(TRUE, stored) EXCEPT !.Level = l, !.CurrentMode = ModeOf(l)]
    IN  /\ Process("level")
        /\ IF services # {} /\ stored # None /\ Initialised(stored)
              /\ ~(stored.CurrentMode = ModeOf(l) /\ stored.Level = l)
           THEN \E ok \in BOOLEAN : Save(d, ok)
           ELSE UNCHANGED <<stored, faults>>
        /\ UNCHANGED <<template, services, reading, world, history>>

\* connectivityEventProcessor.Process and updateDeviceActivity, which looks for
\* the virtual services of the thing and leaves the time of the device alone.
UpdateActivity ==
    LET active == Head(channel["connectivity"])
    IN  /\ Process("connectivity")
        /\ IF services # {} /\ template /\ stored # None /\ stored.Active # active
           THEN \E ok \in BOOLEAN :
                /\ Save([stored EXCEPT !.Active = active], ok)
                /\ watched' = (watched /\ (ok => Pending(stored) = 0))
           ELSE UNCHANGED <<stored, faults, watched>>
        /\ UNCHANGED <<template, services, reading, world, since, drawn>>

-----------------------------------------------------------------------------

StartListener == services # {} /\ Start /\ UNCHANGED <<manager, reading, world, history, faults>>
LeaveHandler(h) == Leave(h) /\ UNCHANGED <<manager, reading, world, history, faults>>
StoppedListener == Stopped /\ UNCHANGED <<manager, reading, world, history, faults>>

StopListener ==
    /\ Stop
    /\ faults < MaxFaults /\ faults' = faults + 1
    /\ UNCHANGED <<manager, reading, world, history>>

\* The process ends and is started again: the database is what is left.
Restart ==
    /\ services # {}
    /\ Exit
    /\ faults < MaxFaults /\ faults' = faults + 1
    /\ services' = {} /\ template' = FALSE
    /\ UNCHANGED <<stored, reading, world, history>>

DeviceChanges ==
    /\ changes < MaxChanges /\ changes' = changes + 1
    /\ level' \in Levels \ {level}
    /\ UNCHANGED <<bus, manager, reading, now, history, faults>>

\* The clock.  The history charges the tick to the state of the device.
Tick ==
    /\ now < MaxTime /\ now' = now + 1
    /\ watched' = (watched /\ ~(stored # None /\ stored.Active /\ Power(stored) > 0
                                /\ Elapsed(stored) >= 2 * RecalculationPeriod))
    /\ drawn' = IF ~watched' THEN 0
                ELSE drawn + IF stored # None /\ stored.Active THEN Power(stored) ELSE 0
    /\ UNCHANGED <<bus, manager, reading, level, changes, since, faults>>

Init ==
    /\ BusInit
    /\ stored = None /\ template = FALSE /\ services = {}
    /\ reading = 0
    /\ level \in Levels /\ now = 0 /\ changes = 0
    /\ since = 0 /\ drawn = 0 /\ watched = FALSE
    /\ faults = 0

Next ==
    \/ RegisterThing
    \/ \E modes \in Modes : Add(modes)
    \/ Remove \/ Report \/ Reset \/ Clean
    \/ PollLevel \/ PollConnectivity
    \/ \E h \in Handlers : LeaveHandler(h)
    \/ Update \/ UpdateActivity
    \/ StartListener \/ StopListener \/ StoppedListener \/ Restart
    \/ DeviceChanges \/ Tick

Spec == Init /\ [][Next]_vars

\* The tasks run at their intervals, a goroutine that can go on does, and who
\* starts the process starts its listener.
Fairness ==
    /\ WF_vars(RegisterThing) /\ WF_vars(StartListener) /\ WF_vars(StoppedListener)
    /\ WF_vars(PollLevel)
    /\ \A h \in Handlers : SF_vars(LeaveHandler(h))
    /\ WF_vars(Update)

FairSpec == Spec /\ Fairness

-----------------------------------------------------------------------------

TypeOK ==
    /\ BusTypeOK([level |-> Levels, connectivity |-> BOOLEAN])
    /\ stored \in Device \cup {None}
    /\ template \in BOOLEAN /\ services \in {{}, {"vms"}, {"vms", "meter"}}
    /\ reading \in Nat
    /\ level \in Levels /\ now \in 0..MaxTime
    /\ since \in 0..MaxTime /\ drawn \in Nat /\ watched \in BOOLEAN
    /\ changes \in 0..MaxChanges /\ faults \in 0..MaxFaults

\* The thing has the meter service if and only if its device has modes and the
\* manager has the service that it needs to remove the meter, through failed
\* reads and saves, restarts and meters added, changed and removed (add, remove
\* and registerVirtualServices change them one after the other).  A registration
\* that failed to read the device has no such service: that thing is without its
\* meter, and cannot be given one, until the process is started again.
MeterMatchesStore ==
    services # {} /\ stored # None =>
        ("meter" \in services <=> template /\ Initialised(stored))

\* Energy is neither lost nor charged twice: as long as the time between two
\* recalculations is at most two periods, the energy that is stored and the
\* energy since the last update add up to what was drawn at the level and the
\* modes of each tick, whatever changes, failed saves and restarts came between
\* (recalculateEnergy and its five callers).
EnergyExact ==
    watched /\ stored # None =>
        stored.AccumulatedEnergy + (IF stored.Active THEN Pending(stored) ELSE 0) = drawn

\* Even when it is not exact, a meter never charges more time than has passed
\* since its energy was zero, at the highest power (LastTimeUpdated moves with
\* every charge).
NoTimeTwice ==
    stored # None => stored.AccumulatedEnergy
        <= (now - since) * Max({m["on"] : m \in Modes}) * Max(Levels)

\* A reading that was reported is never taken back by a crash or a failed save:
\* until it is reset, the energy that is stored is at least what was last
\* reported (report saves before it answers).
ReadingsKept == stored # None => reading <= stored.AccumulatedEnergy

\* The events are lossy, and yet a meter in use comes to know the level of its
\* switch (handleStatePolling publishes it again and again).
MeterFollowsSwitch ==
    (stored # None /\ Initialised(stored)) ~>
        (stored # None /\ Initialised(stored) => stored.Level = level)
=============================================================================
