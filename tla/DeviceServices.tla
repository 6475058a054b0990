--------------------------- MODULE DeviceServices ---------------------------
(***************************************************************************)
(* What the services of a device have in common.  Command handlers, run by *)
(* the workers of the router, and the periodic reporting task call the     *)
(* methods of one service; the device behind it changes on its own and may *)
(* lose its connection, and a report that is sent is remembered in the     *)
(* reporting cache (adapter/cache/reporter.go), so that the task only      *)
(* sends what changed.                                                     *)
(*                                                                         *)
(* A behaviour follows one attribute of one service; calls about other     *)
(* attributes only succeed or fail.  Which service, with which             *)
(* specification, and which attribute is chosen in Init: services share    *)
(* no state, and attributes share only the lock.                           *)
(*                                                                         *)
(* A method runs under the lock of the service.  To set the device is one  *)
(* step; to report it is two, since the device may change between the read *)
(* and the message.                                                        *)
(***************************************************************************)
EXTENDS ServiceCalls, Integers, FiniteSets

CONSTANTS
    Workers,      \* of the router
    Task,         \* the goroutine of the reporting task
    MaxFaults     \* bound on the calls that fail

ASSUME DeviceServicesAssumption == Task \notin Workers /\ None \notin Workers \cup {Task} /\ MaxFaults \in Nat

Procs == Workers \cup {Task}

VARIABLES
    service,     \* the service
    spec,        \* its specification, and what its controller implements
    attr,        \* the attribute that is followed
    device,      \* its value; None is nothing to report
    hub,         \* what the last report said, None before the first
    cache,       \* per spelling: the cached value, and whether the interval of
                 \* the strategy has passed since; None if there is no value
    published,   \* the last event published inside the process
    connected,   \* the connectivity report of the thing
    lock,        \* who holds the lock, None if nobody does
    calls,       \* per process: the calls its handler has still to make
    reading,     \* per process: the value that its report has read, <<>> if none
    owes,        \* history, per process: the attribute was set by its handler and
                 \* is not reported yet
    drift,       \* history: the hub need not agree with the device, which changed
                 \* on its own, or a call failed
    faults       \* the number of calls that failed

fixed == <<service, spec, attr>>
vars == <<service, spec, attr, device, hub, cache, published, connected, lock,
          calls, reading, owes, drift, faults>>

OnOff   == INSTANCE OutBinSwitch
Level   == INSTANCE OutLvlSwitch  WITH Specification <- spec
Thermo  == INSTANCE Thermostat    WITH Specification <- spec
Heater  == INSTANCE WaterHeater   WITH Specification <- spec
Player  == INSTANCE MediaPlayer   WITH Specification <- spec
Charger == INSTANCE ChargePoint   WITH Specification <- spec
Meter   == INSTANCE NumericMeter  WITH Specification <- spec
Sensor  == INSTANCE NumericSensor WITH Specification <- spec
Color   == INSTANCE ColorCtrl     WITH Specification <- spec
Fan     == INSTANCE FanCtrl       WITH Specification <- spec
Scene   == INSTANCE SceneCtrl     WITH Specification <- spec
Present == INSTANCE Presence
Cell    == INSTANCE Battery       WITH Specification <- spec
Params  == INSTANCE Parameters    WITH Specification <- spec
Diag    == INSTANCE Diagnostic    WITH Specification <- spec
Update  == INSTANCE Ota
System  == INSTANCE DevSys        WITH Specification <- spec

Plain == {[plain |-> TRUE]}

SpecificationsOf(s) ==
    CASE s = "out_lvl_switch" -> Level!Specifications
      [] s = "thermostat"     -> Thermo!Specifications
      [] s = "water_heater"   -> Heater!Specifications
      [] s = "media_player"   -> Player!Specifications
      [] s = "chargepoint"    -> Charger!Specifications
      [] s = "meter_elec"     -> Meter!Specifications
      [] s = "sensor_temp"    -> Sensor!Specifications
      [] s = "color_ctrl"     -> Color!Specifications
      [] s = "fan_ctrl"       -> Fan!Specifications
      [] s = "scene_ctrl"     -> Scene!Specifications
      [] s = "battery"        -> Cell!Specifications
      [] s = "parameters"     -> Params!Specifications
      [] s = "diagnostic"     -> Diag!Specifications
      [] s = "dev_sys"        -> System!Specifications
      [] s \in {"out_bin_switch", "sensor_presence", "ota"} -> Plain

Services ==
    {"out_bin_switch", "out_lvl_switch", "thermostat", "water_heater", "media_player",
     "chargepoint", "meter_elec", "sensor_temp", "color_ctrl", "fan_ctrl", "scene_ctrl",
     "sensor_presence", "battery", "parameters", "diagnostic", "ota", "dev_sys"}

\* Attributes with their values, commands, and the calls of the reporting task.
Values ==
    CASE service = "out_bin_switch"  -> OnOff!Values
      [] service = "out_lvl_switch"  -> Level!Values
      [] service = "thermostat"      -> Thermo!Values
      [] service = "water_heater"    -> Heater!Values
      [] service = "media_player"    -> Player!Values
      [] service = "chargepoint"     -> Charger!Values
      [] service = "meter_elec"      -> Meter!Values
      [] service = "sensor_temp"     -> Sensor!Values
      [] service = "color_ctrl"      -> Color!Values
      [] service = "fan_ctrl"        -> Fan!Values
      [] service = "scene_ctrl"      -> Scene!Values
      [] service = "sensor_presence" -> Present!Values
      [] service = "battery"         -> Cell!Values
      [] service = "parameters"      -> Params!Values
      [] service = "diagnostic"      -> Diag!Values
      [] service = "ota"             -> Update!Values
      [] service = "dev_sys"         -> System!Values

Commands ==
    CASE service = "out_bin_switch"  -> OnOff!Commands
      [] service = "out_lvl_switch"  -> Level!Commands
      [] service = "thermostat"      -> Thermo!Commands
      [] service = "water_heater"    -> Heater!Commands
      [] service = "media_player"    -> Player!Commands
      [] service = "chargepoint"     -> Charger!Commands
      [] service = "meter_elec"      -> Meter!Commands
      [] service = "sensor_temp"     -> Sensor!Commands
      [] service = "color_ctrl"      -> Color!Commands
      [] service = "fan_ctrl"        -> Fan!Commands
      [] service = "scene_ctrl"      -> Scene!Commands
      [] service = "sensor_presence" -> Present!Commands
      [] service = "battery"         -> Cell!Commands
      [] service = "parameters"      -> Params!Commands
      [] service = "diagnostic"      -> Diag!Commands
      [] service = "ota"             -> Update!Commands
      [] service = "dev_sys"         -> System!Commands

handleReporting ==
    CASE service = "out_bin_switch"  -> OnOff!handleReporting
      [] service = "out_lvl_switch"  -> Level!handleReporting
      [] service = "thermostat"      -> Thermo!handleReporting
      [] service = "water_heater"    -> Heater!handleReporting
      [] service = "media_player"    -> Player!handleReporting
      [] service = "chargepoint"     -> Charger!sendChargepointReports
      [] service = "meter_elec"      -> Meter!handlePeriodicReporting
      [] service = "sensor_temp"     -> Sensor!handleReporting
      [] service = "color_ctrl"      -> Color!handleReporting
      [] service = "fan_ctrl"        -> Fan!handleReporting
      [] service = "scene_ctrl"      -> Scene!handleReporting
      [] service = "sensor_presence" -> Present!handleReporting
      [] service = "battery"         -> Cell!handleReporting
      [] OTHER                       -> <<>>

\* What a message carries of a value.
Shown(value) ==
    CASE service = "thermostat" /\ attr[1] = Thermo!SetpointReport -> Thermo!StringMap(value)
      [] service = "scene_ctrl" -> Scene!Scene(value)
      [] OTHER -> value

\* The attributes that a service compares with its specification before it sets
\* them, with the values that the specification allows.
Limits ==
    CASE service = "thermostat"   -> Thermo!Limits
      [] service = "water_heater" -> Heater!Limits
      [] service = "media_player" -> Player!Limits
      [] service = "chargepoint"  -> Charger!Limits
      [] service = "fan_ctrl"     -> Fan!Limits
      [] service = "scene_ctrl"   -> Scene!Limits
      [] service = "parameters"   -> Params!Limits
      [] OTHER                    -> <<>>

-----------------------------------------------------------------------------

IsControl(call) == call.do \in {"set", "change"}

\* The call is about the attribute that is followed.
Concerns(call) ==
    \/ IsControl(call) /\ attr \in DOMAIN call.effect
    \/ call.do = "report" /\ attr \in call.attrs

Current(p) == Head(calls[p])

HasChanged(key, value) == cache[key] # None => cache[key].value # value

ReportRequired(strategy, key, value) ==
    \/ HasChanged(key, value)
    \/ strategy = AtLeastEvery /\ (cache[key] # None => cache[key].aged)

Reported(key, value) == [cache EXCEPT ![key] = [value |-> value, aged |-> FALSE]]

\* A call returns without an error.
Returned(p) == calls' = [calls EXCEPT ![p] = Tail(@)]

\* A call returns an error: a handler ends with it, the task goes on.
Fails(p) ==
    /\ calls' = [calls EXCEPT ![p] = IF p = Task THEN Tail(@) ELSE <<>>]
    /\ owes' = [owes EXCEPT ![p] = FALSE]

Faulty(p) == Fails(p) /\ faults < MaxFaults /\ faults' = faults + 1 /\ drift' = TRUE

\* A worker gets a message that is routed to a command handler.
Receive(w) ==
    /\ calls[w] = <<>>
    /\ \E c \in Commands :
        /\ \E i \in DOMAIN c : Concerns(c[i])
        /\ calls' = [calls EXCEPT ![w] = c]
    /\ UNCHANGED <<fixed, device, hub, cache, published, connected, lock, reading,
                   owes, drift, faults>>

\* The task is due; it skips a thing that is not connected.
Tick ==
    /\ calls[Task] = <<>>
    /\ connected
    /\ handleReporting # <<>>
    /\ calls' = [calls EXCEPT ![Task] = handleReporting]
    /\ UNCHANGED <<fixed, device, hub, cache, published, connected, lock, reading,
                   owes, drift, faults>>

\* As if the methods do not exclude one another.
EnteredWithoutLock(p) == calls[p] # <<>> /\ reading[p] = <<>>

\* p is to make a call, and has the lock.
Entered(p) == calls[p] # <<>> /\ lock = None

Refuse(p) ==
    /\ Entered(p) /\ Current(p).do = "refuse"
    /\ Fails(p)
    /\ UNCHANGED <<fixed, device, hub, cache, published, connected, lock, reading,
                   drift, faults>>

\* The device may obey and the call fail nevertheless.
Control(p) ==
    /\ Entered(p) /\ IsControl(Current(p)) /\ Concerns(Current(p))
    /\ \E v \in Current(p).effect[attr] :
        \/ /\ device' = v
           /\ Returned(p)
           /\ owes' = [owes EXCEPT ![p] = Current(p).do = "set"]
           /\ drift' = (drift \/ Current(p).do = "change")
           /\ UNCHANGED faults
        \/ Faulty(p) /\ device' \in {v, device}
    /\ UNCHANGED <<fixed, hub, cache, published, connected, lock, reading>>

\* A call about another attribute.
Elsewhere(p) ==
    /\ Entered(p) /\ Current(p).do # "refuse" /\ ~Concerns(Current(p))
    /\ \/ Returned(p) /\ UNCHANGED <<owes, drift, faults>>
       \/ Faulty(p)
    /\ UNCHANGED <<fixed, device, hub, cache, published, connected, lock, reading>>

Read(p) ==
    /\ Entered(p) /\ Current(p).do = "report" /\ Concerns(Current(p))
    /\ \/ /\ lock' = p
          /\ reading' = [reading EXCEPT ![p] = <<device>>]
          /\ UNCHANGED <<calls, owes, drift, faults>>
       \/ Faulty(p) /\ UNCHANGED <<lock, reading>>
    /\ UNCHANGED <<fixed, device, hub, cache, published, connected>>

\* The report of p ends.
Unlocked(p) == lock' = None /\ reading' = [reading EXCEPT ![p] = <<>>]

\* The value in a report that p is to send.
Value(p) == reading[p][1]

\* The value is None, or not one that can be reported.
Reject(p) ==
    /\ reading[p] # <<>>
    /\ \/ /\ Current(p).accepts # None /\ Value(p) \notin Current(p).accepts
          /\ Fails(p) /\ drift' = TRUE
       \/ /\ Value(p) = None
          /\ Returned(p) /\ UNCHANGED <<owes, drift>>
    /\ Unlocked(p)
    /\ UNCHANGED <<fixed, device, hub, cache, published, connected, faults>>

Sendable(p) ==
    /\ reading[p] # <<>>
    /\ Value(p) # None
    /\ Current(p).accepts # None => Value(p) \in Current(p).accepts

Publish(p) == published' = IF Current(p).event THEN Value(p) ELSE published

\* Another value of the same message may require the report.
Suppress(p) ==
    /\ Sendable(p) /\ ~Current(p).force
    /\ ~ReportRequired(Current(p).strategy, Current(p).key, Value(p))
    /\ Publish(p)
    /\ Returned(p) /\ Unlocked(p)
    /\ UNCHANGED <<fixed, device, hub, cache, connected, owes, drift, faults>>

\* As if the value counts as reported before it is sent.
ReportedThenSent(p) ==
    /\ Sendable(p)
    /\ Current(p).force \/ ReportRequired(Current(p).strategy, Current(p).key, Value(p))
    /\ cache' = IF Current(p).cached THEN Reported(Current(p).key, Value(p)) ELSE cache
    /\ \/ /\ hub' = Shown(Value(p)) /\ Publish(p) /\ Returned(p)
          /\ owes' = [owes EXCEPT ![p] = FALSE]
          /\ UNCHANGED <<drift, faults>>
       \/ Faulty(p) /\ UNCHANGED <<hub, published>>
    /\ Unlocked(p)
    /\ UNCHANGED <<fixed, device, connected>>

Send(p) ==
    /\ Sendable(p)
    /\ \/ Current(p).force
       \/ ReportRequired(Current(p).strategy, Current(p).key, Value(p))
       \/ Cardinality(Current(p).attrs) > 1
    /\ \/ /\ hub' = Shown(Value(p))
          /\ cache' = IF Current(p).cached THEN Reported(Current(p).key, Value(p)) ELSE cache
          /\ Publish(p)
          /\ Returned(p)
          /\ owes' = [owes EXCEPT ![p] = FALSE]
          /\ drift' = (drift /\ Value(p) # device)
          /\ UNCHANGED faults
       \/ Faulty(p) /\ UNCHANGED <<hub, cache, published>>
    /\ Unlocked(p)
    /\ UNCHANGED <<fixed, device, connected>>

\* The device changes on its own.
DeviceChanges ==
    /\ device' \in Values[attr] \ {device}
    /\ drift' = TRUE
    /\ UNCHANGED <<fixed, hub, cache, published, connected, lock, calls, reading,
                   owes, faults>>

\* The interval of the strategy passes.
Expire ==
    /\ \E i \in DOMAIN handleReporting :
        handleReporting[i].strategy = AtLeastEvery /\ Concerns(handleReporting[i])
    /\ \E k \in Cases :
        /\ cache[k] # None /\ ~cache[k].aged
        /\ cache' = [cache EXCEPT ![k].aged = TRUE]
    /\ UNCHANGED <<fixed, device, hub, published, connected, lock, calls, reading,
                   owes, drift, faults>>

Connectivity ==
    /\ connected' = ~connected
    /\ UNCHANGED <<fixed, device, hub, cache, published, lock, calls, reading, owes,
                   drift, faults>>

-----------------------------------------------------------------------------

Init ==
    /\ service \in Services
    /\ spec \in SpecificationsOf(service)
    /\ attr \in DOMAIN Values
    /\ device \in Values[attr]
    /\ hub = None /\ published = None
    /\ cache = [k \in Cases |-> None]
    /\ connected = TRUE
    /\ lock = None
    /\ calls = [p \in Procs |-> <<>>]
    /\ reading = [p \in Procs |-> <<>>]
    /\ owes = [p \in Procs |-> FALSE]
    /\ drift = TRUE
    /\ faults = 0

Enter(p) == Refuse(p) \/ Control(p) \/ Elsewhere(p) \/ Read(p)
Finish(p) == Reject(p) \/ Suppress(p) \/ Send(p)

Next ==
    \/ \E w \in Workers : Receive(w)
    \/ Tick
    \/ \E p \in Procs : Enter(p) \/ Finish(p)
    \/ DeviceChanges \/ Expire \/ Connectivity

\* The task manager starts the task at its interval, a method that has the
\* lock ends, and the mutex lets nobody starve (a sync.Mutex hands itself over
\* to who has waited long).
Fairness ==
    /\ WF_vars(Tick)
    /\ SF_vars(Enter(Task))
    /\ \A p \in Procs : WF_vars(Finish(p))

Spec == Init /\ [][Next]_vars /\ Fairness

-----------------------------------------------------------------------------

TypeOK ==
    /\ service \in Services /\ spec \in SpecificationsOf(service) /\ attr \in DOMAIN Values
    /\ device \in Values[attr]
    /\ hub \in {Shown(v) : v \in Values[attr] \ {None}} \cup {None}
    /\ \A k \in Cases : cache[k] # None =>
           cache[k] \in [value : Values[attr] \ {None}, aged : BOOLEAN]
    /\ connected \in BOOLEAN /\ drift \in BOOLEAN
    /\ lock \in Procs \cup {None}
    /\ \A p \in Procs : reading[p] # <<>> => Value(p) \in Values[attr]
    /\ owes \in [Procs -> BOOLEAN] /\ faults \in 0..MaxFaults

\* What is cached for an attribute is what the hub was told last: otherwise a
\* value that the hub does not have would count as reported
\* (cache/reporter.go, Reported follows SendMessage).
CacheIsHub ==
    \A k \in Cases : lock = None /\ cache[k] # None => hub = Shown(cache[k].value)

\* A command that was carried out is confirmed: a handler that ends without an
\* error has sent the value of the attribute it set, read after it was set.
CommandConfirmed == \A p \in Procs : calls[p] = <<>> => ~owes[p]

\* When all is quiet the hub and the device agree, whatever the order in which
\* handlers and task ran, unless the device changed on its own or a call failed.
Agreement ==
    (\A p \in Procs : calls[p] = <<>>) /\ ~drift => hub = Shown(device)

\* A listener inside the process, such as the virtual meter, has seen the same
\* last level as the hub (outlvlswitch, SendLevelReport).
EventFollowsHub ==
    service = "out_lvl_switch" /\ lock = None => published = hub

\* A command never sets the device to what the specification of its service rules
\* out, in the services that look: a mode of a thermostat, a water heater, a player
\* or a fan, a setpoint with its range and its step (water heater), the currents
\* and the phase mode of a charging station, a scene, a parameter whose widget fits
\* its type.  The messages are on both sides of each limit.  A level switch and a
\* lamp announce limits that they do not look at: nothing is claimed of them.
SpecificationRespected ==
    [][\A p \in Procs : ~owes[p] /\ owes'[p] /\ attr \in DOMAIN Limits =>
           device' \in Limits[attr]]_vars

\* The attribute is one of those the task reports, and its value reportable.
Polled ==
    \E i \in DOMAIN handleReporting :
        /\ Concerns(handleReporting[i])
        /\ device # None
        /\ handleReporting[i].accepts # None => device \in handleReporting[i].accepts

\* When a device stays connected and stops changing, the hub comes to know its
\* value, whatever failed before.
HubCatchesUp ==
    <>[]connected /\ <>[][device' = device]_vars => <>[](Polled => hub = Shown(device))
=============================================================================
